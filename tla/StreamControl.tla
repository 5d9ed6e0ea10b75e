----------------------------- MODULE StreamControl -----------------------------
(***************************************************************************)
(* How the servo stream (_ServoStreamer, driver.py) is driven: a tick that *)
(* fails pauses it, other threads pause it at any time, and before it is   *)
(* resumed it is told where the arm is, while it is paused and no tick is  *)
(* under way.                                                              *)
(***************************************************************************)

VARIABLES mode,   \* running, paused, or seeded: paused, and told where the arm is
          tick    \* a tick is under way

controlVars == <<mode, tick>>

Init == mode \in {"paused", "running"} /\ tick = FALSE

TickBegins == mode = "running" /\ ~tick /\ tick' = TRUE /\ UNCHANGED mode
TickEnds   == tick /\ tick' = FALSE /\ UNCHANGED mode
TickFails  == tick /\ tick' = FALSE /\ mode' = "paused"

Pause  == mode # "paused" /\ mode' = "paused" /\ UNCHANGED tick
Reseed == mode = "paused" /\ ~tick /\ mode' = "seeded" /\ UNCHANGED tick
Resume == mode = "seeded" /\ mode' = "running" /\ UNCHANGED tick

Next == TickBegins \/ TickEnds \/ TickFails \/ Pause \/ Reseed \/ Resume

Spec == Init /\ [][Next]_controlVars
=============================================================================
