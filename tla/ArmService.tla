------------------------------ MODULE ArmService ------------------------------
(***************************************************************************)
(* What a connected arm (driver.py, the phases of XArmDriver) promises to  *)
(* who uses it, whatever the box, the servo stream and the SDK do: it is   *)
(* live, or halted for as long as a recovery takes, or latched; and a      *)
(* latch is a matter of the user.  Each request for a recovery is taken up *)
(* and releases the arm once, and nothing else does.                       *)
(***************************************************************************)

VARIABLES service,   \* what the arm does for its user
          asked,     \* a recovery was requested
          granted    \* ... and taken up: it may release a latch, once

serviceVars == <<service, asked, granted>>

Init == service = "live" /\ asked = FALSE /\ granted = FALSE

Halt == /\ service = "live" /\ service' = "halted"
        /\ UNCHANGED <<asked, granted>>

Resume == /\ service = "halted" /\ service' = "live"
          /\ UNCHANGED <<asked, granted>>

GiveUp == /\ service' = "latched"
          /\ UNCHANGED <<asked, granted>>

Ask == /\ asked' = TRUE
       /\ UNCHANGED <<service, granted>>

Grant == /\ asked /\ ~granted
         /\ asked' = FALSE /\ granted' = TRUE
         /\ UNCHANGED service

Release == /\ granted /\ granted' = FALSE
           /\ service' = "halted"
           /\ UNCHANGED asked

Next == Halt \/ Resume \/ GiveUp \/ Ask \/ Grant \/ Release

Spec == Init /\ [][Next]_serviceVars

\* An arm is not left halted, and no request is left waiting.
Served == /\ service = "halted" ~> service # "halted"
          /\ asked ~> granted
          /\ granted ~> ~granted
=============================================================================
