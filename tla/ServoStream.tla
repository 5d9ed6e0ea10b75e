----------------------------- MODULE ServoStream -----------------------------
(***************************************************************************)
(* The arithmetic of _ServoStreamer (driver.py): what a servo tick sends,  *)
(* from the target and from what it sent before.  Mode 1 of the control    *)
(* box has no smoothing of its own: the limits on velocity, acceleration   *)
(* and Cartesian motion are those of this thread.                          *)
(*                                                                         *)
(* Angles are integers of one unit, velocities and accelerations are per   *)
(* tick; the Cartesian slow-down rounds towards zero.  The C24 backoff     *)
(* halves the limits, so HalfVel and HalfAcc are what is configured.  The  *)
(* stream is driven as StreamControl says; that the driver does so is      *)
(* ArmDriver's StreamControlled.                                           *)
(***************************************************************************)
EXTENDS Integers

CONSTANTS HalfVel,   \* half of _vel_step, for each joint
          HalfAcc,   \* half of _acc_step
          Lever,     \* lever_arm_m
          MaxCart,   \* max_cart_step_m
          Lo, Hi,    \* _q_lo, _q_hi: the joint limits, with their margin
          Requests,  \* postures that command_joints() is called with
          Postures,  \* postures at which the arm is when the stream is seeded
          Grace      \* _grace_ticks_max

Joints == 1 .. 7
Vectors == [Joints -> Int]

ASSUME ServoAssumption ==
  /\ HalfVel \in [Joints -> Nat] /\ HalfAcc \in [Joints -> Nat]
  /\ Lever \in [Joints -> Nat] /\ MaxCart \in Nat /\ Grace \in Nat
  /\ Lo \in Vectors /\ Hi \in Vectors /\ \A j \in Joints : Lo[j] <= Hi[j]
  /\ Requests \subseteq Vectors /\ Postures \subseteq Vectors

VARIABLES target,   \* _target
          last,     \* _last_sent
          prev,     \* _prev_dq
          scale,    \* _scale
          mode,     \* _paused, and whether it was seeded since
          grace,    \* _grace_ticks
          cmd,      \* q_cmd of the tick that is under way (last when none is)
          sending,  \* the tick under way: "no", "plain", or "grace" (in_grace)
          moved     \* history: the last step of the arm since the seed

vars == <<target, last, prev, scale, mode, grace, cmd, sending, moved>>

Control == INSTANCE StreamControl WITH tick <- sending # "no"

Still == [j \in Joints |-> 0]
Init ==                      \* connect: the streamer starts paused, then is seeded
  /\ last \in Postures /\ target = last /\ cmd = last
  /\ prev = Still /\ moved = Still
  /\ scale = "full" /\ mode = "paused" /\ grace = 0 /\ sending = "no"

(***************************************************************************)
(* One tick: the arithmetic of _run.                                       *)
(***************************************************************************)
Clip(x, lo, hi) == IF x < lo THEN lo ELSE IF x > hi THEN hi ELSE x
Clipped(q) == [j \in Joints |-> Clip(q[j], Lo[j], Hi[j])]
Abs(x) == IF x < 0 THEN -x ELSE x

Vel(j) == IF scale = "full" THEN 2 * HalfVel[j] ELSE HalfVel[j]
Acc(j) == IF scale = "full" THEN 2 * HalfAcc[j] ELSE HalfAcc[j]

\* (mutant) the acceleration is not limited
Unramped(j) == Clip(target[j] - last[j], -Vel(j), Vel(j))

\* (mutant) what is left is computed from the command before the last
RampedLate(j) ==
  Clip(Clip(target[j] - last[j] + prev[j], -Vel(j), Vel(j)),
       prev[j] - Acc(j), prev[j] + Acc(j))

\* the velocity limit, then the acceleration limit around the step before
Ramped(j) == Clip(Clip(target[j] - last[j], -Vel(j), Vel(j)),
                  prev[j] - Acc(j), prev[j] + Acc(j))

\* a conservative bound of what a step moves the tool
Reach(d) == Abs(d[1]) * Lever[1] + Abs(d[2]) * Lever[2] + Abs(d[3]) * Lever[3]
          + Abs(d[4]) * Lever[4] + Abs(d[5]) * Lever[5] + Abs(d[6]) * Lever[6]
          + Abs(d[7]) * Lever[7]

\* x * n / m, towards zero
Fraction(x, n, m) == IF x < 0 THEN -((-x * n) \div m) ELSE (x * n) \div m

\* (mutant) the tool's speed is not limited
Unslowed(d) == d

Slowed(d) ==
  IF Reach(d) > MaxCart
    THEN [j \in Joints |-> Fraction(d[j], MaxCart, Reach(d))]
    ELSE d

Command == LET d == Slowed([j \in Joints |-> Ramped(j)])
           IN Clipped([j \in Joints |-> last[j] + d[j]])

TickReads ==                     \* under the streamer's lock
  /\ \/ sending' = "plain"         \* the window is over in time, or in ticks
     \/ grace > 0 /\ sending' = "grace"
  /\ Control!TickBegins
  /\ cmd' = Command
  /\ UNCHANGED <<target, last, prev, scale, grace, moved>>

TickSent ==                      \* set_servo_angle_j returned 0
  /\ sending' = "no" /\ Control!TickEnds
  /\ last' = cmd
  /\ prev' = [j \in Joints |-> cmd[j] - last[j]] /\ moved' = prev'
  /\ UNCHANGED <<target, scale, grace, cmd>>

\* (mutant) the ticks of the window are not counted
TickNotReadyUncounted ==
  /\ sending = "grace" /\ sending' = "no" /\ Control!TickEnds
  /\ cmd' = last
  /\ UNCHANGED <<target, last, prev, scale, grace, moved>>

TickNotReady ==                  \* code 9 within the grace window
  /\ sending = "grace" /\ sending' = "no" /\ Control!TickEnds
  /\ cmd' = last /\ grace' = grace - 1
  /\ UNCHANGED <<target, last, prev, scale, moved>>

TickFails ==                     \* any other code: pause, and the fault funnel
  /\ sending' = "no" /\ Control!TickFails
  /\ prev' = Still /\ cmd' = last
  /\ UNCHANGED <<target, last, scale, grace, moved>>

(***************************************************************************)
(* The methods of the streamer.                                            *)
(***************************************************************************)
SetTarget ==                     \* command_joints clips to the limits
  /\ \E q \in Requests : target' = Clipped(q)
  /\ UNCHANGED <<last, prev, scale, mode, grace, cmd, sending, moved>>

Pause ==
  /\ prev' = Still
  /\ UNCHANGED <<target, last, scale, grace, cmd, sending, moved>>
  /\ Control!Pause

\* a recovery, after its pause, has read where the arm is; the tick that was under
\* way then is over (ArmDriver's NoJump says what comes of one that is not)
Reseed ==
  /\ \E q \in Postures : target' = q /\ last' = q /\ cmd' = q
  /\ prev' = Still /\ moved' = Still
  /\ UNCHANGED <<scale, grace, sending>>
  /\ Control!Reseed

Resume ==
  /\ grace' = Grace
  /\ UNCHANGED <<target, last, prev, scale, cmd, sending, moved>>
  /\ Control!Resume

SetScale ==                      \* a C24, and the end of its backoff
  /\ scale' = (IF scale = "full" THEN "half" ELSE "full")
  /\ UNCHANGED <<target, last, prev, mode, grace, cmd, sending, moved>>

Tick == TickReads \/ TickSent \/ TickNotReady \/ TickFails

Next == \/ Tick
        \/ SetTarget \/ Pause \/ Reseed \/ Resume \/ SetScale

Spec == Init /\ [][Next]_vars
FairSpec == Spec /\ WF_vars(Tick)

(***************************************************************************)
(* Properties.                                                             *)
(***************************************************************************)
\* Every variable stays in its range.
TypeOK ==
  /\ target \in Vectors /\ last \in Vectors /\ prev \in Vectors
  /\ cmd \in Vectors /\ moved \in Vectors
  /\ scale \in {"full", "half"} /\ mode \in {"paused", "seeded", "running"}
  /\ grace \in 0 .. Grace /\ sending \in {"no", "plain", "grace"}

\* No command that the box executes moves a joint by more than its velocity
\* limit, or faster than the step before by more than its acceleration limit,
\* through any pauses, seeds, refused ticks and changes of the scale (config.py:
\* "max_joint_vel ... (per-tick slew = vel*dt)").
StepLimited ==
  [][TickSent =>
       \A j \in Joints :
         /\ Abs(cmd[j] - last[j]) <= 2 * HalfVel[j]
         /\ Abs(cmd[j] - last[j]) <= Abs(moved[j]) + 2 * HalfAcc[j]]_vars

\* No command moves the tool by more than max_cart_step_m (config.py: "one tick
\* must never be able to cross the inflated shell").
ToolStepLimited ==
  [][TickSent => Reach([j \in Joints |-> cmd[j] - last[j]]) <= MaxCart]_vars

\* The postures from which and to which the arm was sent
Approved == Postures \cup {Clipped(q) : q \in Requests}

\* The ramp may carry a joint past a target, but never further than the distance
\* in which it stops from full speed, at the reduced acceleration, beyond the
\* postures that it was sent to.
StoppingDistance ==
  \A j \in Joints :
    /\ \E q \in Approved : 2 * HalfAcc[j] * (last[j] - q[j]) <= (2 * HalfVel[j]) * (2 * HalfVel[j])
    /\ \E q \in Approved : 2 * HalfAcc[j] * (q[j] - last[j]) <= (2 * HalfVel[j]) * (2 * HalfVel[j])

\* A target that stays is reached, and held: the ramp does not oscillate around
\* it, and a box that is not ready is not waited for without end.
Arrives ==
  \A q \in Approved, s \in {"full", "half"} :
    <>[](target = q /\ mode = "running" /\ scale = s) => <>[](last = q)
=============================================================================
