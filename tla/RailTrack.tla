------------------------------ MODULE RailTrack ------------------------------
(***************************************************************************)
(* The linear track of one arm: class RailController (rail.py) and the     *)
(* track it drives.                                                        *)
(*                                                                         *)
(* Three kinds of threads meet in it.  The monitor thread runs step() five *)
(* times a second and latch_error(); a caller's thread runs home(), which  *)
(* MOVES the carriage and takes up to 30 s; any thread calls set_target(). *)
(* A caller of clear_errors() may also run latch_error() (driver.py        *)
(* _recover); in some behaviours there is none (cpc is "absent").          *)
(*                                                                         *)
(* A program counter per thread splits the methods at the points where     *)
(* another thread can run: around each SDK call and each `with self._lock` *)
(* block.  _lock is held for one atomic action.  _io_lock is held exactly  *)
(* while the monitor is inside the body of step(): home() only passes      *)
(* through it, so "the lock is free" is ~InStep.                           *)
(*                                                                         *)
(* Positions are whole millimetres; two of them closer than MIN_DELTA_MM   *)
(* are equal.                                                              *)
(***************************************************************************)
EXTENDS Integers

CONSTANTS Homers,          \* threads that call home()
          RailMax,         \* RAIL_MM_MAX: the travel of the carriage
          Requests         \* positions asked of set_target, over-travel too

ASSUME RailAssumption == /\ RailMax \in Nat
                         /\ Requests \subseteq Int

VARIABLES conn,       \* stage of the connection: init, up, readonly, refused
          phase,      \* _phase
          pos,        \* _pos_m, the published carriage position
          posKnown,   \* _pos_known
          target,     \* _target_m, Empty when None
          homing,     \* _homing, the latch of home()
          lastSent,   \* _last_sent_mm, Empty when None
          cleaned,    \* _cleaned_once
          mpc,        \* where the monitor thread is
          loaded,     \* the target step() has read
          hpc,        \* where each caller of home() is
          outcome,    \* RailHomeOutcome of the last home() of each caller
          cpc,        \* where the caller of clear_errors() is, "absent" if none is
          carriage,   \* the track: where the carriage really is
          goal,       \* the track: position it is moving to, Empty at rest
          regs        \* the track: its registers

railVars  == <<conn, phase, pos, posKnown, target, homing, lastSent, cleaned>>
trackVars == <<carriage, goal, regs>>
vars == <<railVars, mpc, loaded, hpc, outcome, cpc, trackVars>>

Positions == 0 .. RailMax
Empty == -1000000                \* None: no position and no request
RailPhase == {"ABSENT", "DETECTED", "READY", "RAIL_ERROR"}
Registers == [on_zero : BOOLEAN, is_enabled : BOOLEAN, error : BOOLEAN]

MonitorPc == {"idle", "read", "load", "send", "clean", "fault", "drop", "latch"}
InStep == mpc \in {"read", "load", "send", "clean", "fault", "drop"}

HomerPc == {"idle", "barrier", "preread", "origin", "enable", "readback",
            "clear", "ready", "fault", "drop", "done"}
\* after the barrier home() has the bus to itself
AfterBarrier(h) == hpc[h] \notin {"idle", "barrier"}

\* (mutant) no upper end
ClampBelow(p) == IF p < 0 THEN 0 ELSE p

\* units.rail_m_to_mm: every command passes through this clamp
Clamp(p) == IF p < 0 THEN 0 ELSE IF p > RailMax THEN RailMax ELSE p

Init ==
  /\ conn = "init" /\ phase = "ABSENT"
  /\ pos = 0 /\ posKnown = FALSE
  /\ target = Empty /\ homing = FALSE /\ lastSent = Empty /\ cleaned = FALSE
  /\ mpc = "idle" /\ loaded = Empty /\ cpc \in {"absent", "idle"}
  /\ hpc = [h \in Homers |-> "idle"]
  /\ outcome = [h \in Homers |-> "none"]
  /\ carriage \in Positions /\ goal = Empty /\ regs \in Registers

(***************************************************************************)
(* Bring-up: detect() and require_homed(), or observe_registers() for a    *)
(* read-only connection.  No other thread uses the rail yet, so each way   *)
(* through is one action.                                                  *)
(***************************************************************************)
StayDown == UNCHANGED <<target, homing, mpc, loaded, hpc, outcome, cpc,
                        carriage, goal>>

\* detect() gets no register reply: no track on this arm
DetectAbsent ==
  /\ conn = "init" /\ conn' = "refused"
  /\ StayDown /\ UNCHANGED <<phase, pos, posKnown, lastSent, cleaned, regs>>

\* the gate refuses: registers unreadable, or a set-up write failed (latched),
\* or an unhomed track under rail_homing = "refuse" (nothing written)
ConnectRefused ==
  /\ conn = "init" /\ conn' = "refused"
  /\ phase' \in IF regs.on_zero THEN {"RAIL_ERROR"} ELSE {"RAIL_ERROR", "DETECTED"}
  /\ pos' \in {pos, carriage}
  /\ StayDown /\ UNCHANGED <<posKnown, lastSent, cleaned, regs>>

\* rail_homing = "allow_unhomed": accepted with the position unknown
ConnectUnhomed ==
  /\ conn = "init" /\ ~regs.on_zero
  /\ conn' = "up" /\ phase' = "DETECTED" /\ pos' = 0 /\ posKnown' = FALSE
  /\ StayDown /\ UNCHANGED <<lastSent, cleaned, regs>>

\* _setup_homed_track: enable, speed cap, seed the position
ConnectHomed ==
  /\ conn = "init" /\ regs.on_zero
  /\ conn' = "up" /\ phase' = "READY" /\ pos' = carriage /\ posKnown' = TRUE
  /\ lastSent' = Empty /\ cleaned' = FALSE
  /\ regs' = [regs EXCEPT !.is_enabled = TRUE]
  /\ StayDown

\* what observe_registers makes of one reply, or of none
Observed(reply) ==
  IF reply /\ regs.on_zero /\ regs.is_enabled
    THEN pos' = carriage /\ posKnown' = TRUE
    ELSE pos' = 0 /\ posKnown' = FALSE

ConnectReadonly ==
  /\ conn = "init" /\ conn' = "readonly" /\ phase' = "DETECTED"
  /\ Observed(TRUE)
  /\ StayDown /\ UNCHANGED <<lastSent, cleaned, regs>>

\* the read-only poller reads the registers again; the read may fail
ObserveRegisters ==
  /\ conn = "readonly"
  /\ \E reply \in BOOLEAN : Observed(reply)
  /\ StayDown /\ UNCHANGED <<conn, phase, lastSent, cleaned, regs>>

Bringup == \/ DetectAbsent \/ ConnectRefused \/ ConnectUnhomed
           \/ ConnectHomed \/ ConnectReadonly \/ ObserveRegisters

(***************************************************************************)
(* set_target(), any thread: the whole body is under _lock.                *)
(***************************************************************************)
\* (mutant) the phase is not looked at
SetTargetInAnyPhase(p) ==
  /\ ~homing /\ conn = "up" /\ target' = p
  /\ UNCHANGED <<conn, phase, pos, posKnown, homing, lastSent, cleaned,
                 mpc, loaded, hpc, outcome, cpc, trackVars>>

\* (mutant) a homing in progress is not looked at
SetTargetWhileHoming(p) ==
  /\ phase = "READY" /\ conn = "up" /\ target' = p
  /\ UNCHANGED <<conn, phase, pos, posKnown, homing, lastSent, cleaned,
                 mpc, loaded, hpc, outcome, cpc, trackVars>>

SetTarget(p) ==
  /\ phase = "READY" /\ ~homing         \* otherwise the target is dropped
  /\ conn = "up"
  /\ target' = p
  /\ UNCHANGED <<conn, phase, pos, posKnown, homing, lastSent, cleaned,
                 mpc, loaded, hpc, outcome, cpc, trackVars>>

(***************************************************************************)
(* step(), monitor thread, one SDK call per action.                        *)
(***************************************************************************)
\* (mutant) steps while home() waits at its barrier
StepBeginWhileHoming ==
  /\ conn = "up" /\ mpc = "idle" /\ phase = "READY"
  /\ mpc' = "read"
  /\ UNCHANGED <<railVars, loaded, hpc, outcome, cpc, trackVars>>

StepBegin ==                            \* takes _io_lock; returns if it may not act
  /\ conn = "up" /\ mpc = "idle"
  /\ ~homing /\ phase = "READY"
  /\ mpc' = "read"
  /\ UNCHANGED <<railVars, loaded, hpc, outcome, cpc, trackVars>>

StepReadPos ==                          \* get_linear_track_pos may fail
  /\ mpc = "read" /\ mpc' = "load"
  /\ pos' \in {pos, carriage}
  /\ UNCHANGED <<conn, phase, posKnown, target, homing, lastSent, cleaned,
                 loaded, hpc, outcome, cpc, trackVars>>

\* the position a new target is compared with
Reference == IF lastSent = Empty THEN pos ELSE lastSent

StepLoad ==
  /\ mpc = "load"
  /\ IF target = Empty \/ Clamp(target) = Reference
       THEN mpc' = "idle" /\ UNCHANGED loaded
       ELSE mpc' = "send" /\ loaded' = Clamp(target)
  /\ UNCHANGED <<railVars, hpc, outcome, cpc, trackVars>>

StepSendOk ==                           \* set_linear_track_pos returned 0
  /\ mpc = "send" /\ mpc' = "idle"
  /\ regs.is_enabled /\ ~regs.error
  /\ goal' = loaded /\ lastSent' = loaded /\ cleaned' = FALSE /\ loaded' = Empty
  /\ UNCHANGED <<conn, phase, pos, posKnown, target, homing,
                 hpc, outcome, cpc, carriage, regs>>

\* (mutant) cleans again and again
StepSendNeverFaults ==
  /\ mpc = "send" /\ mpc' = "clean" /\ loaded' = Empty
  /\ UNCHANGED <<railVars, hpc, outcome, cpc, trackVars>>

\* _handle_track_error: one clean and re-enable, then the fault
StepSendFails ==
  /\ mpc = "send" /\ mpc' = (IF cleaned THEN "fault" ELSE "clean")
  /\ loaded' = Empty
  /\ UNCHANGED <<railVars, hpc, outcome, cpc, trackVars>>

StepClean ==
  /\ mpc = "clean" /\ mpc' = "idle"
  /\ cleaned' = TRUE
  /\ regs' \in {regs, [regs EXCEPT !.error = FALSE, !.is_enabled = TRUE]}
  /\ UNCHANGED <<conn, phase, pos, posKnown, target, homing, lastSent,
                 loaded, hpc, outcome, cpc, carriage, goal>>

StepFault ==                            \* _fault, the write outside _lock
  /\ mpc = "fault" /\ mpc' = "drop"
  /\ phase' = "RAIL_ERROR"
  /\ UNCHANGED <<conn, pos, posKnown, target, homing, lastSent, cleaned,
                 loaded, hpc, outcome, cpc, trackVars>>

\* _fault, the block under _lock; the end of step() or of latch_error()
MonitorDropsTarget ==
  /\ mpc \in {"drop", "latch"} /\ mpc' = "idle"
  /\ target' = Empty
  /\ UNCHANGED <<conn, phase, pos, posKnown, homing, lastSent, cleaned,
                 loaded, hpc, outcome, cpc, trackVars>>

\* controller error 111: latch_error, no _io_lock.  The poll skips a rail that is latched
\* already, _recover does not
MonitorLatch ==
  /\ conn = "up" /\ mpc = "idle"
  /\ mpc' = "latch" /\ phase' = "RAIL_ERROR"
  /\ UNCHANGED <<conn, pos, posKnown, target, homing, lastSent, cleaned,
                 loaded, hpc, outcome, cpc, trackVars>>

Monitor == \/ StepBegin \/ StepReadPos \/ StepLoad \/ StepSendOk \/ StepSendFails
           \/ StepClean \/ StepFault \/ MonitorDropsTarget \/ MonitorLatch

(***************************************************************************)
(* latch_error() run by a caller of clear_errors() that reads error 111.   *)
(***************************************************************************)
CallerLatch ==
  /\ conn = "up" /\ cpc = "idle"
  /\ cpc' = "drop" /\ phase' = "RAIL_ERROR"
  /\ UNCHANGED <<conn, pos, posKnown, target, homing, lastSent, cleaned,
                 mpc, loaded, hpc, outcome, trackVars>>

CallerDropsTarget ==
  /\ cpc = "drop" /\ cpc' = "idle"
  /\ target' = Empty
  /\ UNCHANGED <<conn, phase, pos, posKnown, homing, lastSent, cleaned,
                 mpc, loaded, hpc, outcome, trackVars>>

(***************************************************************************)
(* home(), on the caller's thread.                                         *)
(***************************************************************************)
Goto(h, l) == hpc' = [hpc EXCEPT ![h] = l]

HomeBegin(h) ==
  /\ conn = "up" /\ hpc[h] = "idle"
  /\ homing' = TRUE /\ target' = Empty
  /\ outcome' = [outcome EXCEPT ![h] = "none"] /\ Goto(h, "barrier")
  /\ UNCHANGED <<conn, phase, pos, posKnown, lastSent, cleaned,
                 mpc, loaded, cpc, trackVars>>

\* (mutant) does not wait for the step() that is on the bus
HomeWithoutBarrier(h) ==
  /\ hpc[h] = "barrier" /\ Goto(h, "preread")
  /\ UNCHANGED <<railVars, mpc, loaded, outcome, cpc, trackVars>>

HomeBarrier(h) ==                       \* a step() on the bus finishes first
  /\ hpc[h] = "barrier" /\ ~InStep
  /\ Goto(h, "preread")
  /\ UNCHANGED <<railVars, mpc, loaded, outcome, cpc, trackVars>>

\* registers unreadable: fault; a latched track error: refused, nothing written
HomePreRead(h) ==
  /\ hpc[h] = "preread"
  /\ \/ Goto(h, "fault") /\ outcome' = [outcome EXCEPT ![h] = "unwritten"]
     \/ /\ regs.error
        /\ Goto(h, "done") /\ outcome' = [outcome EXCEPT ![h] = "unwritten"]
     \/ ~regs.error /\ Goto(h, "origin") /\ UNCHANGED outcome
  /\ UNCHANGED <<railVars, mpc, loaded, cpc, trackVars>>

\* back_origin: the carriage reaches the zero end, or stops short of it
HomeOrigin(h) ==
  /\ hpc[h] = "origin" /\ Goto(h, "enable")
  /\ goal' = Empty
  /\ \/ carriage' = 0 /\ regs' = [regs EXCEPT !.on_zero = TRUE]
     \/ carriage' \in Positions /\ regs' = [regs EXCEPT !.on_zero = FALSE]
  /\ UNCHANGED <<railVars, mpc, loaded, outcome, cpc>>

HomeEnable(h) ==                        \* enable and speed; codes not judged
  /\ hpc[h] = "enable" /\ Goto(h, "readback")
  /\ regs' \in {regs, [regs EXCEPT !.is_enabled = TRUE]}
  /\ UNCHANGED <<railVars, mpc, loaded, outcome, cpc, carriage, goal>>

\* the outcome is judged from the registers alone
Homed == regs.on_zero /\ regs.is_enabled /\ ~regs.error

HomeReadBack(h) ==
  /\ hpc[h] = "readback"
  /\ \/ Homed /\ pos' = carriage /\ Goto(h, "clear") /\ UNCHANGED outcome
     \/ /\ Goto(h, "fault") /\ UNCHANGED pos      \* unreadable, or ~Homed
        /\ outcome' = [outcome EXCEPT ![h] = "failed"]
  /\ UNCHANGED <<conn, phase, posKnown, target, homing, lastSent, cleaned,
                 mpc, loaded, cpc, trackVars>>

HomeClearTarget(h) ==                   \* under _lock
  /\ hpc[h] = "clear" /\ Goto(h, "ready")
  /\ target' = Empty
  /\ UNCHANGED <<conn, phase, pos, posKnown, homing, lastSent, cleaned,
                 mpc, loaded, outcome, cpc, trackVars>>

HomeReady(h) ==
  /\ hpc[h] = "ready" /\ Goto(h, "done")
  /\ phase' = "READY" /\ posKnown' = TRUE
  /\ lastSent' = Empty /\ cleaned' = FALSE
  /\ outcome' = [outcome EXCEPT ![h] = "ok"]
  /\ UNCHANGED <<conn, pos, target, homing, mpc, loaded, cpc, trackVars>>

HomeFault(h) ==                         \* _fault, the write outside _lock
  /\ hpc[h] = "fault" /\ Goto(h, "drop")
  /\ phase' = "RAIL_ERROR"
  /\ UNCHANGED <<conn, pos, posKnown, target, homing, lastSent, cleaned,
                 mpc, loaded, outcome, cpc, trackVars>>

HomeDropsTarget(h) ==
  /\ hpc[h] = "drop" /\ Goto(h, "done")
  /\ target' = Empty
  /\ UNCHANGED <<conn, phase, pos, posKnown, homing, lastSent, cleaned,
                 mpc, loaded, outcome, cpc, trackVars>>

HomeEnd(h) ==                           \* the finally block of home()
  /\ hpc[h] = "done" /\ Goto(h, "idle")
  /\ homing' = FALSE
  /\ UNCHANGED <<conn, phase, pos, posKnown, target, lastSent, cleaned,
                 mpc, loaded, outcome, cpc, trackVars>>

Home(h) == \/ HomeBarrier(h) \/ HomePreRead(h) \/ HomeOrigin(h) \/ HomeEnable(h)
           \/ HomeReadBack(h) \/ HomeClearTarget(h) \/ HomeReady(h)
           \/ HomeFault(h) \/ HomeDropsTarget(h) \/ HomeEnd(h)

(***************************************************************************)
(* The track: it carries out the motion, reports errors, loses its zero    *)
(* with its power; an operator may home it behind a read-only connection.  *)
(***************************************************************************)
TrackMoves ==
  /\ goal # Empty /\ carriage' = goal /\ goal' = Empty
  /\ UNCHANGED <<railVars, mpc, loaded, hpc, outcome, cpc, regs>>

TrackFails ==
  /\ regs' \in {[regs EXCEPT !.error = TRUE], [regs EXCEPT !.is_enabled = FALSE],
                [on_zero |-> FALSE, is_enabled |-> FALSE, error |-> FALSE]}
  /\ UNCHANGED <<railVars, mpc, loaded, hpc, outcome, cpc, carriage, goal>>

HomedByOperator ==
  /\ conn = "readonly" /\ carriage' = 0
  /\ regs' = [on_zero |-> TRUE, is_enabled |-> TRUE, error |-> FALSE]
  /\ UNCHANGED <<railVars, mpc, loaded, hpc, outcome, cpc, goal>>

Track == TrackMoves \/ TrackFails \/ HomedByOperator

Next == \/ Bringup
        \/ \E p \in Requests : SetTarget(p)
        \/ Monitor
        \/ CallerLatch \/ CallerDropsTarget
        \/ \E h \in Homers : HomeBegin(h) \/ Home(h)
        \/ Track

Spec == Init /\ [][Next]_vars

\* the monitor thread ticks at 5 Hz, and a thread inside home() goes on
FairSpec ==
  /\ Spec
  /\ WF_vars(StepBegin \/ StepReadPos \/ StepLoad \/ StepSendOk \/ StepSendFails
             \/ StepClean \/ StepFault \/ MonitorDropsTarget)
  /\ WF_vars(CallerDropsTarget)
  /\ \A h \in Homers : WF_vars(Home(h))

(***************************************************************************)
(* Properties.                                                             *)
(***************************************************************************)
\* Every variable stays in its range; no command leaves the travel [0, RailMax].
TypeOK ==
  /\ conn \in {"init", "up", "readonly", "refused"}
  /\ phase \in RailPhase
  /\ pos \in Positions /\ posKnown \in BOOLEAN
  /\ target \in Requests \cup {Empty} /\ homing \in BOOLEAN
  /\ lastSent \in Positions \cup {Empty} /\ cleaned \in BOOLEAN
  /\ mpc \in MonitorPc /\ loaded \in Positions \cup {Empty}
  /\ hpc \in [Homers -> HomerPc]
  /\ outcome \in [Homers -> {"none", "unwritten", "ok", "failed"}]
  /\ cpc \in {"absent", "idle", "drop"}
  /\ carriage \in Positions /\ goal \in Positions \cup {Empty}
  /\ regs \in Registers

\* While home() is past its barrier no step() is on the bus: the monitor never
\* commands the carriage under a homing motion (rail.py, home and step).
BusExclusion == \A h \in Homers : AfterBarrier(h) => ~InStep

\* A faulted or unhomed track keeps no target, except for the instant between
\* the two halves of _fault: nothing is parked to fire when it is READY again.
FaultDropsTarget ==
  phase # "READY" /\ target # Empty =>
    mpc \in {"drop", "latch"} \/ cpc = "drop" \/ \E h \in Homers : hpc[h] = "drop"

\* A position is sent only to a track whose position is a measurement, and, when
\* only the monitor latches error 111, only to a READY one (set_target: "an
\* unhomed / faulted track is never commanded").  A caller of clear_errors()
\* latches it without _io_lock, inside a step() that has passed its phase check.
SendOnlyWhenCommandable ==
  mpc = "send" => posKnown /\ (cpc = "absent" => phase = "READY")

\* When a homing makes the track READY, no target is pending and step() holds
\* none it had read before: what was asked during or before the homing is gone.
ReadyStartsEmpty ==
  [][\A h \in Homers : outcome'[h] = "ok" /\ outcome[h] # "ok"
                          => target' = Empty /\ ~InStep']_vars

\* A target is served: sent to the track, already where the carriage is,
\* replaced by a later one, or dropped by a fault or a homing.
TargetServed ==
  \A p \in Requests :
    target = p ~> target # p \/ lastSent = Clamp(p) \/ pos = Clamp(p)

\* home() ends: its barrier is passed and the latch of step() is lowered.
HomingEnds == \A h \in Homers : hpc[h] # "idle" ~> hpc[h] = "idle"
=============================================================================
