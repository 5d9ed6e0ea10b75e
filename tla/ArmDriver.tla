------------------------------ MODULE ArmDriver ------------------------------
(***************************************************************************)
(* One connected arm: class XArmDriver (driver.py) with its two threads,   *)
(* the 100 Hz servo streamer and the 5 Hz monitor, the threads that call   *)
(* its methods, and the control box as the driver sees it.                 *)
(*                                                                         *)
(* Faults are detected by a servo tick, by the monitor's error poll and by *)
(* the mode reports; they funnel into _on_fault, and the monitor thread    *)
(* runs _recover.  An operator asks for a recovery with request_recovery   *)
(* (run by the monitor) or clear_errors (run by the caller), and stops the *)
(* arm with stop (run by the caller).  _phase is written by all of them,   *)
(* only _on_fault under _phase_lock; _recover runs under _recovery_lock.   *)
(*                                                                         *)
(* Every method is split at its SDK calls and lock blocks: pc is where a   *)
(* thread is, spc where the streamer is.  The rail, the gripper, the event *)
(* queue and the timed budget of automatic recoveries are not here: the    *)
(* decision of the budget is a free choice between recovering and          *)
(* latching.                                                               *)
(***************************************************************************)
EXTENDS Naturals

CONSTANTS Monitor,   \* the monitor thread
          Callers,   \* threads that call the driver's methods
          Errors,    \* classes of controller errors that occur
          Hazards    \* what else may happen, see HazardKinds

\* FaultKind of a controller error, by classify_error; "none" is error 0
ErrorClass == {"none", "recoverable", "rail", "hard"}

HazardKinds ==
  {"stop",        \* callers call stop()
   "clear",       \* callers call clear_errors()
   "stall",       \* a servo tick may be overtaken by other threads
   "reject",      \* set_servo_angle_j may fail on a healthy arm
   "caught",      \* an SDK call of a recovery asked with request_recovery may raise
   "raise",       \* an SDK call of any recovery may raise
   "takeover",    \* Studio or an e-stop takes the arm out of servo mode
   "displace",    \* an arm out of servo mode may be moved by hand
   "link"}        \* the connection to the box may be lost

ASSUME DriverAssumption == /\ Monitor \notin Callers
                           /\ Errors \subseteq ErrorClass \ {"none"}
                           /\ Hazards \subseteq HazardKinds

Threads == Callers \cup {Monitor}

VARIABLES phase,     \* _phase
          pending,   \* _fault_pending
          request,   \* _user_recovery_pending
          paused,    \* the streamer's _paused
          grace,     \* code 9 is tolerated: _grace_until, _grace_ticks
          fresh,     \* _last_sent is where the arm is
          spc,       \* where the streamer's tick is
          flight,    \* the tick's command starts where the arm is
          pc,        \* where each thread is
          how,       \* what started the sequence a thread runs
          ctlErr,    \* the box: class of its latched error
          ctlServo,  \* the box: in servo mode and healthy
          link,      \* the box: api.connected
          left       \* _snap: the reports show the arm out of servo mode

driverVars == <<phase, pending, request>>
streamVars == <<paused, grace, fresh, spc, flight>>
threadVars == <<pc, how>>
boxVars    == <<ctlErr, ctlServo, link, left>>
vars == <<driverVars, streamVars, threadVars, boxVars>>

\* what a thread runs: _recover for the user, _recover for a fault, its
\* external branch, _handle_external from the poll, stop, a raised recovery
Ways == {"idle", "user", "auto", "external", "poll", "stop", "raised"}
Locked == {"user", "auto", "external"}      \* under _recovery_lock

PhaseSet == {"STREAMING", "FAULT", "RECOVERING", "LATCHED"}
PcSet == {"idle", "lock", "unflag", "readerr", "clean", "enable", "regrab", "mode", "seed",
          "resume", "stream", "record", "latch", "hold", "found_none",
          "found_rail", "found_error", "check", "pause", "stop4"}
TickSet == {"idle", "send", "commit", "pause", "fault", "pause2"}

\* _handle_external stays in its external way until the thread is done
HandlesExternal(t) == how[t] \in {"external", "poll"}
RecoveryLockFree == \A u \in Threads : how[u] \notin Locked \/ pc[u] \in {"idle", "lock"}

Init ==                          \* connect() has just set STREAMING
  /\ phase = "STREAMING" /\ pending = FALSE /\ request = FALSE
  /\ paused = FALSE /\ grace = TRUE /\ fresh = TRUE
  /\ spc = "idle" /\ flight = TRUE
  /\ pc = [t \in Threads |-> "idle"]
  /\ how = [t \in Threads |-> "idle"]
  /\ ctlErr = "none" /\ ctlServo = TRUE /\ link = TRUE /\ left = FALSE

Goto(t, l) == pc' = [pc EXCEPT ![t] = l]
Done(t) == Goto(t, "idle") /\ how' = [how EXCEPT ![t] = "idle"]
Start(t, w, l) == Goto(t, l) /\ how' = [how EXCEPT ![t] = w]

(***************************************************************************)
(* The streamer: one tick of _ServoStreamer._run.                          *)
(***************************************************************************)
TickRead ==                      \* under the streamer's lock
  /\ spc = "idle" /\ ~paused
  /\ spc' = "send" /\ flight' = fresh
  /\ UNCHANGED <<driverVars, paused, grace, fresh, threadVars, boxVars>>

Accepts == link /\ ctlServo /\ ctlErr \in {"none", "rail"}

TickSent ==                      \* set_servo_angle_j returned 0: the arm moves
  /\ spc = "send" /\ Accepts
  /\ spc' = "commit"
  /\ UNCHANGED <<driverVars, paused, grace, fresh, flight, threadVars, boxVars>>

TickCommit ==                    \* _last_sent := q_cmd, under the lock
  /\ spc = "commit" /\ spc' = "idle"
  /\ fresh' = flight /\ flight' = TRUE
  /\ UNCHANGED <<driverVars, paused, grace, threadVars, boxVars>>

\* code 9 inside the grace window: swallowed, tried again at the next tick
TickNotReady ==
  /\ spc = "send" /\ ~Accepts /\ grace
  /\ spc' = "idle" /\ flight' = TRUE
  /\ UNCHANGED <<driverVars, paused, grace, fresh, threadVars, boxVars>>

TickRejected ==
  /\ spc = "send" /\ (~Accepts \/ "reject" \in Hazards)
  /\ spc' = "pause" /\ flight' = TRUE
  /\ UNCHANGED <<driverVars, paused, grace, fresh, threadVars, boxVars>>

\* self.pause() of the failed tick, and the pause at the end of _on_fault
TickPauses ==
  /\ spc \in {"pause", "pause2"}
  /\ paused' = TRUE
  /\ spc' = (IF spc = "pause" THEN "fault" ELSE "idle")
  /\ UNCHANGED <<driverVars, grace, fresh, flight, threadVars, boxVars>>

\* (mutant) LATCHED does not return
FunnelFromLatched ==
  IF phase \in {"FAULT", "RECOVERING"}
    THEN UNCHANGED <<phase, pending>>
    ELSE phase' = "FAULT" /\ pending' = TRUE

\* (mutant) the pending flag is forgotten
FunnelUnflagged ==
  IF phase \in {"FAULT", "RECOVERING", "LATCHED"}
    THEN UNCHANGED <<phase, pending>>
    ELSE phase' = "FAULT" /\ UNCHANGED pending

\* _on_fault, under _phase_lock: returns in FAULT, RECOVERING and LATCHED
Funnel ==
  IF phase \in {"FAULT", "RECOVERING", "LATCHED"}
    THEN UNCHANGED <<phase, pending>>
    ELSE phase' = "FAULT" /\ pending' = TRUE

TickFaults ==
  /\ spc = "fault" /\ Funnel
  /\ spc' = (IF phase = "STREAMING" THEN "pause2" ELSE "idle")
  /\ UNCHANGED <<request, paused, grace, fresh, flight, threadVars, boxVars>>

Tick == \/ TickRead \/ TickSent \/ TickCommit \/ TickNotReady \/ TickRejected
        \/ TickPauses \/ TickFaults

(***************************************************************************)
(* _recover, thread t, under _recovery_lock.                               *)
(***************************************************************************)
RecoverBegin(t) ==
  /\ pc[t] = "lock" /\ RecoveryLockFree
  /\ phase' = "RECOVERING" /\ Goto(t, "unflag")
  /\ UNCHANGED <<pending, request, streamVars, how, boxVars>>

RecoverUnflag(t) ==              \* a statement of its own: no _phase_lock
  /\ pc[t] = "unflag" /\ Goto(t, "readerr")
  /\ pending' = FALSE
  /\ UNCHANGED <<phase, request, streamVars, how, boxVars>>

\* get_err_warn_code; a failed read counts as error 0, also where the link is up
RecoverReadError(t) ==
  /\ pc[t] = "readerr"
  /\ \E e \in {ctlErr, "none"} :
       \/ /\ how[t] = "user" \/ e \in {"recoverable", "rail"}
          /\ Goto(t, "clean") /\ UNCHANGED how
       \/ /\ how[t] = "auto" /\ e = "none"            \* _handle_external
          /\ Goto(t, "regrab") /\ how' = [how EXCEPT ![t] = "external"]
       \/ /\ how[t] = "auto" /\ e \in {"hard", "recoverable"}
          /\ Goto(t, "latch") /\ UNCHANGED how        \* or the budget is spent
  /\ UNCHANGED <<driverVars, streamVars, boxVars>>

RecoverClean(t) ==               \* clean_error, clean_warn; codes not read
  /\ pc[t] = "clean" /\ Goto(t, "enable")
  /\ ctlErr' = (IF link THEN "none" ELSE ctlErr)
  /\ UNCHANGED <<driverVars, streamVars, how, ctlServo, link, left>>

\* (mutant) returns without the latch
RecoverEnableReturns(t) ==
  /\ pc[t] = "enable"
  /\ (link /\ Goto(t, "mode")) \/ Goto(t, "record")
  /\ UNCHANGED <<driverVars, streamVars, how, boxVars>>

RecoverEnable(t) ==              \* motion_enable fails on an engaged e-stop
  /\ pc[t] = "enable"
  /\ (link /\ Goto(t, "mode")) \/ Goto(t, "latch")
  /\ UNCHANGED <<driverVars, streamVars, how, boxVars>>

\* (mutant) the streamer is not paused
RegrabStreaming(t) ==
  /\ pc[t] = "regrab"
  /\ Goto(t, "latch") \/ Goto(t, "mode")
  /\ UNCHANGED <<driverVars, streamVars, how, boxVars>>

\* _handle_external: a second conflict within 5 s latches; else pause and re-grab
Regrab(t) ==
  /\ pc[t] = "regrab"
  /\ \/ Goto(t, "latch") /\ UNCHANGED paused
     \/ Goto(t, "mode") /\ paused' = TRUE
  /\ UNCHANGED <<driverVars, grace, fresh, spc, flight, how, boxVars>>

\* set_mode(1), set_state(0), wait until ready or timed out; _handle_external
\* does not look at the codes
EnterServoMode(t) ==
  /\ pc[t] = "mode"
  /\ \/ /\ Goto(t, "seed") /\ left' = FALSE
        /\ \/ link /\ ctlErr \in {"none", "rail"} /\ ctlServo' = TRUE
           \/ (HandlesExternal(t) \/ link) /\ UNCHANGED ctlServo
     \/ ~HandlesExternal(t) /\ Goto(t, "latch") /\ UNCHANGED <<left, ctlServo>>
  /\ UNCHANGED <<driverVars, streamVars, how, ctlErr, link>>

\* (mutant) the streamer is not reseeded
ReseedSkipped(t) ==
  /\ pc[t] = "seed"
  /\ (link /\ Goto(t, "resume")) \/ Goto(t, "latch")
  /\ UNCHANGED <<driverVars, streamVars, how, boxVars>>

\* _read_measured_q, then reseed: _last_sent := where the arm is
Reseed(t) ==
  /\ pc[t] = "seed"
  /\ \/ link /\ Goto(t, "resume") /\ fresh' = TRUE
     \/ Goto(t, "latch") /\ UNCHANGED fresh
  /\ UNCHANGED <<driverVars, paused, grace, spc, flight, how, boxVars>>

\* (mutant) _handle_external does not resume
ResumeOnlyRecoveries(t) ==
  /\ pc[t] = "resume" /\ Goto(t, "stream")
  /\ paused' = (paused /\ how[t] = "poll") /\ grace' = TRUE
  /\ UNCHANGED <<driverVars, fresh, spc, flight, how, boxVars>>

Resume(t) ==
  /\ pc[t] = "resume" /\ Goto(t, "stream")
  /\ paused' = FALSE /\ grace' = TRUE
  /\ UNCHANGED <<driverVars, fresh, spc, flight, how, boxVars>>

\* the plain write _phase = STREAMING that ends _recover and _handle_external
SetStreaming(t) ==
  /\ pc[t] = "stream"
  /\ phase' = "STREAMING"
  /\ IF how[t] = "poll" THEN Done(t) ELSE Goto(t, "record") /\ UNCHANGED how
  /\ UNCHANGED <<pending, request, streamVars, boxVars>>

Latch(t) ==                      \* _latch: the phase, then the pause
  /\ pc[t] = "latch" /\ Goto(t, "hold")
  /\ phase' = "LATCHED"
  /\ UNCHANGED <<pending, request, streamVars, how, boxVars>>

\* (mutant) the streamer is not paused
LatchStreams(t) ==
  /\ pc[t] = "hold"
  /\ IF how[t] \in {"poll", "stop"} THEN Done(t) ELSE Goto(t, "record") /\ UNCHANGED how
  /\ UNCHANGED <<driverVars, streamVars, boxVars>>

LatchPauses(t) ==
  /\ pc[t] = "hold"
  /\ paused' = TRUE
  /\ IF how[t] \in {"poll", "stop"} THEN Done(t) ELSE Goto(t, "record") /\ UNCHANGED how
  /\ UNCHANGED <<driverVars, grace, fresh, spc, flight, boxVars>>

\* _record_recovery; ok is read back from _phase
Record(t) ==
  /\ pc[t] = "record" /\ Done(t)
  /\ UNCHANGED <<driverVars, streamVars, boxVars>>

\* an SDK call raises: _user_recover catches it and latches; else the monitor's
\* _run swallows it, or it leaves clear_errors through its caller
RecoverRaises(t) ==
  /\ pc[t] \in {"readerr", "clean", "enable", "mode", "seed"}
  /\ \/ /\ t = Monitor /\ how[t] = "user" /\ Hazards \cap {"raise", "caught"} # {}
        /\ Start(t, "raised", "latch")
     \/ /\ ~(t = Monitor /\ how[t] = "user") /\ "raise" \in Hazards
        /\ Done(t)
  /\ UNCHANGED <<driverVars, streamVars, boxVars>>

Recover(t) ==
  \/ RecoverBegin(t) \/ RecoverUnflag(t) \/ RecoverReadError(t) \/ RecoverClean(t)
  \/ RecoverEnable(t) \/ Regrab(t) \/ EnterServoMode(t) \/ Reseed(t) \/ Resume(t) \/ SetStreaming(t)
  \/ Latch(t) \/ LatchPauses(t) \/ Record(t) \/ RecoverRaises(t)

(***************************************************************************)
(* _MonitorThread.step                                                     *)
(***************************************************************************)
MonitorIdle == pc[Monitor] = "idle"

MonitorTakesRequest ==           \* pops the flag; _user_recover pauses first
  /\ MonitorIdle /\ request
  /\ request' = FALSE /\ paused' = TRUE
  /\ Start(Monitor, "user", "lock")
  /\ UNCHANGED <<phase, pending, grace, fresh, spc, flight, boxVars>>

\* (mutant) pops the flag before _recovery_lock is held
MonitorPopsFault ==
  /\ MonitorIdle /\ ~request /\ pending /\ phase = "FAULT"
  /\ pending' = FALSE
  /\ Start(Monitor, "auto", "lock")
  /\ UNCHANGED <<phase, request, streamVars, boxVars>>

MonitorTakesFault ==
  /\ MonitorIdle /\ ~request /\ pending /\ phase = "FAULT"
  /\ Start(Monitor, "auto", "lock")
  /\ UNCHANGED <<driverVars, streamVars, boxVars>>

NothingPending == ~request /\ ~(pending /\ phase = "FAULT")

MonitorSeesLinkLost ==
  /\ MonitorIdle /\ NothingPending /\ ~link
  /\ phase # "LATCHED" /\ Start(Monitor, "poll", "latch")
  /\ UNCHANGED <<driverVars, streamVars, boxVars>>

MonitorPolls ==                  \* get_err_warn_code
  /\ MonitorIdle /\ NothingPending /\ link
  /\ Start(Monitor, "poll", CASE ctlErr = "none" -> "found_none"
                              [] ctlErr = "rail" -> "found_rail"
                              [] OTHER           -> "found_error")
  /\ UNCHANGED <<driverVars, streamVars, boxVars>>

MonitorFaults ==                 \* _on_fault("monitor", err)
  /\ pc[Monitor] = "found_error" /\ phase = "STREAMING"
  /\ Funnel /\ Goto(Monitor, "pause")
  /\ UNCHANGED <<request, streamVars, how, boxVars>>

MonitorPauses ==
  /\ pc[Monitor] = "pause" /\ Done(Monitor)
  /\ paused' = TRUE
  /\ UNCHANGED <<driverVars, grace, fresh, spc, flight, boxVars>>

MonitorCleansRail ==             \* 111: the rail is latched, the arm goes on
  /\ pc[Monitor] = "found_rail" /\ Goto(Monitor, "check")
  /\ ctlErr' = (IF link THEN "none" ELSE ctlErr)
  /\ UNCHANGED <<driverVars, streamVars, how, ctlServo, link, left>>

\* the reports show the arm out of servo mode with no error: _handle_external;
\* a cached error keeps the conflict detector quiet
MonitorChecksMode ==
  /\ pc[Monitor] \in {"found_none", "check", "found_error"}
  /\ pc[Monitor] = "found_error" => phase # "STREAMING"
  /\ IF phase = "STREAMING" /\ left
       THEN Goto(Monitor, "regrab") /\ UNCHANGED how
       ELSE Done(Monitor)
  /\ UNCHANGED <<driverVars, streamVars, boxVars>>

MonitorStep == \/ MonitorTakesRequest \/ MonitorTakesFault \/ MonitorSeesLinkLost
               \/ MonitorPolls \/ MonitorFaults \/ MonitorPauses
               \/ MonitorCleansRail \/ MonitorChecksMode

(***************************************************************************)
(* Methods on a caller's thread.                                           *)
(***************************************************************************)
RequestRecovery(c) ==
  /\ pc[c] = "idle" /\ ~request
  /\ request' = TRUE
  /\ UNCHANGED <<phase, pending, streamVars, threadVars, boxVars>>

StopBegin(c) ==                  \* stop: the streamer is paused first
  /\ "stop" \in Hazards /\ pc[c] = "idle"
  /\ paused' = TRUE
  /\ Start(c, "stop", "stop4")
  /\ UNCHANGED <<driverVars, grace, fresh, spc, flight, boxVars>>

StopState4(c) ==                 \* set_state(4), then _latch("user_stop")
  /\ pc[c] = "stop4" /\ Goto(c, "latch")
  /\ ctlServo' = (IF link THEN FALSE ELSE ctlServo)
  /\ UNCHANGED <<driverVars, streamVars, how, ctlErr, link, left>>

ClearErrorsBegin(c) ==           \* only meaningful from LATCHED or FAULT
  /\ "clear" \in Hazards /\ pc[c] = "idle"
  /\ phase \in {"LATCHED", "FAULT"}
  /\ Start(c, "user", "lock")
  /\ UNCHANGED <<driverVars, streamVars, boxVars>>

Call(c) == RequestRecovery(c) \/ StopBegin(c) \/ ClearErrorsBegin(c)

(***************************************************************************)
(* The control box, and time.                                              *)
(***************************************************************************)
BoxError ==                      \* an error latches; 111 does not stop the arm
  /\ \E e \in Errors :
       /\ ctlErr = "none" \/ (e = "hard" /\ ctlErr # "hard")
       /\ ctlErr' = e
       /\ ctlServo' = (ctlServo /\ e = "rail")
  /\ UNCHANGED <<driverVars, streamVars, threadVars, link, left>>

TakenOver ==                     \* Studio, or an e-stop, leaves servo mode
  /\ "takeover" \in Hazards /\ ctlServo /\ ctlServo' = FALSE
  /\ UNCHANGED <<driverVars, streamVars, threadVars, ctlErr, link, left>>

Displaced ==                     \* an arm out of servo mode is moved
  /\ "displace" \in Hazards /\ ~ctlServo
  /\ fresh' = FALSE /\ flight' = (spc \notin {"send", "commit"})
  /\ UNCHANGED <<driverVars, paused, grace, spc, threadVars, boxVars>>

LinkLost ==
  /\ "link" \in Hazards /\ link /\ link' = FALSE
  /\ UNCHANGED <<driverVars, streamVars, threadVars, ctlErr, ctlServo, left>>

\* the reports catch up with the box, 0.5 s after set_mode at the latest
Report ==
  /\ link /\ left' = ~ctlServo
  /\ UNCHANGED <<driverVars, streamVars, threadVars, ctlErr, ctlServo, link>>

GraceEnds ==
  /\ grace /\ grace' = FALSE
  /\ UNCHANGED <<driverVars, paused, fresh, spc, flight, threadVars, boxVars>>

Box == BoxError \/ TakenOver \/ Displaced \/ LinkLost

\* what another thread does while a tick runs
Undisturbed == spc = "idle" \/ "stall" \in Hazards

Next ==
  \/ Tick
  \/ Undisturbed /\ (MonitorStep \/ \E t \in Threads : Recover(t))
  \/ Undisturbed /\ \E c \in Callers : Call(c) \/ StopState4(c)
  \/ Box \/ Report \/ GraceEnds

Spec == Init /\ [][Next]_vars

\* Both threads of the driver keep ticking, a method that was called goes on,
\* reports keep coming and the grace window is bounded.  Fairness is strong where
\* Undisturbed holds a thread back for the length of a tick, again and again.
FairSpec ==
  /\ Spec
  /\ WF_vars(Tick)
  /\ SF_vars(Undisturbed /\ (MonitorStep \/ Recover(Monitor)))
  /\ \A c \in Callers : SF_vars(Undisturbed /\ (Recover(c) \/ StopState4(c)))
  /\ WF_vars(Report) /\ WF_vars(GraceEnds)

(***************************************************************************)
(* Properties.                                                             *)
(***************************************************************************)
\* Every variable stays in its range.
TypeOK ==
  /\ phase \in PhaseSet
  /\ pending \in BOOLEAN /\ request \in BOOLEAN
  /\ paused \in BOOLEAN /\ grace \in BOOLEAN /\ fresh \in BOOLEAN
  /\ spc \in TickSet /\ flight \in BOOLEAN
  /\ pc \in [Threads -> PcSet] /\ how \in [Threads -> Ways]
  /\ ctlErr \in ErrorClass /\ ctlServo \in BOOLEAN /\ link \in BOOLEAN
  /\ left \in BOOLEAN

\* A halted arm is not streamed to: while the phase is FAULT or LATCHED the
\* streamer is paused, except between the write of the phase and the pause that
\* follows it, or between a resume and the STREAMING that follows it.  However
\* many threads stop, recover and fault at once, none leaves a halted phase
\* behind with the stream running.
HaltedMeansPaused ==
  phase \in {"FAULT", "LATCHED"} /\ ~paused =>
    \/ spc = "pause2"
    \/ \E t \in Threads : pc[t] \in {"pause", "hold", "stream"}

\* a thread in a recovery, on its way to STREAMING or LATCHED
Recovering ==
  \E t \in Threads : how[t] \in Locked \cup {"raised"} /\ pc[t] \in
    {"unflag", "readerr", "clean", "enable", "regrab", "mode", "seed", "resume",
     "stream", "latch"}

\* The phase is RECOVERING only while a thread is in _recover: _on_fault ignores
\* faults in RECOVERING and clear_errors does nothing in it, so an abandoned
\* RECOVERING would deafen the driver.  Holds unless an exception is not caught.
RecoveringHasOwner == phase = "RECOVERING" => Recovering

\* A fault that is signalled is not dropped: FAULT keeps the flag that makes the
\* monitor recover, or a recovery is on its way, whatever else writes the phase
\* meanwhile.  Holds unless an exception is not caught.
FaultStaysPending == phase = "FAULT" => pending \/ Recovering

\* LATCHED is left only on behalf of the user: no automatic recovery and no
\* re-grab of servo mode undoes a latch (stop: "set_state(4) + LATCHED";
\* command_joints: "LATCHED ...; call clear_errors() to recover").
LatchHeld ==
  [][phase = "LATCHED" /\ phase' # "LATCHED" =>
       \E t \in Threads : pc[t] # pc'[t] /\ how[t] = "user"]_vars

\* A command that the box executes starts where the arm is: no jump after the
\* arm was moved outside servo mode (reseed: "post-recovery re-anchor").
NoJump == [][spc = "send" /\ spc' = "commit" => flight]_vars

\* An automatic recovery never cleans an unrecoverable error (classify_error:
\* "only the explicitly recoverable list auto-resumes").
OnlyRecoverableResumes ==
  [][\A t \in Threads : pc[t] = "clean" /\ pc'[t] = "enable" /\ how[t] = "auto"
                          => ctlErr # "hard"]_vars

\* A fault ends in a resumed stream or in a latch.
FaultHandled == phase = "FAULT" ~> phase \in {"STREAMING", "LATCHED"}

\* STREAMING with the streamer paused does not last: either it streams again or
\* the phase says that it does not (RecoveredEvent: "streaming resumed").
StreamingMoves == phase = "STREAMING" /\ paused ~> phase # "STREAMING" \/ ~paused

\* The driver implements ArmService, as long as nobody but its monitor thread
\* recovers and latches: the phases are what the user sees of it, and a request is
\* granted from when the monitor takes it to when _recover begins.
Service == INSTANCE ArmService WITH
  service <- CASE phase = "STREAMING" -> "live"
               [] phase = "LATCHED"   -> "latched"
               [] OTHER               -> "halted",
  asked   <- request,
  granted <- how[Monitor] = "user" /\ pc[Monitor] = "lock"
ServiceKept == Service!Spec

\* ... and serves: it does not stay halted, and no request is left waiting.
ServiceServed == Service!Served

\* The streamer is driven as ServoStream assumes it: nobody tells it where the arm
\* is while it runs or a tick is under way, and nobody resumes it without telling
\* it (reseed and resume, in _recover and _handle_external).
Stream == INSTANCE StreamControl WITH
  mode <- CASE pc[Monitor] = "resume" -> "seeded"
            [] ~paused                -> "running"
            [] OTHER                  -> "paused",
  tick <- spc \in {"send", "commit", "pause"}
StreamControlled == Stream!Spec
=============================================================================
