------------------------------ MODULE ArmSession ------------------------------
(***************************************************************************)
(* The sessions of the arms: XArmDriver.connect and disconnect (driver.py) *)
(* with the threads they start and stop.  For each arm cpc is where the    *)
(* thread is that connects it, wpc where its monitor thread is, ccp where a*)
(* caller of clear_errors() is, which recovers on its own thread and which *)
(* nobody joins, and dpc where disconnect() is.  The methods are split at  *)
(* their SDK calls.                                                        *)
(*                                                                         *)
(* Of the box only the clients and the brakes are kept: motion_enable(True)*)
(* releases them, motion_enable(False) engages them, and neither has an    *)
(* effect through a client that is closed.  ArmDriver models the stream and*)
(* the recoveries of a session in detail; here a recovery is what it writes*)
(* and whether it still finds self._api.  late records that a bounded join *)
(* has run out while a thread was inside an SDK write.  handback records   *)
(* how the last hand-back of an arm went: clean, refused by its box (a code*)
(* or an exception that disconnect() ignores), or crossed by a caller of   *)
(* clear_errors() that was about to enable the arm behind its back.        *)
(*                                                                         *)
(* An arm of Observed is connected with readonly = TRUE: its thread is the *)
(* read-only poller, and its brakes belong to somebody else.               *)
(***************************************************************************)
CONSTANTS Arms,
          Faulty,        \* arms whose network, box, track or gripper may fail
          Observed,      \* arms connected read-only
          Tuned,         \* bound: arms whose collision sensitivity somebody sets
          Cleared        \* bound: arms for which somebody calls clear_errors()

ASSUME SessionAssumption ==
  /\ Faulty \subseteq Arms /\ Observed \subseteq Arms
  /\ Tuned \subseteq Arms /\ Cleared \subseteq Arms

VARIABLES cpc, wpc, ccp, dpc,
          api,           \* _api is set
          client,        \* the client of the last connect, at the box
          running,       \* the threads of the session are told to run
          phase,         \* _phase
          setting,       \* _pending_sensitivity
          err,           \* the BringupError of connect(), or "none"
          released,      \* the box: brakes released
          handback,      \* how the last hand-back went
          late

threadVars == <<cpc, wpc, ccp, dpc>>
driverVars == <<api, running, phase, setting, err>>
boxVars    == <<client, released, handback>>
sessionVars == <<threadVars, driverVars, boxVars, late>>

CpcSet == {"none", "boot", "dial", "identity", "clear", "rail", "enable", "gripper", "servo",
           "threads", "stream", "fresh", "subscribe", "observe", "poller", "end", "crashed"}
WpcSet == {"idle", "lock", "enable", "mode", "await", "resume", "setting", "poll"}
CcpSet == {"idle", "lock", "enable", "mode", "await", "resume"}
DpcSet == {"idle", "stop", "join", "handback", "close"}
PhaseSet == {"IDLE", "CONNECTING", "READY", "STREAMING", "FAULT", "RECOVERING", "LATCHED",
             "READONLY"}
HandbackSet == {"clean", "refused", "crossed"}
ErrSet == {"none", "network", "connect", "identity", "rail", "gripper", "seed", "report"}

SessionInit ==
  /\ cpc = [a \in Arms |-> "none"] /\ wpc = [a \in Arms |-> "idle"]
  /\ ccp = [a \in Arms |-> "idle"] /\ dpc = [a \in Arms |-> "idle"]
  /\ api = [a \in Arms |-> FALSE] /\ client = [a \in Arms |-> "none"]
  /\ running = [a \in Arms |-> FALSE] /\ phase = [a \in Arms |-> "IDLE"]
  /\ setting = [a \in Arms |-> FALSE] /\ err = [a \in Arms |-> "none"]
  /\ released \in [Arms -> BOOLEAN] /\ \A a \in Arms \ Observed : ~released[a]
  /\ handback = [a \in Arms |-> "clean"] /\ late = FALSE

Connecting(a) == cpc[a] \notin {"none", "end", "crashed"}
To(a, l) == cpc' = [cpc EXCEPT ![a] = l]
Phase(a, p) == phase' = [phase EXCEPT ![a] = p]
Open(a) == client[a] = "open"
MayFail(a) == a \in Faulty \/ ~Open(a)

\* a BringupError: the thread of the bring-up keeps it and ends
Fails(a, e) == To(a, "end") /\ err' = [err EXCEPT ![a] = e]

(***************************************************************************)
(* connect()                                                               *)
(***************************************************************************)
Dial(a) ==                         \* _connect_api, three attempts; self._api = api
  /\ cpc[a] = "dial"
  /\ \/ /\ client' = [client EXCEPT ![a] = "open"] /\ api' = [api EXCEPT ![a] = TRUE]
        /\ Phase(a, "CONNECTING") /\ UNCHANGED err
        /\ To(a, IF a \in Observed THEN "subscribe" ELSE "identity")
     \/ a \in Faulty /\ Fails(a, "connect") /\ Phase(a, "IDLE") /\ UNCHANGED <<api, client>>
  /\ UNCHANGED <<wpc, ccp, dpc, running, setting, released, handback, late>>

Identity(a) ==
  /\ cpc[a] = "identity"
  /\ \/ To(a, "clear") /\ UNCHANGED <<phase, err>>
     \/ a \in Faulty /\ Fails(a, "identity") /\ Phase(a, "IDLE")
  /\ UNCHANGED <<wpc, ccp, dpc, api, running, setting, boxVars, late>>

Clear(a) ==                        \* clean_warn, clean_error, apply_backstops
  /\ cpc[a] = "clear" /\ To(a, "rail")
  /\ UNCHANGED <<wpc, ccp, dpc, driverVars, boxVars, late>>

\* (mutant) the arm is enabled before the track is looked at
RailAfterEnable(a) ==
  /\ cpc[a] = "rail" /\ released' = [released EXCEPT ![a] = @ \/ Open(a)]
  /\ \/ To(a, "enable") /\ UNCHANGED <<phase, err>>
     \/ MayFail(a) /\ Fails(a, "rail") /\ Phase(a, "IDLE")
  /\ UNCHANGED <<wpc, ccp, dpc, api, running, setting, client, handback, late>>

Rail(a) ==                         \* detect, require_homed: before motion_enable
  /\ cpc[a] = "rail"
  /\ \/ To(a, "enable") /\ UNCHANGED <<phase, err>>
     \/ MayFail(a) /\ Fails(a, "rail") /\ Phase(a, "IDLE")
  /\ UNCHANGED <<wpc, ccp, dpc, api, running, setting, boxVars, late>>

Enable(a) ==                       \* motion_enable(True), set_mode(0), set_state(0)
  /\ cpc[a] = "enable" /\ To(a, "gripper") /\ Phase(a, "READY")
  /\ released' = [released EXCEPT ![a] = @ \/ Open(a)]
  /\ UNCHANGED <<wpc, ccp, dpc, api, running, setting, err, client, handback, late>>

Gripper(a) ==                      \* GripperBackend.init; the phase stays READY
  /\ cpc[a] = "gripper"
  /\ \/ To(a, "servo") /\ UNCHANGED err
     \/ MayFail(a) /\ Fails(a, "gripper")
  /\ UNCHANGED <<wpc, ccp, dpc, api, running, phase, setting, boxVars, late>>

ServoMode(a) ==                    \* _enter_servo_mode and _read_measured_q use self._api
  /\ cpc[a] = "servo"
  /\ \/ api[a] /\ To(a, "threads") /\ UNCHANGED err
     \/ api[a] /\ MayFail(a) /\ Fails(a, "seed")
     \/ ~api[a] /\ To(a, "crashed") /\ UNCHANGED err
  /\ UNCHANGED <<wpc, ccp, dpc, api, running, phase, setting, boxVars, late>>

StartThreads(a) ==                 \* the streamer, then the monitor
  /\ cpc[a] = "threads" /\ To(a, "stream")
  /\ running' = [running EXCEPT ![a] = TRUE]
  /\ UNCHANGED <<wpc, ccp, dpc, api, phase, setting, err, boxVars, late>>

Streams(a) ==
  /\ cpc[a] = "stream" /\ To(a, "fresh") /\ Phase(a, "STREAMING")
  /\ UNCHANGED <<wpc, ccp, dpc, api, running, setting, err, boxVars, late>>

\* an SDK call raises a bare Exception, which nobody catches: the thread ends and
\* the bring-up knows of no error
ConnectRaises(a) ==
  /\ cpc[a] \in {"clear", "rail", "enable", "gripper", "servo", "subscribe", "observe"}
  /\ MayFail(a) /\ To(a, "crashed")
  /\ UNCHANGED <<wpc, ccp, dpc, driverVars, boxVars, late>>

(***************************************************************************)
(* _connect_readonly(): reads only.                                        *)
(***************************************************************************)
Subscribe(a) ==                    \* identity, register_report_callback
  /\ cpc[a] = "subscribe"
  /\ \/ To(a, "observe") /\ UNCHANGED <<phase, err>>
     \/ a \in Faulty /\ Fails(a, "identity") /\ Phase(a, "IDLE")
  /\ UNCHANGED <<wpc, ccp, dpc, api, running, setting, boxVars, late>>

Observe(a) ==                      \* track registers, gripper opening, error codes
  /\ cpc[a] = "observe"
  /\ \/ To(a, "poller") /\ UNCHANGED <<phase, err>>
     \/ MayFail(a) /\ Fails(a, "rail") /\ Phase(a, "IDLE")
  /\ UNCHANGED <<wpc, ccp, dpc, api, running, setting, boxVars, late>>

StartPoller(a) ==
  /\ cpc[a] = "poller" /\ To(a, "end") /\ Phase(a, "READONLY")
  /\ running' = [running EXCEPT ![a] = TRUE]
  /\ UNCHANGED <<wpc, ccp, dpc, api, setting, err, boxVars, late>>

Connect(a) ==
  \/ Dial(a) \/ Identity(a) \/ Clear(a) \/ Rail(a) \/ Enable(a) \/ Gripper(a) \/ ServoMode(a)
  \/ StartThreads(a) \/ Streams(a) \/ ConnectRaises(a)
  \/ Subscribe(a) \/ Observe(a) \/ StartPoller(a)

(***************************************************************************)
(* The monitor thread of a session, or the read-only poller, and a caller  *)
(* of clear_errors().  _recovery_lock keeps their recoveries apart, so that*)
(* at most one of the two is in the steps from enable to resume.           *)
(***************************************************************************)
Go(a, l) == wpc' = [wpc EXCEPT ![a] = l]
Idle(a) == running[a] /\ api[a] /\ wpc[a] = "idle"      \* step() returns without _api
Locked(a) == {wpc[a], ccp[a]} \cap {"enable", "mode", "await", "resume"} # {}

\* whichever thread is at step l of _recover goes on to step m
Recovers(a, l, m) ==
  \/ wpc[a] = l /\ Go(a, m) /\ UNCHANGED ccp
  \/ ccp[a] = l /\ ccp' = [ccp EXCEPT ![a] = m] /\ UNCHANGED wpc

Faults(a) ==                       \* a servo tick or an error poll: _on_fault
  /\ running[a] /\ a \notin Observed /\ phase[a] \in {"READY", "STREAMING"}
  /\ Phase(a, "FAULT")
  /\ UNCHANGED <<threadVars, api, running, setting, err, boxVars, late>>

\* the monitor calls _recover: on a fault, or on a request in whatever phase
Recover(a) ==
  /\ Idle(a) /\ a \notin Observed /\ Go(a, "lock")
  /\ UNCHANGED <<cpc, ccp, dpc, driverVars, boxVars, late>>

ClearErrors(a) ==                  \* clear_errors, on the thread of its caller
  /\ a \in Cleared /\ ccp[a] = "idle" /\ phase[a] \in {"LATCHED", "FAULT"}
  /\ ccp' = [ccp EXCEPT ![a] = "lock"]
  /\ UNCHANGED <<cpc, wpc, dpc, driverVars, boxVars, late>>

\* _recovery_lock; api = self._api; without one the first read raises
RecoverBegins(a) ==
  /\ ~Locked(a) /\ Recovers(a, "lock", IF api[a] THEN "enable" ELSE "idle")
  /\ Phase(a, "RECOVERING") \/ (~api[a] /\ Phase(a, "LATCHED"))
  /\ UNCHANGED <<cpc, dpc, api, running, setting, err, boxVars, late>>

RecoverEnables(a) ==               \* motion_enable(True), through its own api
  /\ Recovers(a, "enable", "mode")
  /\ released' = [released EXCEPT ![a] = @ \/ Open(a)]
  /\ UNCHANGED <<cpc, dpc, driverVars, client, handback, late>>

RecoverSetsMode(a) ==              \* set_mode(1), set_state(0)
  /\ Recovers(a, "mode", "await")
  /\ UNCHANGED <<cpc, dpc, driverVars, boxVars, late>>

\* _await_servo_ready waits up to 2 s on self._api; _read_measured_q raises without it
RecoverReads(a) ==
  /\ Recovers(a, "await", IF api[a] THEN "resume" ELSE "idle")
  /\ UNCHANGED <<cpc, dpc, driverVars, boxVars, late>>

\* an SDK call failed, or it raised: what a user's request raises is caught and latches,
\* anything else leaves the phase where it is
RecoverFails(a) ==
  /\ \E l \in {"enable", "mode", "await"} : Recovers(a, l, "idle")
  /\ Phase(a, "LATCHED") \/ UNCHANGED phase
  /\ UNCHANGED <<cpc, dpc, api, running, setting, err, boxVars, late>>

RecoverResumes(a) ==
  /\ Recovers(a, "resume", "idle") /\ Phase(a, "STREAMING")
  /\ UNCHANGED <<cpc, dpc, api, running, setting, err, boxVars, late>>

RequestSetting(a) ==               \* request_set_collision_sensitivity, any thread
  /\ api[a] /\ running[a] /\ a \in Tuned \ Observed /\ ~setting[a]
  /\ setting' = [setting EXCEPT ![a] = TRUE]
  /\ UNCHANGED <<threadVars, api, running, phase, err, boxVars, late>>

TakesSetting(a) ==
  /\ Idle(a) /\ setting[a] /\ phase[a] # "FAULT" /\ Go(a, "setting")
  /\ setting' = [setting EXCEPT ![a] = FALSE]
  /\ UNCHANGED <<cpc, ccp, dpc, api, running, phase, err, boxVars, late>>

AppliesSetting(a) ==               \* set_collision_sensitivity: one write, codes only
  /\ wpc[a] = "setting" /\ Go(a, "idle")
  /\ UNCHANGED <<cpc, ccp, dpc, driverVars, boxVars, late>>

Polls(a) ==                        \* _ReadonlyPoller.step: three reads
  /\ a \in Observed
  /\ \/ Idle(a) /\ Go(a, "poll")
     \/ wpc[a] = "poll" /\ Go(a, "idle")
  /\ UNCHANGED <<cpc, ccp, dpc, driverVars, boxVars, late>>

Recovery(a) ==
  \/ RecoverBegins(a) \/ RecoverEnables(a) \/ RecoverSetsMode(a) \/ RecoverReads(a)
  \/ RecoverFails(a) \/ RecoverResumes(a)

Worker(a) == Recover(a) \/ TakesSetting(a) \/ AppliesSetting(a) \/ Polls(a)

(***************************************************************************)
(* disconnect()                                                            *)
(***************************************************************************)
InWrite(a) == wpc[a] \in {"enable", "mode", "setting", "poll"}
At(a, l) == dpc' = [dpc EXCEPT ![a] = l]

Disconnect(a) ==                   \* api, self._api = self._api, None
  /\ dpc[a] = "idle" /\ api[a] /\ At(a, "stop")
  /\ api' = [api EXCEPT ![a] = FALSE]
  /\ UNCHANGED <<cpc, wpc, ccp, running, phase, setting, err, boxVars, late>>

\* (mutant) the threads are told to stop and not joined
StopThreadsOnly(a) ==
  /\ dpc[a] = "stop" /\ At(a, IF a \in Observed THEN "close" ELSE "handback")
  /\ running' = [running EXCEPT ![a] = FALSE]
  /\ UNCHANGED <<cpc, wpc, ccp, api, phase, setting, err, boxVars, late>>

StopThreads(a) ==
  /\ dpc[a] = "stop" /\ At(a, "join")
  /\ running' = [running EXCEPT ![a] = FALSE]
  /\ UNCHANGED <<cpc, wpc, ccp, api, phase, setting, err, boxVars, late>>

\* a thread that waits, for the servo mode or for the lock, may be left behind
Joins(a) ==
  \/ wpc[a] \in {"idle", "lock", "await"} /\ UNCHANGED late
  \/ InWrite(a) /\ late' = TRUE

\* (mutant) an observed arm is handed back like one of the own arms
JoinHandsAllBack(a) ==
  /\ dpc[a] = "join" /\ Joins(a) /\ At(a, "handback")
  /\ UNCHANGED <<cpc, wpc, ccp, driverVars, boxVars>>

JoinThreads(a) ==                  \* 0.5 s: inside _await_servo_ready it does run out
  /\ dpc[a] = "join" /\ Joins(a)
  /\ At(a, IF a \in Observed THEN "close" ELSE "handback")
  /\ UNCHANGED <<cpc, wpc, ccp, driverVars, boxVars>>

\* (mutant) gives the arm back only when its session streams
HandBackStreaming(a) ==
  /\ dpc[a] = "handback" /\ phase[a] = "STREAMING" /\ At(a, "close")
  /\ released' = [released EXCEPT ![a] = @ /\ ~Open(a)]
  /\ UNCHANGED <<cpc, wpc, ccp, driverVars, client, handback, late>>

\* set_mode(0), set_state(4), motion_enable(False): codes and exceptions are ignored.  A
\* caller of clear_errors() before its motion_enable(True) enables the arm after it.
HandBack(a) ==
  /\ dpc[a] = "handback" /\ At(a, "close")
  /\ \/ /\ Open(a) /\ released' = [released EXCEPT ![a] = FALSE]
        /\ handback' = [handback EXCEPT ![a] = IF ccp[a] = "enable" THEN "crossed" ELSE "clean"]
     \/ /\ MayFail(a) /\ UNCHANGED released
        /\ handback' = [handback EXCEPT ![a] = "refused"]
  /\ UNCHANGED <<cpc, wpc, ccp, driverVars, client, late>>

Close(a) ==                        \* api.disconnect(), _phase = IDLE
  /\ dpc[a] = "close" /\ At(a, "idle") /\ Phase(a, "IDLE")
  /\ client' = [client EXCEPT ![a] = "closed"]
  /\ UNCHANGED <<cpc, wpc, ccp, api, running, setting, err, released, handback, late>>

Disconnecting(a) == StopThreads(a) \/ JoinThreads(a) \/ HandBack(a) \/ Close(a)
=============================================================================
