----------------------------- MODULE StateMonitor -----------------------------
(***************************************************************************)
(* The read-only monitor of one control box: class ArmStateMonitor         *)
(* (monitor.py), its poll threads, the thread that starts and stops it, the*)
(* callers of maintenance() and the box as the monitor sees it.            *)
(*                                                                         *)
(* A poll thread belongs to a generation; it publishes its client, a status*)
(* or a sample only while its generation is the current one.  start() waits*)
(* for the thread before, stop() and disconnect() wait for the thread that *)
(* is running: all of these waits are bounded, so a thread may outlive the *)
(* call that ended it.  late records that one of the LONG waits (15 s, 45 s*)
(* for a homing) has run out.                                              *)
(*                                                                         *)
(* Methods are split at their SDK calls and lock blocks: pc is where a poll*)
(* thread is, lpc where start() or a shutdown is.  Sleeps and the wake-up  *)
(* event only delay a thread and are left out, and so are the texts, the   *)
(* poses and registers that are only displayed, and the judgement of the   *)
(* read-back after a maintenance operation.                                *)
(***************************************************************************)
EXTENDS Naturals, Sequences, FiniteSets

CONSTANTS Requests,      \* calls of maintenance()
          Homing,        \* those whose operation is home_rail
          MaxGen,        \* bound: calls of start() that spawn a thread
          MaxClients,    \* bound: SDK clients that connect
          Ends,          \* "off" for stop(), "paused" for disconnect()
          Slow           \* an SDK call may outlast the long waits
NoRequest == "no request"

ASSUME MonitorAssumption == /\ Homing \subseteq Requests /\ NoRequest \notin Requests
                            /\ MaxGen \in Nat /\ MaxClients \in Nat /\ Slow \in BOOLEAN
                            /\ Ends \subseteq {"off", "paused"}

Gens == 1 .. MaxGen
NoClient == 0
NoThread == 0

VARIABLES running, gen, status, thread,   \* _running, _gen, _status, _thread
          api,           \* _api: the published client
          sample,        \* _sample: the posture it shows
          queue, active, \* _requests; the request of _maintenance_active, _active_op
          pc,            \* where each poll thread is
          held,          \* its local api
          job,           \* the request it executes
          got,           \* the posture its last poll read
          newer,         \* a sample was published since it took the request
          open, made,    \* the box: clients connected to it; clients made so far
          arm,           \* the arm: where the sweep was checked, or moved since
          lpc, want,     \* where start() or the shutdown is; the status it will leave
          released,      \* what the last shutdown returned
          lheld,         \* the client the shutdown releases
          late,          \* a long wait has run out
          told,          \* what each caller has got; "timeout" is abandoned
          outcome,       \* req.outcome
          writes         \* len(sdk_codes): 0 none, 1 the first, 2 all of them

objVars  == <<running, gen, status, thread>>
thrVars  == <<pc, held, job, got, newer>>
boxVars  == <<open, made, arm>>
lifeVars == <<lpc, want, released, lheld, late>>
reqVars  == <<told, outcome, writes>>
vars == <<objVars, api, sample, queue, active, thrVars, boxVars, lifeVars, reqVars>>

PcSet == {"new", "top", "fetch", "dial", "dialing", "dialled", "next", "poll", "publish",
          "check", "write", "follow", "judge", "finally", "raised", "drop",
          "hangup", "dead"}
LpcSet == {"idle", "startJoin", "spawn", "failing", "join", "inflight", "joinOp",
           "forget", "hang", "final"}
StatusSet == {"off", "connecting", "running", "error", "paused"}
Postures == {"none", "checked", "moved"}

Alive(t) == t # NoThread /\ pc[t] \notin {"new", "dead"}
Current(g) == running /\ gen = g
Publishes(g, s) == status' = IF Current(g) THEN s ELSE status     \* _set
Goto(g, l) == pc' = [pc EXCEPT ![g] = l]
InSdk(t) == pc[t] \in {"dialing", "poll", "write", "follow", "hangup"}

Init ==
  /\ running = FALSE /\ gen = 0 /\ status = "off" /\ thread = NoThread
  /\ api = NoClient /\ sample = "none" /\ queue = <<>> /\ active = NoRequest
  /\ pc = [g \in Gens |-> "new"] /\ held = [g \in Gens |-> NoClient]
  /\ job = [g \in Gens |-> NoRequest] /\ got = [g \in Gens |-> "none"]
  /\ newer = [g \in Gens |-> FALSE]
  /\ open = {} /\ made = 0 /\ arm = "checked"
  /\ lpc = "idle" /\ want = "off" /\ released = TRUE /\ lheld = NoClient /\ late = FALSE
  /\ told = [r \in Requests |-> "idle"] /\ outcome = [r \in Requests |-> "none"]
  /\ writes = [r \in Requests |-> 0]

(***************************************************************************)
(* The poll thread of generation g: _run and _connect_once.                *)
(***************************************************************************)
Loop(g) ==
  /\ pc[g] = "top" /\ Goto(g, IF Current(g) THEN "fetch" ELSE "dead")
  /\ held' = [held EXCEPT ![g] = NoClient]
  /\ UNCHANGED <<objVars, api, sample, queue, active, job, got, newer, boxVars, lifeVars, reqVars>>

Fetch(g) ==                        \* self._api, without the lock
  /\ pc[g] = "fetch" /\ held' = [held EXCEPT ![g] = api]
  /\ Goto(g, IF api = NoClient THEN "dial" ELSE "next")
  /\ UNCHANGED <<objVars, api, sample, queue, active, job, got, newer, boxVars, lifeVars, reqVars>>

Dial(g) ==
  /\ pc[g] = "dial" /\ Goto(g, "dialing") /\ Publishes(g, "connecting")
  /\ UNCHANGED <<running, gen, thread, api, sample, queue, active, held, job, got, newer,
                 boxVars, lifeVars, reqVars>>

DialOk(g) ==                       \* connect() has opened the box
  /\ pc[g] = "dialing" /\ made < MaxClients
  /\ made' = made + 1 /\ open' = open \cup {made + 1}
  /\ held' = [held EXCEPT ![g] = made + 1] /\ Goto(g, "dialled")
  /\ UNCHANGED <<objVars, api, sample, queue, active, job, got, newer, arm, lifeVars, reqVars>>

DialFails(g) ==
  /\ pc[g] = "dialing" /\ Goto(g, "top") /\ Publishes(g, "error")
  /\ UNCHANGED <<running, gen, thread, api, sample, queue, active, held, job, got, newer,
                 boxVars, lifeVars, reqVars>>

\* (mutant) adopts the client without asking whether the generation is current
AdoptAlways(g) ==
  /\ pc[g] = "dialled" /\ Goto(g, "next") /\ api' = held[g] /\ status' = "running"
  /\ UNCHANGED <<running, gen, thread, sample, queue, active, held, job, got, newer,
                 boxVars, lifeVars, reqVars>>

\* under the lock: the client of a generation that is no longer current is hung up
Adopt(g) ==
  /\ pc[g] = "dialled" /\ Publishes(g, "running")
  /\ IF Current(g) THEN api' = held[g] /\ Goto(g, "next")
                   ELSE UNCHANGED api /\ Goto(g, "hangup")
  /\ UNCHANGED <<running, gen, thread, sample, queue, active, held, job, got, newer,
                 boxVars, lifeVars, reqVars>>

HangUp(g) ==                       \* _quiet_disconnect
  /\ pc[g] = "hangup" /\ Goto(g, "top")
  /\ open' = open \ {held[g]} /\ held' = [held EXCEPT ![g] = NoClient]
  /\ UNCHANGED <<objVars, api, sample, queue, active, job, got, newer, made, arm, lifeVars, reqVars>>

\* _next_request, one turn of its loop
TakeRequest(g) ==
  /\ pc[g] = "next" /\ queue # <<>> /\ queue' = Tail(queue)
  /\ LET r == Head(queue) IN
     \/ /\ told[r] = "timeout"
        /\ UNCHANGED <<active, pc, job, got, newer, outcome>>
     \/ /\ told[r] # "timeout" /\ ~Current(g)
        /\ outcome' = [outcome EXCEPT ![r] = "refused"]
        /\ UNCHANGED <<active, pc, job, got, newer>>
     \/ /\ told[r] # "timeout" /\ Current(g)
        /\ active' = r /\ job' = [job EXCEPT ![g] = r]
        /\ got' = [got EXCEPT ![g] = "none"] /\ newer' = [newer EXCEPT ![g] = FALSE]
        /\ Goto(g, "poll") /\ UNCHANGED outcome
  /\ UNCHANGED <<objVars, api, sample, held, boxVars, lifeVars, told, writes>>

NothingToDo(g) ==
  /\ pc[g] = "next" /\ queue = <<>> /\ Goto(g, "poll")
  /\ UNCHANGED <<objVars, api, sample, queue, active, held, job, got, newer, boxVars, lifeVars, reqVars>>

\* _poll is called by _run, and by _service before and after the operation
AfterPoll(g) == Goto(g, IF job[g] = NoRequest THEN "top"
                        ELSE IF writes[job[g]] = 0 THEN "check" ELSE "judge")

PollReads(g) ==                    \* get_servo_angle and the other reads
  /\ pc[g] = "poll" /\ held[g] \in open
  /\ got' = [got EXCEPT ![g] = arm] /\ Goto(g, "publish")
  /\ UNCHANGED <<objVars, api, sample, queue, active, held, job, newer, boxVars, lifeVars, reqVars>>

PollFails(g) ==                    \* get_servo_angle returns a code: no sample
  /\ pc[g] = "poll" /\ held[g] \in open
  /\ got' = [got EXCEPT ![g] = "none"] /\ Publishes(g, "running") /\ AfterPoll(g)
  /\ UNCHANGED <<running, gen, thread, api, sample, queue, active, held, job, newer,
                 boxVars, lifeVars, reqVars>>

Publish(g) ==
  /\ pc[g] = "publish" /\ AfterPoll(g) /\ Publishes(g, "running")
  /\ got' = (IF job[g] = NoRequest THEN [got EXCEPT ![g] = "none"] ELSE got)
  /\ IF Current(g) THEN /\ sample' = got[g]
                        /\ newer' = [h \in Gens |-> job[h] # NoRequest]
                   ELSE UNCHANGED <<sample, newer>>
  /\ UNCHANGED <<running, gen, thread, api, queue, active, held, job, boxVars, lifeVars, reqVars>>

(***************************************************************************)
(* _service: a request between its two samples.                            *)
(***************************************************************************)
\* (mutant) judges whatever sample there is
PostureHeldStale(g) == sample = "checked"

\* _home_rail_refusal, as far as the posture goes: a sample newer than the
\* request that shows the arm where the sweep was checked
PostureHeld(g) == newer[g] /\ sample = "checked"

CheckRefuses(g) ==                 \* stopped, moved, or another reason not to home
  /\ pc[g] = "check" /\ (~Current(g) \/ job[g] \in Homing)
  /\ outcome' = [outcome EXCEPT ![job[g]] = "refused"] /\ Goto(g, "finally")
  /\ UNCHANGED <<objVars, api, sample, queue, active, held, job, got, newer,
                 boxVars, lifeVars, told, writes>>

CheckPasses(g) ==
  /\ pc[g] = "check" /\ Current(g)
  /\ job[g] \in Homing => PostureHeld(g)
  /\ Goto(g, "write")
  /\ UNCHANGED <<objVars, api, sample, queue, active, held, job, got, newer,
                 boxVars, lifeVars, reqVars>>

\* clean_error, set_collision_sensitivity, set_linear_track_back_origin ...
FirstWrite(g) ==
  /\ pc[g] = "write" /\ Goto(g, "follow")
  /\ writes' = [writes EXCEPT ![job[g]] = 1]
  /\ UNCHANGED <<objVars, api, sample, queue, active, held, job, got, newer,
                 boxVars, lifeVars, told, outcome>>

LastWrites(g) ==                   \* a hand-over skips the read-back
  /\ pc[g] = "follow" /\ Goto(g, IF Current(g) THEN "poll" ELSE "judge")
  /\ writes' = [writes EXCEPT ![job[g]] = 2]
  /\ UNCHANGED <<objVars, api, sample, queue, active, held, job, got, newer,
                 boxVars, lifeVars, told, outcome>>

Judge(g) ==
  /\ pc[g] = "judge" /\ Goto(g, "finally")
  /\ outcome' = [outcome EXCEPT ![job[g]] = "done"]
  /\ UNCHANGED <<objVars, api, sample, queue, active, held, job, got, newer,
                 boxVars, lifeVars, told, writes>>

\* the client was disconnected or lost: the SDK raises
Raises(g) ==
  /\ pc[g] \in {"poll", "write", "follow"} /\ held[g] \notin open
  /\ IF job[g] = NoRequest
       THEN Goto(g, "drop") /\ UNCHANGED outcome
       ELSE Goto(g, "raised") /\ outcome' = [outcome EXCEPT ![job[g]] = "failed"]
  /\ UNCHANGED <<objVars, api, sample, queue, active, held, job, got, newer,
                 boxVars, lifeVars, told, writes>>

Finally(g) ==                      \* after complete(): busy covers the whole operation
  /\ pc[g] \in {"finally", "raised"}
  /\ Goto(g, IF pc[g] = "raised" THEN "drop" ELSE "top")
  /\ active' = NoRequest /\ job' = [job EXCEPT ![g] = NoRequest]
  /\ got' = [got EXCEPT ![g] = "none"] /\ newer' = [newer EXCEPT ![g] = FALSE]
  /\ UNCHANGED <<objVars, api, sample, queue, held, boxVars, lifeVars, reqVars>>

\* (mutant) the requests are dropped without an answer
FailPendingSilently == queue' = <<>> /\ UNCHANGED outcome

\* (mutant) the requests are answered but stay queued
FailPendingKeeps ==
  /\ outcome' = [r \in Requests |->
                   IF (\E i \in 1 .. Len(queue) : queue[i] = r) /\ told[r] # "timeout"
                     THEN "refused" ELSE outcome[r]]
  /\ UNCHANGED queue

FailPending ==
  /\ outcome' = [r \in Requests |->
                   IF (\E i \in 1 .. Len(queue) : queue[i] = r) /\ told[r] # "timeout"
                     THEN "refused" ELSE outcome[r]]
  /\ queue' = <<>>

\* (mutant) keeps the client that is published
DropKeeps(g) ==
  /\ pc[g] = "drop" /\ Publishes(g, "error")
  /\ Goto(g, "top") /\ UNCHANGED <<api, queue, outcome>>
  /\ UNCHANGED <<running, gen, thread, sample, active, held, job, got, newer,
                 boxVars, lifeVars, told, writes>>

\* _release_api(api): only the client that is still published
Drop(g) ==
  /\ pc[g] = "drop" /\ Publishes(g, "error")
  /\ IF api = held[g] THEN api' = NoClient /\ FailPending /\ Goto(g, "hangup")
                      ELSE Goto(g, "top") /\ UNCHANGED <<api, queue, outcome>>
  /\ UNCHANGED <<running, gen, thread, sample, active, held, job, got, newer,
                 boxVars, lifeVars, told, writes>>

PollThread(g) ==
  \/ Loop(g) \/ Fetch(g) \/ Dial(g) \/ DialOk(g) \/ DialFails(g) \/ Adopt(g) \/ HangUp(g)
  \/ TakeRequest(g) \/ NothingToDo(g) \/ PollReads(g) \/ PollFails(g) \/ Publish(g)
  \/ CheckRefuses(g) \/ CheckPasses(g) \/ FirstWrite(g) \/ LastWrites(g) \/ Judge(g)
  \/ Raises(g) \/ Finally(g) \/ Drop(g)

(***************************************************************************)
(* start(), and stop() and disconnect(): one call at a time.               *)
(***************************************************************************)
\* (mutant) does not wait for the thread before
StartAtOnce ==
  /\ lpc = "idle" /\ gen < MaxGen /\ ~(Alive(thread) /\ running)
  /\ lpc' = "spawn"
  /\ UNCHANGED <<objVars, api, sample, queue, active, thrVars, boxVars, want, released,
                 lheld, late, reqVars>>

Start ==
  /\ lpc = "idle" /\ gen < MaxGen /\ ~(Alive(thread) /\ running)
  /\ lpc' = (IF Alive(thread) THEN "startJoin" ELSE "spawn")
  /\ UNCHANGED <<objVars, api, sample, queue, active, thrVars, boxVars, want, released,
                 lheld, late, reqVars>>

StartJoins ==                      \* stale.join(STALE_THREAD_JOIN_S)
  /\ lpc = "startJoin" /\ lpc' = "spawn"
  /\ \/ ~Alive(thread) /\ UNCHANGED late
     \/ Alive(thread) /\ InSdk(thread) /\ Slow /\ late' = TRUE
  /\ UNCHANGED <<objVars, api, sample, queue, active, thrVars, boxVars, want, released,
                 lheld, reqVars>>

Spawn ==
  /\ lpc = "spawn" /\ lpc' = "idle"
  /\ gen' = gen + 1 /\ thread' = gen + 1 /\ running' = TRUE /\ status' = "connecting"
  /\ Goto(gen + 1, "top")
  /\ UNCHANGED <<api, sample, queue, active, held, job, got, newer, boxVars, want, released,
                 lheld, late, reqVars>>

Shutdown(s) ==                     \* _shutdown of stop() or disconnect()
  /\ lpc = "idle" /\ lpc' = "failing"
  /\ running' = FALSE /\ want' = s
  /\ UNCHANGED <<gen, status, thread, api, sample, queue, active, thrVars, boxVars, released,
                 lheld, late, reqVars>>

ShutdownFails ==                   \* _fail_pending
  /\ lpc = "failing" /\ FailPending /\ lpc' = "join"
  /\ UNCHANGED <<objVars, api, sample, active, thrVars, boxVars, want, released,
                 lheld, late, told, writes>>

\* (mutant) does not ask for the operation that is executing
JoinReleases ==
  /\ lpc = "join"
  /\ \/ ~Alive(thread) /\ released' = TRUE
     \/ Alive(thread) /\ InSdk(thread) /\ released' = FALSE
  /\ lpc' = "forget"
  /\ UNCHANGED <<objVars, api, sample, queue, active, thrVars, boxVars, want,
                 lheld, late, reqVars>>

Join ==                            \* thread.join(timeout): ended, or inside an SDK call
  /\ lpc = "join"
  /\ \/ ~Alive(thread) /\ released' = TRUE /\ lpc' = "forget"
     \/ Alive(thread) /\ InSdk(thread) /\ lpc' = "inflight" /\ UNCHANGED released
  /\ UNCHANGED <<objVars, api, sample, queue, active, thrVars, boxVars, want,
                 lheld, late, reqVars>>

InFlight ==                        \* _maintenance_in_flight
  /\ lpc = "inflight"
  /\ IF Alive(thread) /\ active # NoRequest
       THEN lpc' = "joinOp" /\ UNCHANGED released
       ELSE lpc' = "forget" /\ released' = ~Alive(thread)
  /\ UNCHANGED <<objVars, api, sample, queue, active, thrVars, boxVars, want,
                 lheld, late, reqVars>>

JoinOp ==                          \* STALE_THREAD_JOIN_S, or HOME_RAIL_TIMEOUT_S
  /\ lpc = "joinOp" /\ lpc' = "forget"
  /\ \/ ~Alive(thread) /\ released' = TRUE /\ UNCHANGED late
     \/ Alive(thread) /\ InSdk(thread) /\ Slow /\ released' = FALSE /\ late' = TRUE
  /\ UNCHANGED <<objVars, api, sample, queue, active, thrVars, boxVars, want, lheld, reqVars>>

Forget ==                          \* _release_api(): whatever is published
  /\ lpc = "forget" /\ lpc' = "hang"
  /\ lheld' = api /\ api' = NoClient /\ FailPending
  /\ UNCHANGED <<objVars, sample, active, thrVars, boxVars, want, released, late, told, writes>>

ShutdownHangsUp ==
  /\ lpc = "hang" /\ lpc' = "final"
  /\ open' = open \ {lheld} /\ lheld' = NoClient
  /\ UNCHANGED <<objVars, api, sample, queue, active, thrVars, made, arm, want, released,
                 late, reqVars>>

ShutdownEnds ==
  /\ lpc = "final" /\ lpc' = "idle" /\ status' = want
  /\ thread' = (IF Alive(thread) THEN thread ELSE NoThread)
  /\ UNCHANGED <<running, gen, api, sample, queue, active, thrVars, boxVars, want, released,
                 lheld, late, reqVars>>

Finish == \/ StartJoins \/ Spawn \/ ShutdownFails \/ Join \/ InFlight \/ JoinOp
          \/ Forget \/ ShutdownHangsUp \/ ShutdownEnds
Lifecycle == Start \/ (\E s \in Ends : Shutdown(s)) \/ Finish

(***************************************************************************)
(* The callers of maintenance(), the box and the arm.                      *)
(***************************************************************************)
Ask(r) ==                          \* queued where a client is published; or refused
  /\ told[r] = "idle"
  /\ \/ /\ running /\ api # NoClient
        /\ told' = [told EXCEPT ![r] = "waiting"] /\ queue' = Append(queue, r)
     \/ told' = [told EXCEPT ![r] = "refused"] /\ UNCHANGED queue
  /\ UNCHANGED <<objVars, api, sample, active, thrVars, boxVars, lifeVars, outcome, writes>>

Answered(r) ==
  /\ told[r] = "waiting" /\ outcome[r] # "none"
  /\ told' = [told EXCEPT ![r] = outcome[r]]
  /\ UNCHANGED <<objVars, api, sample, queue, active, thrVars, boxVars, lifeVars, outcome, writes>>

TimesOut(r) ==                     \* the request is abandoned
  /\ told[r] = "waiting" /\ outcome[r] = "none"
  /\ told' = [told EXCEPT ![r] = "timeout"]
  /\ UNCHANGED <<objVars, api, sample, queue, active, thrVars, boxVars, lifeVars, outcome, writes>>

BoxLost ==                         \* bounded by MaxClients
  /\ made < MaxClients /\ \E c \in open : open' = open \ {c}
  /\ UNCHANGED <<objVars, api, sample, queue, active, thrVars, made, arm, lifeVars, reqVars>>

ArmMoves ==
  /\ arm = "checked" /\ arm' = "moved"
  /\ UNCHANGED <<objVars, api, sample, queue, active, thrVars, open, made, lifeVars, reqVars>>

Next == \/ \E g \in Gens : PollThread(g)
        \/ Lifecycle
        \/ \E r \in Requests : Ask(r) \/ Answered(r) \/ TimesOut(r)
        \/ BoxLost \/ ArmMoves

\* SDK calls return, a box that is there is reached, start() and shutdowns go on;
\* nobody has to start or stop, ask, or give up waiting
Fairness == /\ \A g \in Gens : WF_vars(PollThread(g)) /\ SF_vars(DialOk(g))
            /\ WF_vars(Finish)
            /\ \A r \in Requests : WF_vars(Answered(r))

Spec == Init /\ [][Next]_vars
FairSpec == Spec /\ Fairness
(***************************************************************************)
(* Properties                                                              *)
(***************************************************************************)
\* Every variable keeps its range; the status is one the telemetry knows.
TypeOK ==
  /\ running \in BOOLEAN /\ gen \in 0 .. MaxGen /\ status \in StatusSet /\ thread \in 0 .. MaxGen
  /\ api \in 0 .. MaxClients /\ sample \in Postures
  /\ queue \in Seq(Requests) /\ active \in Requests \cup {NoRequest}
  /\ pc \in [Gens -> PcSet] /\ held \in [Gens -> 0 .. MaxClients]
  /\ job \in [Gens -> Requests \cup {NoRequest}] /\ got \in [Gens -> Postures]
  /\ newer \in [Gens -> BOOLEAN]
  /\ open \subseteq 1 .. MaxClients /\ made \in 0 .. MaxClients /\ arm \in {"checked", "moved"}
  /\ lpc \in LpcSet /\ want \in {"off", "paused"} /\ released \in BOOLEAN
  /\ lheld \in 0 .. MaxClients /\ late \in BOOLEAN
  /\ told \in [Requests -> {"idle", "waiting", "refused", "failed", "done", "timeout"}]
  /\ outcome \in [Requests -> {"none", "refused", "failed", "done"}]
  /\ writes \in [Requests -> 0 .. 2]

\* No call is being made and the monitor was stopped or handed over.
AtRest == lpc = "idle" /\ ~running

\* Two clients never hold the same control box, through losses, restarts and
\* hand-overs, unless a long wait ran out (the docstring of ArmStateMonitor).
OneClient == late \/ \A c, d \in open : c = d

\* After stop() or disconnect() no maintenance operation writes to the box, and
\* where they returned True the box is free for the session driver.
HandedOver ==
  AtRest /\ ~late => /\ \A g \in Gens : pc[g] \notin {"write", "follow"}
                     /\ released => open = {} /\ \A g \in Gens : ~Alive(g)

\* At rest the monitor shows off or paused, publishes no client and holds no
\* request, even while threads that outlived the shutdown come to their end.
RestsSilently == AtRest => status \in {"off", "paused"} /\ api = NoClient /\ queue = <<>>

\* The carriage is homed only by a thread that itself read the arm, after it
\* took the request, where the sweep was checked; an old sample never counts.
HomingOnFreshPosture ==
  [][\A g \in Gens : pc[g] = "check" /\ pc'[g] = "write" /\ job[g] \in Homing
                     => got[g] = "checked"]_vars

\* The callers get what MaintenanceChannel promises.
Channel == INSTANCE MaintenanceChannel
ChannelPromise == Channel!Spec

\* A request ends without help of its caller's timeout, whoever stops or
\* restarts the monitor and whenever the box is lost.
RequestsEnd == \A r \in Requests : told[r] = "waiting" ~> told[r] # "waiting"

\* A monitor that is left running gets a living client published again.
Reconnects == <>[]running => []<>(api \in open \/ made = MaxClients)
=============================================================================
