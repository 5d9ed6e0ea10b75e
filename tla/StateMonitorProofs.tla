-------------------------- MODULE StateMonitorProofs --------------------------
(***************************************************************************)
(* Proofs about StateMonitor, for every set of requests, any number of     *)
(* generations and clients, and SDK calls that may outlast every wait.     *)
(*                                                                         *)
(* The invariant IInv has six parts.  Threads says which poll threads there*)
(* are and what each holds at which step.  Rest follows a shutdown to its  *)
(* end.  LoneClient is the core of the hand-over: unless a long wait ran   *)
(* out there is one living thread, and a client at the box is published, or*)
(* held by the shutdown, or held by that thread on its way in or out; a    *)
(* thread is past the point where it could dial again before the shutdown  *)
(* looks at the published client.  Fresh ties the sample to the thread that*)
(* took it, Served a request to its place: queued, executing or answered.  *)
(* The steps need TypeOK and Threads; they prove one part each.            *)
(***************************************************************************)
EXTENDS StateMonitor, TLAPS

\* A thread is executing a request; has no request; has no client.
OpPcs == {"check", "write", "follow", "judge", "finally", "raised"}
FreePcs == {"new", "top", "fetch", "dial", "dialing", "dialled", "next", "drop", "hangup", "dead"}
NoHandle == {"new", "top", "fetch", "dial", "dialing", "dead"}
Lives(g) == pc[g] \notin {"new", "dead"}

\* The thread of a running monitor is that of the newest generation, and it lives.
Threads ==
  /\ lpc \in {"startJoin", "spawn"} => gen < MaxGen
  /\ lpc # "idle" => ~running
  /\ running => thread = gen /\ gen # 0 /\ Lives(gen)
  /\ thread \in {NoThread, gen}
  /\ \A g \in Gens : /\ pc[g] = "new" <=> g > gen
                     /\ pc[g] \notin NoHandle => held[g] # NoClient
                     /\ pc[g] \in FreePcs => job[g] = NoRequest
                     /\ pc[g] \in OpPcs => job[g] # NoRequest

\* A shutdown has waited for the thread once; has given up waiting; has released.
Waited  == ~running /\ lpc \notin {"failing", "join"}
Given   == Waited /\ lpc \notin {"inflight", "joinOp"}
Cleared == Given /\ lpc # "forget"

\* What a shutdown has done by then.
Rest ==
  /\ lheld # NoClient => lpc = "hang"
  /\ Cleared => api = NoClient /\ queue = <<>>
  /\ Cleared /\ lpc \notin {"hang", "final"} => status \in {"off", "paused"}

\* No other thread lives, and it can no longer dial once the shutdown has waited.
Alone ==
  /\ \A g \in Gens : /\ Lives(g) => g = thread
                     /\ lpc = "spawn" => ~Lives(g)
                     /\ Waited => pc[g] \notin {"fetch", "dial", "next"}
                     /\ job[g] # NoRequest => active = job[g]
                     /\ Given => job[g] = NoRequest
                     /\ Given /\ released => ~Lives(g)

\* Every client at the box is published or in one hand.
Clients ==
  /\ \A g \in Gens : pc[g] \in {"dial", "dialing", "dialled", "hangup"} => api = NoClient /\ lheld = NoClient
  /\ api = NoClient \/ lheld = NoClient
  /\ \A c \in open : \/ c \in {api, lheld}
                     \/ \E g \in Gens : pc[g] \in {"dialled", "hangup"} /\ c = held[g]

LoneClient == late \/ (Alone /\ Clients)

\* A sample that is newer than the request was taken by the thread that executes it.
Fresh == \A g \in Gens : newer[g] =>
   /\ job[g] # NoRequest
   /\ gen = g /\ pc[g] = "check" => sample = got[g]
   /\ gen = g /\ pc[g] \in {"poll", "publish"} => writes[job[g]] # 0

\* A request is idle, queued once, executed by one thread, or answered; writes follow.
InOp == {"poll", "publish", "check", "write", "follow", "judge"}
Open(r) == outcome[r] = "none" /\ told[r] \in {"waiting", "timeout"}
Served ==
  /\ \A r \in Requests : told[r] = "idle" =>
        /\ outcome[r] = "none" /\ writes[r] = 0
        /\ \A g \in Gens : job[g] # r
        /\ \A i \in DOMAIN queue : queue[i] # r
  /\ \A i \in DOMAIN queue : /\ Open(queue[i]) /\ writes[queue[i]] = 0
                             /\ \A j \in DOMAIN queue : queue[i] = queue[j] => i = j
                             /\ \A g \in Gens : job[g] # queue[i]
  /\ \A g, h \in Gens : job[g] # NoRequest /\ job[g] = job[h] => g = h
  /\ \A g \in Gens : job[g] # NoRequest =>
       /\ pc[g] \in InOp => Open(job[g])
       /\ pc[g] \in {"check", "write"} => writes[job[g]] = 0
       /\ pc[g] = "follow" => writes[job[g]] = 1
       /\ pc[g] = "judge" => writes[job[g]] = 2
       /\ pc[g] \in {"poll", "publish"} => writes[job[g]] \in {0, 2}
  /\ \A r \in Requests : /\ outcome[r] = "refused" => writes[r] = 0
                         /\ outcome[r] = "done" => writes[r] = 2

\* What Append does to a sequence: the end of the queue is the new request.
LEMMA Appended ==
  ASSUME NEW S, NEW s \in Seq(S), NEW x \in S
  PROVE  /\ DOMAIN s = 1 .. Len(s) /\ Len(s) \in Nat
         /\ DOMAIN Append(s, x) = 1 .. Len(s) + 1
         /\ \A i \in DOMAIN s : Append(s, x)[i] = s[i] /\ s[i] \in S
         /\ Append(s, x)[Len(s) + 1] = x
  OBVIOUS

\* The initial state has the types.
LEMMA TypeInit == Init => TypeOK
<1> SUFFICES ASSUME Init PROVE TypeOK
  OBVIOUS
<1> USE MonitorAssumption DEF Gens, NoClient, NoThread, PcSet, LpcSet, StatusSet, Postures
<1>1. running \in BOOLEAN
  BY DEF Init
<1>2. gen \in 0 .. MaxGen
  BY DEF Init
<1>3. status \in StatusSet
  BY DEF Init
<1>4. thread \in 0 .. MaxGen
  BY DEF Init
<1>5. api \in 0 .. MaxClients
  BY DEF Init
<1>6. sample \in Postures
  BY DEF Init
<1>7. queue \in Seq(Requests)
  BY DEF Init
<1>8. active \in Requests \cup {NoRequest}
  BY DEF Init
<1>9. pc \in [Gens -> PcSet]
  BY DEF Init
<1>10. held \in [Gens -> 0 .. MaxClients]
  BY DEF Init
<1>11. job \in [Gens -> Requests \cup {NoRequest}]
  BY DEF Init
<1>12. got \in [Gens -> Postures]
  BY DEF Init
<1>13. newer \in [Gens -> BOOLEAN]
  BY DEF Init
<1>14. open \in SUBSET (1 .. MaxClients)
  BY DEF Init
<1>15. made \in 0 .. MaxClients
  BY DEF Init
<1>16. arm \in {"checked", "moved"}
  BY DEF Init
<1>17. lpc \in LpcSet
  BY DEF Init
<1>18. want \in {"off", "paused"}
  BY DEF Init
<1>19. released \in BOOLEAN
  BY DEF Init
<1>20. lheld \in 0 .. MaxClients
  BY DEF Init
<1>21. late \in BOOLEAN
  BY DEF Init
<1>22. told \in [Requests -> {"idle", "waiting", "refused", "failed", "done", "timeout"}]
  BY DEF Init
<1>23. outcome \in [Requests -> {"none", "refused", "failed", "done"}]
  BY DEF Init
<1>24. writes \in [Requests -> 0 .. 2]
  BY DEF Init
<1>25. QED
  BY <1>1, <1>2, <1>3, <1>4, <1>5, <1>6, <1>7, <1>8, <1>9, <1>10, <1>11, <1>12, <1>13, <1>14,
     <1>15, <1>16, <1>17, <1>18, <1>19, <1>20, <1>21, <1>22, <1>23, <1>24 DEF Init, TypeOK

\* The variables keep their ranges; a thread is only spawned below the bound.
LEMMA TypeStep == TypeOK /\ Threads /\ [Next]_vars => TypeOK'
<1> SUFFICES ASSUME TypeOK, Threads, [Next]_vars PROVE TypeOK'
  OBVIOUS
<1> USE MonitorAssumption DEF Gens, NoClient, NoThread, PcSet, LpcSet, StatusSet, Postures, Goto,
       objVars, thrVars, boxVars, lifeVars, reqVars
<1>0. lpc \in {"startJoin", "spawn"} => gen < MaxGen
  BY DEF Threads
<1> USE DEF TypeOK
<1>1. ASSUME NEW g \in Gens, Loop(g) PROVE TypeOK'
  <3>1. pc' \in [Gens -> PcSet]
    BY <1>1 DEF Loop, Current
  <3>2. held' \in [Gens -> 0 .. MaxClients]
    BY <1>1 DEF Loop, Current
  <3>3. QED
    BY <1>1, <3>1, <3>2 DEF Loop
<1>2. ASSUME NEW g \in Gens, Fetch(g) PROVE TypeOK'
  BY <1>2 DEF Fetch
<1>3. ASSUME NEW g \in Gens, Dial(g) PROVE TypeOK'
  BY <1>3 DEF Dial, Publishes
<1>4. ASSUME NEW g \in Gens, DialOk(g) PROVE TypeOK'
  <3>1. made' \in 0 .. MaxClients
    BY <1>4 DEF DialOk
  <3>2. open' \in SUBSET (1 .. MaxClients)
    BY <1>4 DEF DialOk
  <3>3. held' \in [Gens -> 0 .. MaxClients]
    BY <1>4 DEF DialOk
  <3>4. pc' \in [Gens -> PcSet]
    BY <1>4 DEF DialOk
  <3>5. QED
    BY <1>4, <3>1, <3>2, <3>3, <3>4 DEF DialOk
<1>5. ASSUME NEW g \in Gens, DialFails(g) PROVE TypeOK'
  BY <1>5 DEF DialFails, Publishes
<1>6. ASSUME NEW g \in Gens, Adopt(g) PROVE TypeOK'
  <3>1. status' \in StatusSet
    BY <1>6 DEF Adopt, Publishes, Current
  <3>2. pc' \in [Gens -> PcSet]
    <4>1. pc' = [pc EXCEPT ![g] = "next"] \/ pc' = [pc EXCEPT ![g] = "hangup"]
      BY <1>6 DEF Adopt
    <4>2. QED
      BY <4>1
  <3>3. api' \in 0 .. MaxClients
    <4>1. held[g] \in 0 .. MaxClients /\ api \in 0 .. MaxClients
      OBVIOUS
    <4>2. api' = held[g] \/ api' = api
      BY <1>6 DEF Adopt
    <4>3. QED
      BY ONLY <4>1, <4>2
  <3>4. QED
    BY <1>6, <3>1, <3>2, <3>3 DEF Adopt
<1>7. ASSUME NEW g \in Gens, HangUp(g) PROVE TypeOK'
  <3>1. pc' \in [Gens -> PcSet]
    BY <1>7 DEF HangUp
  <3>2. open' \in SUBSET (1 .. MaxClients)
    BY <1>7 DEF HangUp
  <3>3. held' \in [Gens -> 0 .. MaxClients]
    BY <1>7 DEF HangUp
  <3>4. QED
    BY <1>7, <3>1, <3>2, <3>3 DEF HangUp
<1>8. ASSUME NEW g \in Gens, TakeRequest(g) PROVE TypeOK'
  <3>1. queue' \in Seq(Requests)
    BY <1>8 DEF TakeRequest, Current
  <3>2. active' \in Requests \cup {NoRequest}
    BY <1>8 DEF TakeRequest, Current
  <3>3. pc' \in [Gens -> PcSet]
    BY <1>8 DEF TakeRequest, Current
  <3>4. job' \in [Gens -> Requests \cup {NoRequest}]
    BY <1>8 DEF TakeRequest, Current
  <3>5. got' \in [Gens -> Postures]
    BY <1>8 DEF TakeRequest, Current
  <3>6. newer' \in [Gens -> BOOLEAN]
    BY <1>8 DEF TakeRequest, Current
  <3>7. outcome' \in [Requests -> {"none", "refused", "failed", "done"}]
    BY <1>8 DEF TakeRequest, Current
  <3>8. QED
    BY <1>8, <3>1, <3>2, <3>3, <3>4, <3>5, <3>6, <3>7 DEF TakeRequest
<1>9. ASSUME NEW g \in Gens, NothingToDo(g) PROVE TypeOK'
  BY <1>9 DEF NothingToDo
<1>10. ASSUME NEW g \in Gens, PollReads(g) PROVE TypeOK'
  BY <1>10 DEF PollReads
<1>11. ASSUME NEW g \in Gens, PollFails(g) PROVE TypeOK'
  BY <1>11 DEF PollFails, Publishes, AfterPoll
<1>12. ASSUME NEW g \in Gens, Publish(g) PROVE TypeOK'
  <3>1. pc' \in [Gens -> PcSet]
    BY <1>12 DEF Publish, Publishes, AfterPoll, Current
  <3>2. status' \in StatusSet
    BY <1>12 DEF Publish, Publishes, AfterPoll, Current
  <3>3. got' \in [Gens -> Postures]
    BY <1>12 DEF Publish, Publishes, AfterPoll, Current
  <3>4. sample' \in Postures
    BY <1>12 DEF Publish, Publishes, AfterPoll, Current
  <3>5. newer' \in [Gens -> BOOLEAN]
    BY <1>12 DEF Publish, Publishes, AfterPoll, Current
  <3>6. QED
    BY <1>12, <3>1, <3>2, <3>3, <3>4, <3>5 DEF Publish
<1>13. ASSUME NEW g \in Gens, CheckRefuses(g) PROVE TypeOK'
  <3>1. outcome' \in [Requests -> {"none", "refused", "failed", "done"}]
    BY <1>13 DEF CheckRefuses, Current
  <3>2. pc' \in [Gens -> PcSet]
    BY <1>13 DEF CheckRefuses, Current
  <3>3. QED
    BY <1>13, <3>1, <3>2 DEF CheckRefuses
<1>14. ASSUME NEW g \in Gens, CheckPasses(g) PROVE TypeOK'
  BY <1>14 DEF CheckPasses, Current, PostureHeld
<1>15. ASSUME NEW g \in Gens, FirstWrite(g) PROVE TypeOK'
  <3>1. pc' \in [Gens -> PcSet]
    BY <1>15 DEF FirstWrite
  <3>2. writes' \in [Requests -> 0 .. 2]
    <4>1. writes' = [q \in Requests |-> IF q = job[g] THEN 1 ELSE writes[q]]
      BY <1>15 DEF FirstWrite
    <4>2. \A q \in Requests : writes[q] \in 0 .. 2
      OBVIOUS
    <4>3. 1 \in 0 .. 2
      OBVIOUS
    <4>4. QED
      BY ONLY <4>1, <4>2, <4>3
  <3>3. QED
    BY <1>15, <3>1, <3>2 DEF FirstWrite
<1>16. ASSUME NEW g \in Gens, LastWrites(g) PROVE TypeOK'
  <3>1. pc' \in [Gens -> PcSet]
    BY <1>16 DEF LastWrites, Current
  <3>2. writes' \in [Requests -> 0 .. 2]
    <4>1. writes' = [q \in Requests |-> IF q = job[g] THEN 2 ELSE writes[q]]
      BY <1>16 DEF LastWrites
    <4>2. \A q \in Requests : writes[q] \in 0 .. 2
      OBVIOUS
    <4>3. 2 \in 0 .. 2
      OBVIOUS
    <4>4. QED
      BY ONLY <4>1, <4>2, <4>3
  <3>3. QED
    BY <1>16, <3>1, <3>2 DEF LastWrites
<1>17. ASSUME NEW g \in Gens, Judge(g) PROVE TypeOK'
  <3>1. pc' \in [Gens -> PcSet]
    BY <1>17 DEF Judge
  <3>2. outcome' \in [Requests -> {"none", "refused", "failed", "done"}]
    BY <1>17 DEF Judge
  <3>3. QED
    BY <1>17, <3>1, <3>2 DEF Judge
<1>18. ASSUME NEW g \in Gens, Raises(g) PROVE TypeOK'
  <3>1. pc' \in [Gens -> PcSet]
    BY <1>18 DEF Raises
  <3>2. outcome' \in [Requests -> {"none", "refused", "failed", "done"}]
    BY <1>18 DEF Raises
  <3>3. QED
    BY <1>18, <3>1, <3>2 DEF Raises
<1>19. ASSUME NEW g \in Gens, Finally(g) PROVE TypeOK'
  <3>1. pc' \in [Gens -> PcSet]
    BY <1>19 DEF Finally
  <3>2. active' \in Requests \cup {NoRequest}
    BY <1>19 DEF Finally
  <3>3. job' \in [Gens -> Requests \cup {NoRequest}]
    BY <1>19 DEF Finally
  <3>4. got' \in [Gens -> Postures]
    BY <1>19 DEF Finally
  <3>5. newer' \in [Gens -> BOOLEAN]
    BY <1>19 DEF Finally
  <3>6. QED
    BY <1>19, <3>1, <3>2, <3>3, <3>4, <3>5 DEF Finally
<1>20. ASSUME NEW g \in Gens, Drop(g) PROVE TypeOK'
  <3>1. status' \in StatusSet
    BY <1>20 DEF Drop, Publishes, FailPending
  <3>2. pc' \in [Gens -> PcSet]
    BY <1>20 DEF Drop, Publishes, FailPending
  <3>3. api' \in 0 .. MaxClients
    BY <1>20 DEF Drop, Publishes, FailPending
  <3>4. queue' \in Seq(Requests)
    <4>1. queue' = queue \/ queue' = <<>>
      BY <1>20 DEF Drop, FailPending
    <4>2. queue \in Seq(Requests) /\ <<>> \in Seq(Requests)
      OBVIOUS
    <4>3. QED
      BY ONLY <4>1, <4>2
  <3>5. outcome' \in [Requests -> {"none", "refused", "failed", "done"}]
    <4>1. CASE api = held[g]
      <5>1. outcome' = [r \in Requests |->
                     IF (\E i \in 1 .. Len(queue) : queue[i] = r) /\ told[r] # "timeout"
                       THEN "refused" ELSE outcome[r]]
        BY <1>20, <4>1 DEF Drop, FailPending
      <5>2. outcome \in [Requests -> {"none", "refused", "failed", "done"}]
        OBVIOUS
      <5>3. QED
        BY ONLY <5>1, <5>2
    <4>2. CASE api # held[g]
      BY <1>20, <4>2 DEF Drop
    <4>3. QED
      BY <4>1, <4>2
  <3>6. QED
    BY <1>20, <3>1, <3>2, <3>3, <3>4, <3>5 DEF Drop
<1>21. CASE Start
  BY <1>21 DEF Start, Alive
<1>22. CASE StartJoins
  <3>1. lpc' \in LpcSet
    BY <1>22 DEF StartJoins, Alive, InSdk
  <3>2. late' \in BOOLEAN
    BY <1>22 DEF StartJoins, Alive, InSdk
  <3>3. QED
    BY <1>22, <3>1, <3>2 DEF StartJoins
<1>23. CASE Spawn
  <3>1. gen' \in 0 .. MaxGen
    BY <1>23, <1>0 DEF Spawn
  <3>2. thread' \in 0 .. MaxGen
    BY <3>1, <1>23 DEF Spawn
  <3>3. running' \in BOOLEAN
    BY <1>23 DEF Spawn
  <3>4. status' \in StatusSet
    BY <1>23 DEF Spawn
  <3>5. pc' \in [Gens -> PcSet]
    BY <1>23 DEF Spawn
  <3>6. lpc' \in LpcSet
    BY <1>23 DEF Spawn
  <3>7. QED
    BY <1>23, <3>1, <3>2, <3>3, <3>4, <3>5, <3>6 DEF Spawn
<1>24. ASSUME NEW s \in Ends, Shutdown(s) PROVE TypeOK'
  BY <1>24 DEF Shutdown
<1>25. CASE ShutdownFails
  BY <1>25 DEF ShutdownFails, FailPending
<1>26. CASE Join
  <3>1. released' \in BOOLEAN
    BY <1>26 DEF Join, Alive, InSdk
  <3>2. lpc' \in LpcSet
    BY <1>26 DEF Join, Alive, InSdk
  <3>3. QED
    BY <1>26, <3>1, <3>2 DEF Join
<1>27. CASE InFlight
  <3>1. lpc' \in LpcSet
    BY <1>27 DEF InFlight, Alive
  <3>2. released' \in BOOLEAN
    BY <1>27 DEF InFlight
  <3>3. QED
    BY <1>27, <3>1, <3>2 DEF InFlight
<1>28. CASE JoinOp
  BY <1>28 DEF JoinOp, Alive, InSdk
<1>29. CASE Forget
  BY <1>29 DEF Forget, FailPending
<1>30. CASE ShutdownHangsUp
  BY <1>30 DEF ShutdownHangsUp
<1>31. CASE ShutdownEnds
  BY <1>31 DEF ShutdownEnds, Alive
<1>32. ASSUME NEW r \in Requests, Ask(r) PROVE TypeOK'
  <3>1. told' \in [Requests -> {"idle", "waiting", "refused", "failed", "done", "timeout"}]
    BY <1>32 DEF Ask
  <3>2. queue' \in Seq(Requests)
    <4>1. queue' = Append(queue, r) \/ queue' = queue
      BY <1>32 DEF Ask
    <4>2. queue \in Seq(Requests)
      OBVIOUS
    <4>3. QED
      BY ONLY <4>1, <4>2, r \in Requests
  <3>3. QED
    BY <1>32, <3>1, <3>2 DEF Ask
<1>33. ASSUME NEW r \in Requests, Answered(r) PROVE TypeOK'
  BY <1>33 DEF Answered
<1>34. ASSUME NEW r \in Requests, TimesOut(r) PROVE TypeOK'
  BY <1>34 DEF TimesOut
<1>35. CASE BoxLost
  BY <1>35 DEF BoxLost
<1>36. CASE ArmMoves
  BY <1>36 DEF ArmMoves
<1>37. CASE UNCHANGED vars
  BY <1>37 DEF vars
<1>38. QED
  BY <1>1, <1>2, <1>3, <1>4, <1>5, <1>6, <1>7, <1>8, <1>9, <1>10, <1>11, <1>12, <1>13, <1>14,
     <1>15, <1>16, <1>17, <1>18, <1>19, <1>20, <1>21, <1>22, <1>23, <1>24, <1>25, <1>26, <1>27,
     <1>28, <1>29, <1>30, <1>31, <1>32, <1>33, <1>34, <1>35, <1>36, <1>37 DEF Next, PollThread,
     Lifecycle, Finish

\* Threads is preserved: generations are spawned in order, after the one before was told to end.
LEMMA ThreadsStep ==
  TypeOK /\ TypeOK' /\ Threads /\ [Next]_vars => Threads'
<1> SUFFICES ASSUME TypeOK, TypeOK', Threads, [Next]_vars PROVE Threads'
  OBVIOUS
<1> USE MonitorAssumption DEF NoClient, NoThread, Goto, objVars, thrVars, boxVars, lifeVars,
   reqVars, Threads, Lives, FreePcs, OpPcs, NoHandle, Gens
<1>0. /\ pc \in [Gens -> PcSet]
      /\ held \in [Gens -> 0 .. MaxClients]
      /\ job \in [Gens -> Requests \cup {NoRequest}]
      /\ gen \in 0 .. MaxGen
      /\ thread \in 0 .. MaxGen
      /\ running \in BOOLEAN
      /\ lpc \in LpcSet
      /\ made \in 0 .. MaxClients
      /\ gen' \in 0 .. MaxGen
      /\ held' \in [Gens -> 0 .. MaxClients]
      /\ job' \in [Gens -> Requests \cup {NoRequest}]
  BY DEF TypeOK
<1>1. ASSUME NEW g \in Gens, Loop(g) PROVE Threads'
  BY <1>1, <1>0 DEF Loop, Current
<1>2. ASSUME NEW g \in Gens, Fetch(g) PROVE Threads'
  BY <1>2, <1>0 DEF Fetch
<1>3. ASSUME NEW g \in Gens, Dial(g) PROVE Threads'
  BY <1>3, <1>0 DEF Dial, Publishes
<1>4. ASSUME NEW g \in Gens, DialOk(g) PROVE Threads'
  BY <1>4, <1>0 DEF DialOk
<1>5. ASSUME NEW g \in Gens, DialFails(g) PROVE Threads'
  BY <1>5, <1>0 DEF DialFails, Publishes
<1>6. ASSUME NEW g \in Gens, Adopt(g) PROVE Threads'
  BY <1>6, <1>0 DEF Adopt, Publishes, Current
<1>7. ASSUME NEW g \in Gens, HangUp(g) PROVE Threads'
  BY <1>7, <1>0 DEF HangUp
<1>8. ASSUME NEW g \in Gens, TakeRequest(g) PROVE Threads'
  BY <1>8, <1>0 DEF TakeRequest, Current
<1>9. ASSUME NEW g \in Gens, NothingToDo(g) PROVE Threads'
  <2>1. pc[g] = "next" /\ pc' = [pc EXCEPT ![g] = "poll"] /\ UNCHANGED <<objVars, lifeVars, held, job>>
    BY <1>9 DEF NothingToDo
  <2>2. held[g] # NoClient
    BY <2>1
  <2>3. pc' \in [Gens -> PcSet] /\ pc'[g] = "poll" /\ \A h \in Gens : h # g => pc'[h] = pc[h]
    BY <2>1, <1>0 DEF TypeOK
  <2>4. QED
    BY <2>1, <2>2, <2>3, <1>0
<1>10. ASSUME NEW g \in Gens, PollReads(g) PROVE Threads'
  BY <1>10, <1>0 DEF PollReads
<1>11. ASSUME NEW g \in Gens, PollFails(g) PROVE Threads'
  BY <1>11, <1>0 DEF PollFails, Publishes, AfterPoll
<1>12. ASSUME NEW g \in Gens, Publish(g) PROVE Threads'
  BY <1>12, <1>0 DEF Publish, Publishes, AfterPoll, Current
<1>13. ASSUME NEW g \in Gens, CheckRefuses(g) PROVE Threads'
  BY <1>13, <1>0 DEF CheckRefuses, Current
<1>14. ASSUME NEW g \in Gens, CheckPasses(g) PROVE Threads'
  BY <1>14, <1>0 DEF CheckPasses, Current, PostureHeld
<1>15. ASSUME NEW g \in Gens, FirstWrite(g) PROVE Threads'
  BY <1>15, <1>0 DEF FirstWrite
<1>16. ASSUME NEW g \in Gens, LastWrites(g) PROVE Threads'
  BY <1>16, <1>0 DEF LastWrites, Current
<1>17. ASSUME NEW g \in Gens, Judge(g) PROVE Threads'
  BY <1>17, <1>0 DEF Judge
<1>18. ASSUME NEW g \in Gens, Raises(g) PROVE Threads'
  BY <1>18, <1>0 DEF Raises
<1>19. ASSUME NEW g \in Gens, Finally(g) PROVE Threads'
  BY <1>19, <1>0 DEF Finally
<1>20. ASSUME NEW g \in Gens, Drop(g) PROVE Threads'
  BY <1>20, <1>0 DEF Drop, Publishes, FailPending
<1>21. CASE Start
  BY <1>21, <1>0 DEF Start, Alive
<1>22. CASE StartJoins
  BY <1>22, <1>0 DEF StartJoins, Alive, InSdk
<1>23. CASE Spawn
  BY <1>23, <1>0 DEF Spawn
<1>24. ASSUME NEW s \in Ends, Shutdown(s) PROVE Threads'
  BY <1>24, <1>0 DEF Shutdown
<1>25. CASE ShutdownFails
  BY <1>25, <1>0 DEF ShutdownFails, FailPending
<1>26. CASE Join
  BY <1>26, <1>0 DEF Join, Alive, InSdk
<1>27. CASE InFlight
  BY <1>27, <1>0 DEF InFlight, Alive
<1>28. CASE JoinOp
  BY <1>28, <1>0 DEF JoinOp, Alive, InSdk
<1>29. CASE Forget
  BY <1>29, <1>0 DEF Forget, FailPending
<1>30. CASE ShutdownHangsUp
  BY <1>30, <1>0 DEF ShutdownHangsUp
<1>31. CASE ShutdownEnds
  BY <1>31, <1>0 DEF ShutdownEnds, Alive
<1>32. ASSUME NEW r \in Requests, Ask(r) PROVE Threads'
  BY <1>32, <1>0 DEF Ask
<1>33. ASSUME NEW r \in Requests, Answered(r) PROVE Threads'
  BY <1>33, <1>0 DEF Answered
<1>34. ASSUME NEW r \in Requests, TimesOut(r) PROVE Threads'
  BY <1>34, <1>0 DEF TimesOut
<1>35. CASE BoxLost
  BY <1>35, <1>0 DEF BoxLost
<1>36. CASE ArmMoves
  BY <1>36, <1>0 DEF ArmMoves
<1>37. CASE UNCHANGED vars
  BY <1>37 DEF vars
<1>38. QED
  BY <1>1, <1>2, <1>3, <1>4, <1>5, <1>6, <1>7, <1>8, <1>9, <1>10, <1>11, <1>12, <1>13, <1>14,
     <1>15, <1>16, <1>17, <1>18, <1>19, <1>20, <1>21, <1>22, <1>23, <1>24, <1>25, <1>26, <1>27,
     <1>28, <1>29, <1>30, <1>31, <1>32, <1>33, <1>34, <1>35, <1>36, <1>37 DEF Next, PollThread,
     Lifecycle, Finish

\* Rest is preserved: a thread that is no longer current publishes nothing.
LEMMA RestStep ==
  TypeOK /\ TypeOK' /\ Threads /\ Rest /\ [Next]_vars => Rest'
<1> SUFFICES ASSUME TypeOK, TypeOK', Threads, Rest, [Next]_vars PROVE Rest'
  OBVIOUS
<1> USE MonitorAssumption DEF NoClient, NoThread, Goto, objVars, thrVars, boxVars, lifeVars,
   reqVars, Rest, Waited, Given, Cleared, Threads
<1>0. /\ running \in BOOLEAN
      /\ api \in 0 .. MaxClients
      /\ lheld \in 0 .. MaxClients
      /\ lpc \in LpcSet
      /\ want \in {"off", "paused"}
      /\ status \in StatusSet
      /\ gen \in 0 .. MaxGen
      /\ thread \in 0 .. MaxGen
  BY DEF TypeOK
<1>1. ASSUME NEW g \in Gens, Loop(g) PROVE Rest'
  BY <1>1, <1>0 DEF Loop, Current
<1>2. ASSUME NEW g \in Gens, Fetch(g) PROVE Rest'
  BY <1>2, <1>0 DEF Fetch
<1>3. ASSUME NEW g \in Gens, Dial(g) PROVE Rest'
  BY <1>3, <1>0 DEF Dial, Publishes, Current
<1>4. ASSUME NEW g \in Gens, DialOk(g) PROVE Rest'
  BY <1>4, <1>0 DEF DialOk
<1>5. ASSUME NEW g \in Gens, DialFails(g) PROVE Rest'
  BY <1>5, <1>0 DEF DialFails, Publishes, Current
<1>6. ASSUME NEW g \in Gens, Adopt(g) PROVE Rest'
  BY <1>6, <1>0 DEF Adopt, Publishes, Current
<1>7. ASSUME NEW g \in Gens, HangUp(g) PROVE Rest'
  BY <1>7, <1>0 DEF HangUp
<1>8. ASSUME NEW g \in Gens, TakeRequest(g) PROVE Rest'
  BY <1>8, <1>0 DEF TakeRequest, Current
<1>9. ASSUME NEW g \in Gens, NothingToDo(g) PROVE Rest'
  BY <1>9, <1>0 DEF NothingToDo
<1>10. ASSUME NEW g \in Gens, PollReads(g) PROVE Rest'
  BY <1>10, <1>0 DEF PollReads
<1>11. ASSUME NEW g \in Gens, PollFails(g) PROVE Rest'
  BY <1>11, <1>0 DEF PollFails, Publishes, AfterPoll, Current
<1>12. ASSUME NEW g \in Gens, Publish(g) PROVE Rest'
  BY <1>12, <1>0 DEF Publish, Publishes, AfterPoll, Current
<1>13. ASSUME NEW g \in Gens, CheckRefuses(g) PROVE Rest'
  BY <1>13, <1>0 DEF CheckRefuses, Current
<1>14. ASSUME NEW g \in Gens, CheckPasses(g) PROVE Rest'
  BY <1>14, <1>0 DEF CheckPasses, Current, PostureHeld
<1>15. ASSUME NEW g \in Gens, FirstWrite(g) PROVE Rest'
  BY <1>15, <1>0 DEF FirstWrite
<1>16. ASSUME NEW g \in Gens, LastWrites(g) PROVE Rest'
  BY <1>16, <1>0 DEF LastWrites, Current
<1>17. ASSUME NEW g \in Gens, Judge(g) PROVE Rest'
  BY <1>17, <1>0 DEF Judge
<1>18. ASSUME NEW g \in Gens, Raises(g) PROVE Rest'
  BY <1>18, <1>0 DEF Raises
<1>19. ASSUME NEW g \in Gens, Finally(g) PROVE Rest'
  BY <1>19, <1>0 DEF Finally
<1>20. ASSUME NEW g \in Gens, Drop(g) PROVE Rest'
  BY <1>20, <1>0 DEF Drop, Publishes, FailPending, Current
<1>21. CASE Start
  BY <1>21, <1>0 DEF Start, Alive
<1>22. CASE StartJoins
  BY <1>22, <1>0 DEF StartJoins, Alive, InSdk
<1>23. CASE Spawn
  BY <1>23, <1>0 DEF Spawn
<1>24. ASSUME NEW s \in Ends, Shutdown(s) PROVE Rest'
  BY <1>24, <1>0 DEF Shutdown
<1>25. CASE ShutdownFails
  BY <1>25, <1>0 DEF ShutdownFails, FailPending
<1>26. CASE Join
  BY <1>26, <1>0 DEF Join, Alive, InSdk
<1>27. CASE InFlight
  BY <1>27, <1>0 DEF InFlight, Alive
<1>28. CASE JoinOp
  BY <1>28, <1>0 DEF JoinOp, Alive, InSdk
<1>29. CASE Forget
  BY <1>29, <1>0 DEF Forget, FailPending
<1>30. CASE ShutdownHangsUp
  BY <1>30, <1>0 DEF ShutdownHangsUp
<1>31. CASE ShutdownEnds
  BY <1>31, <1>0 DEF ShutdownEnds, Alive
<1>32. ASSUME NEW r \in Requests, Ask(r) PROVE Rest'
  BY <1>32, <1>0 DEF Ask
<1>33. ASSUME NEW r \in Requests, Answered(r) PROVE Rest'
  BY <1>33, <1>0 DEF Answered
<1>34. ASSUME NEW r \in Requests, TimesOut(r) PROVE Rest'
  BY <1>34, <1>0 DEF TimesOut
<1>35. CASE BoxLost
  BY <1>35, <1>0 DEF BoxLost
<1>36. CASE ArmMoves
  BY <1>36, <1>0 DEF ArmMoves
<1>37. CASE UNCHANGED vars
  BY <1>37 DEF vars
<1>38. QED
  BY <1>1, <1>2, <1>3, <1>4, <1>5, <1>6, <1>7, <1>8, <1>9, <1>10, <1>11, <1>12, <1>13, <1>14,
     <1>15, <1>16, <1>17, <1>18, <1>19, <1>20, <1>21, <1>22, <1>23, <1>24, <1>25, <1>26, <1>27,
     <1>28, <1>29, <1>30, <1>31, <1>32, <1>33, <1>34, <1>35, <1>36, <1>37 DEF Next, PollThread,
     Lifecycle, Finish

\* Alone is preserved while no long wait runs out.
LEMMA AloneStep ==
  TypeOK /\ TypeOK' /\ Threads /\ Rest /\ Alone /\ ~late' /\ [Next]_vars => Alone'
<1> SUFFICES ASSUME TypeOK, TypeOK', Threads, Rest, Alone, ~late', [Next]_vars PROVE Alone'
  OBVIOUS
<1> USE MonitorAssumption DEF NoClient, NoThread, Goto, objVars, thrVars, boxVars, lifeVars,
   reqVars, Threads, Rest, Alone, Waited, Given, Lives, FreePcs, OpPcs, Gens
<1>0. /\ pc \in [Gens -> PcSet]
      /\ job \in [Gens -> Requests \cup {NoRequest}]
      /\ gen \in 0 .. MaxGen
      /\ thread \in 0 .. MaxGen
      /\ running \in BOOLEAN
      /\ lpc \in LpcSet
      /\ active \in Requests \cup {NoRequest}
      /\ released \in BOOLEAN
      /\ gen' \in 0 .. MaxGen
      /\ job' \in [Gens -> Requests \cup {NoRequest}]
      /\ active' \in Requests \cup {NoRequest}
      /\ thread' \in 0 .. MaxGen
  BY DEF TypeOK
<1>1. ASSUME NEW g \in Gens, Loop(g) PROVE Alone'
  BY <1>1, <1>0 DEF Loop, Current
<1>2. ASSUME NEW g \in Gens, Fetch(g) PROVE Alone'
  BY <1>2, <1>0 DEF Fetch
<1>3. ASSUME NEW g \in Gens, Dial(g) PROVE Alone'
  BY <1>3, <1>0 DEF Dial, Publishes
<1>4. ASSUME NEW g \in Gens, DialOk(g) PROVE Alone'
  BY <1>4, <1>0 DEF DialOk
<1>5. ASSUME NEW g \in Gens, DialFails(g) PROVE Alone'
  BY <1>5, <1>0 DEF DialFails, Publishes
<1>6. ASSUME NEW g \in Gens, Adopt(g) PROVE Alone'
  BY <1>6, <1>0 DEF Adopt, Publishes, Current
<1>7. ASSUME NEW g \in Gens, HangUp(g) PROVE Alone'
  BY <1>7, <1>0 DEF HangUp
<1>8. ASSUME NEW g \in Gens, TakeRequest(g) PROVE Alone'
  BY <1>8, <1>0 DEF TakeRequest, Current
<1>9. ASSUME NEW g \in Gens, NothingToDo(g) PROVE Alone'
  BY <1>9, <1>0 DEF NothingToDo
<1>10. ASSUME NEW g \in Gens, PollReads(g) PROVE Alone'
  BY <1>10, <1>0 DEF PollReads
<1>11. ASSUME NEW g \in Gens, PollFails(g) PROVE Alone'
  BY <1>11, <1>0 DEF PollFails, Publishes, AfterPoll
<1>12. ASSUME NEW g \in Gens, Publish(g) PROVE Alone'
  BY <1>12, <1>0 DEF Publish, Publishes, AfterPoll, Current
<1>13. ASSUME NEW g \in Gens, CheckRefuses(g) PROVE Alone'
  BY <1>13, <1>0 DEF CheckRefuses, Current
<1>14. ASSUME NEW g \in Gens, CheckPasses(g) PROVE Alone'
  BY <1>14, <1>0 DEF CheckPasses, Current, PostureHeld
<1>15. ASSUME NEW g \in Gens, FirstWrite(g) PROVE Alone'
  BY <1>15, <1>0 DEF FirstWrite
<1>16. ASSUME NEW g \in Gens, LastWrites(g) PROVE Alone'
  BY <1>16, <1>0 DEF LastWrites, Current
<1>17. ASSUME NEW g \in Gens, Judge(g) PROVE Alone'
  BY <1>17, <1>0 DEF Judge
<1>18. ASSUME NEW g \in Gens, Raises(g) PROVE Alone'
  BY <1>18, <1>0 DEF Raises
<1>19. ASSUME NEW g \in Gens, Finally(g) PROVE Alone'
  BY <1>19, <1>0 DEF Finally
<1>20. ASSUME NEW g \in Gens, Drop(g) PROVE Alone'
  BY <1>20, <1>0 DEF Drop, Publishes, FailPending
<1>21. CASE Start
  BY <1>21, <1>0 DEF Start, Alive
<1>22. CASE StartJoins
  BY <1>22, <1>0 DEF StartJoins, Alive, InSdk
<1>23. CASE Spawn
  BY <1>23, <1>0 DEF Spawn
<1>24. ASSUME NEW s \in Ends, Shutdown(s) PROVE Alone'
  BY <1>24, <1>0 DEF Shutdown, Alive, InSdk
<1>25. CASE ShutdownFails
  BY <1>25, <1>0 DEF ShutdownFails, FailPending
<1>26. CASE Join
  BY <1>26, <1>0 DEF Join, Alive, InSdk
<1>27. CASE InFlight
  BY <1>27, <1>0 DEF InFlight, Alive
<1>28. CASE JoinOp
  BY <1>28, <1>0 DEF JoinOp, Alive, InSdk
<1>29. CASE Forget
  BY <1>29, <1>0 DEF Forget, FailPending
<1>30. CASE ShutdownHangsUp
  BY <1>30, <1>0 DEF ShutdownHangsUp
<1>31. CASE ShutdownEnds
  BY <1>31, <1>0 DEF ShutdownEnds, Alive
<1>32. ASSUME NEW r \in Requests, Ask(r) PROVE Alone'
  BY <1>32, <1>0 DEF Ask
<1>33. ASSUME NEW r \in Requests, Answered(r) PROVE Alone'
  BY <1>33, <1>0 DEF Answered
<1>34. ASSUME NEW r \in Requests, TimesOut(r) PROVE Alone'
  BY <1>34, <1>0 DEF TimesOut
<1>35. CASE BoxLost
  BY <1>35, <1>0 DEF BoxLost
<1>36. CASE ArmMoves
  BY <1>36, <1>0 DEF ArmMoves
<1>37. CASE UNCHANGED vars
  BY <1>37 DEF vars
<1>38. QED
  BY <1>1, <1>2, <1>3, <1>4, <1>5, <1>6, <1>7, <1>8, <1>9, <1>10, <1>11, <1>12, <1>13, <1>14,
     <1>15, <1>16, <1>17, <1>18, <1>19, <1>20, <1>21, <1>22, <1>23, <1>24, <1>25, <1>26, <1>27,
     <1>28, <1>29, <1>30, <1>31, <1>32, <1>33, <1>34, <1>35, <1>36, <1>37 DEF Next, PollThread,
     Lifecycle, Finish

\* Clients is preserved while no long wait runs out: a thread dials only when nothing is published.
LEMMA ClientsStep ==
  TypeOK /\ TypeOK' /\ Threads /\ Rest /\ Alone /\ Clients /\ ~late' /\ [Next]_vars => Clients'
<1> SUFFICES ASSUME TypeOK, TypeOK', Threads, Rest, Alone, Clients, ~late', [Next]_vars PROVE Clients'
  OBVIOUS
<1> USE MonitorAssumption DEF NoClient, NoThread, Goto, objVars, thrVars, boxVars, lifeVars,
   reqVars, Threads, Rest, Alone, Waited, Given, Lives, NoHandle, Clients, Gens
<1>0. /\ pc \in [Gens -> PcSet]
      /\ held \in [Gens -> 0 .. MaxClients]
      /\ api \in 0 .. MaxClients
      /\ lheld \in 0 .. MaxClients
      /\ gen \in 0 .. MaxGen
      /\ thread \in 0 .. MaxGen
      /\ running \in BOOLEAN
      /\ lpc \in LpcSet
      /\ open \in SUBSET (1 .. MaxClients)
      /\ made \in 0 .. MaxClients
      /\ held' \in [Gens -> 0 .. MaxClients]
      /\ api' \in 0 .. MaxClients
      /\ lheld' \in 0 .. MaxClients
  BY DEF TypeOK
<1>1. ASSUME NEW g \in Gens, Loop(g) PROVE Clients'
  BY <1>1, <1>0 DEF Loop, Current
<1>2. ASSUME NEW g \in Gens, Fetch(g) PROVE Clients'
  BY <1>2, <1>0 DEF Fetch
<1>3. ASSUME NEW g \in Gens, Dial(g) PROVE Clients'
  BY <1>3, <1>0 DEF Dial, Publishes
<1>4. ASSUME NEW g \in Gens, DialOk(g) PROVE Clients'
  BY <1>4, <1>0 DEF DialOk
<1>5. ASSUME NEW g \in Gens, DialFails(g) PROVE Clients'
  BY <1>5, <1>0 DEF DialFails, Publishes
<1>6. ASSUME NEW g \in Gens, Adopt(g) PROVE Clients'
  BY <1>6, <1>0 DEF Adopt, Publishes, Current
<1>7. ASSUME NEW g \in Gens, HangUp(g) PROVE Clients'
  BY <1>7, <1>0 DEF HangUp
<1>8. ASSUME NEW g \in Gens, TakeRequest(g) PROVE Clients'
  BY <1>8, <1>0 DEF TakeRequest, Current
<1>9. ASSUME NEW g \in Gens, NothingToDo(g) PROVE Clients'
  BY <1>9, <1>0 DEF NothingToDo
<1>10. ASSUME NEW g \in Gens, PollReads(g) PROVE Clients'
  BY <1>10, <1>0 DEF PollReads
<1>11. ASSUME NEW g \in Gens, PollFails(g) PROVE Clients'
  BY <1>11, <1>0 DEF PollFails, Publishes, AfterPoll
<1>12. ASSUME NEW g \in Gens, Publish(g) PROVE Clients'
  BY <1>12, <1>0 DEF Publish, Publishes, AfterPoll, Current
<1>13. ASSUME NEW g \in Gens, CheckRefuses(g) PROVE Clients'
  BY <1>13, <1>0 DEF CheckRefuses, Current
<1>14. ASSUME NEW g \in Gens, CheckPasses(g) PROVE Clients'
  BY <1>14, <1>0 DEF CheckPasses, Current, PostureHeld
<1>15. ASSUME NEW g \in Gens, FirstWrite(g) PROVE Clients'
  BY <1>15, <1>0 DEF FirstWrite
<1>16. ASSUME NEW g \in Gens, LastWrites(g) PROVE Clients'
  BY <1>16, <1>0 DEF LastWrites, Current
<1>17. ASSUME NEW g \in Gens, Judge(g) PROVE Clients'
  BY <1>17, <1>0 DEF Judge
<1>18. ASSUME NEW g \in Gens, Raises(g) PROVE Clients'
  BY <1>18, <1>0 DEF Raises
<1>19. ASSUME NEW g \in Gens, Finally(g) PROVE Clients'
  BY <1>19, <1>0 DEF Finally
<1>20. ASSUME NEW g \in Gens, Drop(g) PROVE Clients'
  BY <1>20, <1>0 DEF Drop, Publishes, FailPending
<1>21. CASE Start
  BY <1>21, <1>0 DEF Start, Alive
<1>22. CASE StartJoins
  BY <1>22, <1>0 DEF StartJoins, Alive, InSdk
<1>23. CASE Spawn
  BY <1>23, <1>0 DEF Spawn
<1>24. ASSUME NEW s \in Ends, Shutdown(s) PROVE Clients'
  BY <1>24, <1>0 DEF Shutdown
<1>25. CASE ShutdownFails
  BY <1>25, <1>0 DEF ShutdownFails, FailPending
<1>26. CASE Join
  BY <1>26, <1>0 DEF Join, Alive, InSdk
<1>27. CASE InFlight
  BY <1>27, <1>0 DEF InFlight, Alive
<1>28. CASE JoinOp
  BY <1>28, <1>0 DEF JoinOp, Alive, InSdk
<1>29. CASE Forget
  BY <1>29, <1>0 DEF Forget, FailPending
<1>30. CASE ShutdownHangsUp
  BY <1>30, <1>0 DEF ShutdownHangsUp
<1>31. CASE ShutdownEnds
  BY <1>31, <1>0 DEF ShutdownEnds, Alive
<1>32. ASSUME NEW r \in Requests, Ask(r) PROVE Clients'
  BY <1>32, <1>0 DEF Ask
<1>33. ASSUME NEW r \in Requests, Answered(r) PROVE Clients'
  BY <1>33, <1>0 DEF Answered
<1>34. ASSUME NEW r \in Requests, TimesOut(r) PROVE Clients'
  BY <1>34, <1>0 DEF TimesOut
<1>35. CASE BoxLost
  BY <1>35, <1>0 DEF BoxLost
<1>36. CASE ArmMoves
  BY <1>36, <1>0 DEF ArmMoves
<1>37. CASE UNCHANGED vars
  BY <1>37 DEF vars
<1>38. QED
  BY <1>1, <1>2, <1>3, <1>4, <1>5, <1>6, <1>7, <1>8, <1>9, <1>10, <1>11, <1>12, <1>13, <1>14,
     <1>15, <1>16, <1>17, <1>18, <1>19, <1>20, <1>21, <1>22, <1>23, <1>24, <1>25, <1>26, <1>27,
     <1>28, <1>29, <1>30, <1>31, <1>32, <1>33, <1>34, <1>35, <1>36, <1>37 DEF Next, PollThread,
     Lifecycle, Finish

\* Fresh is preserved: taking a request forgets that there was a sample.
LEMMA FreshStep ==
  TypeOK /\ TypeOK' /\ Threads /\ Fresh /\ [Next]_vars => Fresh'
<1> SUFFICES ASSUME TypeOK, TypeOK', Threads, Fresh, [Next]_vars PROVE Fresh'
  OBVIOUS
<1> USE MonitorAssumption DEF NoClient, NoThread, Goto, objVars, thrVars, boxVars, lifeVars,
   reqVars, Threads, Fresh, Lives, FreePcs, OpPcs, Gens
<1>0. /\ pc \in [Gens -> PcSet]
      /\ got \in [Gens -> Postures]
      /\ newer \in [Gens -> BOOLEAN]
      /\ job \in [Gens -> Requests \cup {NoRequest}]
      /\ gen \in 0 .. MaxGen
      /\ running \in BOOLEAN
      /\ writes \in [Requests -> 0 .. 2]
      /\ lpc \in LpcSet
      /\ sample \in Postures
      /\ gen' \in 0 .. MaxGen
      /\ job' \in [Gens -> Requests \cup {NoRequest}]
      /\ newer' \in [Gens -> BOOLEAN]
      /\ writes' \in [Requests -> 0 .. 2]
      /\ got' \in [Gens -> Postures]
  BY DEF TypeOK
<1>1. ASSUME NEW g \in Gens, Loop(g) PROVE Fresh'
  BY <1>1, <1>0 DEF Loop, Current
<1>2. ASSUME NEW g \in Gens, Fetch(g) PROVE Fresh'
  BY <1>2, <1>0 DEF Fetch
<1>3. ASSUME NEW g \in Gens, Dial(g) PROVE Fresh'
  BY <1>3, <1>0 DEF Dial, Publishes
<1>4. ASSUME NEW g \in Gens, DialOk(g) PROVE Fresh'
  BY <1>4, <1>0 DEF DialOk
<1>5. ASSUME NEW g \in Gens, DialFails(g) PROVE Fresh'
  BY <1>5, <1>0 DEF DialFails, Publishes
<1>6. ASSUME NEW g \in Gens, Adopt(g) PROVE Fresh'
  BY <1>6, <1>0 DEF Adopt, Publishes, Current
<1>7. ASSUME NEW g \in Gens, HangUp(g) PROVE Fresh'
  BY <1>7, <1>0 DEF HangUp
<1>8. ASSUME NEW g \in Gens, TakeRequest(g) PROVE Fresh'
  BY <1>8, <1>0 DEF TakeRequest, Current
<1>9. ASSUME NEW g \in Gens, NothingToDo(g) PROVE Fresh'
  BY <1>9, <1>0 DEF NothingToDo
<1>10. ASSUME NEW g \in Gens, PollReads(g) PROVE Fresh'
  BY <1>10, <1>0 DEF PollReads
<1>11. ASSUME NEW g \in Gens, PollFails(g) PROVE Fresh'
  BY <1>11, <1>0 DEF PollFails, Publishes, AfterPoll, Current
<1>12. ASSUME NEW g \in Gens, Publish(g) PROVE Fresh'
  BY <1>12, <1>0 DEF Publish, Publishes, AfterPoll, Current
<1>13. ASSUME NEW g \in Gens, CheckRefuses(g) PROVE Fresh'
  BY <1>13, <1>0 DEF CheckRefuses, Current
<1>14. ASSUME NEW g \in Gens, CheckPasses(g) PROVE Fresh'
  BY <1>14, <1>0 DEF CheckPasses, Current, PostureHeld
<1>15. ASSUME NEW g \in Gens, FirstWrite(g) PROVE Fresh'
  BY <1>15, <1>0 DEF FirstWrite
<1>16. ASSUME NEW g \in Gens, LastWrites(g) PROVE Fresh'
  BY <1>16, <1>0 DEF LastWrites, Current
<1>17. ASSUME NEW g \in Gens, Judge(g) PROVE Fresh'
  BY <1>17, <1>0 DEF Judge
<1>18. ASSUME NEW g \in Gens, Raises(g) PROVE Fresh'
  BY <1>18, <1>0 DEF Raises
<1>19. ASSUME NEW g \in Gens, Finally(g) PROVE Fresh'
  BY <1>19, <1>0 DEF Finally
<1>20. ASSUME NEW g \in Gens, Drop(g) PROVE Fresh'
  BY <1>20, <1>0 DEF Drop, Publishes, FailPending
<1>21. CASE Start
  BY <1>21, <1>0 DEF Start, Alive
<1>22. CASE StartJoins
  BY <1>22, <1>0 DEF StartJoins, Alive, InSdk
<1>23. CASE Spawn
  BY <1>23, <1>0 DEF Spawn
<1>24. ASSUME NEW s \in Ends, Shutdown(s) PROVE Fresh'
  BY <1>24, <1>0 DEF Shutdown
<1>25. CASE ShutdownFails
  BY <1>25, <1>0 DEF ShutdownFails, FailPending
<1>26. CASE Join
  BY <1>26, <1>0 DEF Join, Alive, InSdk
<1>27. CASE InFlight
  BY <1>27, <1>0 DEF InFlight, Alive
<1>28. CASE JoinOp
  BY <1>28, <1>0 DEF JoinOp, Alive, InSdk
<1>29. CASE Forget
  BY <1>29, <1>0 DEF Forget, FailPending
<1>30. CASE ShutdownHangsUp
  BY <1>30, <1>0 DEF ShutdownHangsUp
<1>31. CASE ShutdownEnds
  BY <1>31, <1>0 DEF ShutdownEnds, Alive
<1>32. ASSUME NEW r \in Requests, Ask(r) PROVE Fresh'
  BY <1>32, <1>0 DEF Ask
<1>33. ASSUME NEW r \in Requests, Answered(r) PROVE Fresh'
  BY <1>33, <1>0 DEF Answered
<1>34. ASSUME NEW r \in Requests, TimesOut(r) PROVE Fresh'
  BY <1>34, <1>0 DEF TimesOut
<1>35. CASE BoxLost
  BY <1>35, <1>0 DEF BoxLost
<1>36. CASE ArmMoves
  BY <1>36, <1>0 DEF ArmMoves
<1>37. CASE UNCHANGED vars
  BY <1>37 DEF vars
<1>38. QED
  BY <1>1, <1>2, <1>3, <1>4, <1>5, <1>6, <1>7, <1>8, <1>9, <1>10, <1>11, <1>12, <1>13, <1>14,
     <1>15, <1>16, <1>17, <1>18, <1>19, <1>20, <1>21, <1>22, <1>23, <1>24, <1>25, <1>26, <1>27,
     <1>28, <1>29, <1>30, <1>31, <1>32, <1>33, <1>34, <1>35, <1>36, <1>37 DEF Next, PollThread,
     Lifecycle, Finish

\* Served is preserved: nothing is written for a request that is queued or was refused.
LEMMA ServedStep ==
  TypeOK /\ TypeOK' /\ Threads /\ Served /\ [Next]_vars => Served'
<1> SUFFICES ASSUME TypeOK, TypeOK', Threads, Served, [Next]_vars PROVE Served'
  OBVIOUS
<1> USE MonitorAssumption DEF NoClient, NoThread, Goto, objVars, thrVars, boxVars, lifeVars,
   reqVars, Threads, Served, Open, InOp, Lives, FreePcs, OpPcs, Gens
<1>0. /\ pc \in [Gens -> PcSet]
      /\ job \in [Gens -> Requests \cup {NoRequest}]
      /\ queue \in Seq(Requests)
      /\ told \in [Requests -> {"idle", "waiting", "refused", "failed", "done", "timeout"}]
      /\ outcome \in [Requests -> {"none", "refused", "failed", "done"}]
      /\ writes \in [Requests -> 0 .. 2]
      /\ gen \in 0 .. MaxGen
      /\ lpc \in LpcSet
      /\ job' \in [Gens -> Requests \cup {NoRequest}]
      /\ queue' \in Seq(Requests)
      /\ told' \in [Requests -> {"idle", "waiting", "refused", "failed", "done", "timeout"}]
      /\ outcome' \in [Requests -> {"none", "refused", "failed", "done"}]
      /\ writes' \in [Requests -> 0 .. 2]
  BY DEF TypeOK
<1>1. ASSUME NEW g \in Gens, Loop(g) PROVE Served'
  BY <1>1, <1>0 DEF Loop, Current
<1>2. ASSUME NEW g \in Gens, Fetch(g) PROVE Served'
  BY <1>2, <1>0 DEF Fetch
<1>3. ASSUME NEW g \in Gens, Dial(g) PROVE Served'
  BY <1>3, <1>0 DEF Dial, Publishes
<1>4. ASSUME NEW g \in Gens, DialOk(g) PROVE Served'
  BY <1>4, <1>0 DEF DialOk
<1>5. ASSUME NEW g \in Gens, DialFails(g) PROVE Served'
  BY <1>5, <1>0 DEF DialFails, Publishes
<1>6. ASSUME NEW g \in Gens, Adopt(g) PROVE Served'
  <2>1. pc' = [pc EXCEPT ![g] = "next"] \/ pc' = [pc EXCEPT ![g] = "hangup"]
    BY <1>6 DEF Adopt
  <2>2. pc[g] = "dialled" /\ UNCHANGED <<job, queue, told, outcome, writes>>
    BY <1>6 DEF Adopt
  <2>3. QED
    BY <2>1, <2>2, <1>0
<1>7. ASSUME NEW g \in Gens, HangUp(g) PROVE Served'
  BY <1>7, <1>0 DEF HangUp
<1>8. ASSUME NEW g \in Gens, TakeRequest(g) PROVE Served'
  BY <1>8, <1>0 DEF TakeRequest, Current
<1>9. ASSUME NEW g \in Gens, NothingToDo(g) PROVE Served'
  BY <1>9, <1>0 DEF NothingToDo
<1>10. ASSUME NEW g \in Gens, PollReads(g) PROVE Served'
  BY <1>10, <1>0 DEF PollReads
<1>11. ASSUME NEW g \in Gens, PollFails(g) PROVE Served'
  BY <1>11, <1>0 DEF PollFails, Publishes, AfterPoll
<1>12. ASSUME NEW g \in Gens, Publish(g) PROVE Served'
  BY <1>12, <1>0 DEF Publish, Publishes, AfterPoll, Current
<1>13. ASSUME NEW g \in Gens, CheckRefuses(g) PROVE Served'
  BY <1>13, <1>0 DEF CheckRefuses, Current
<1>14. ASSUME NEW g \in Gens, CheckPasses(g) PROVE Served'
  BY <1>14, <1>0 DEF CheckPasses, Current, PostureHeld
<1>15. ASSUME NEW g \in Gens, FirstWrite(g) PROVE Served'
  BY <1>15, <1>0 DEF FirstWrite
<1>16. ASSUME NEW g \in Gens, LastWrites(g) PROVE Served'
  BY <1>16, <1>0 DEF LastWrites, Current
<1>17. ASSUME NEW g \in Gens, Judge(g) PROVE Served'
  BY <1>17, <1>0 DEF Judge
<1>18. ASSUME NEW g \in Gens, Raises(g) PROVE Served'
  BY <1>18, <1>0 DEF Raises
<1>19. ASSUME NEW g \in Gens, Finally(g) PROVE Served'
  BY <1>19, <1>0 DEF Finally
<1>20. ASSUME NEW g \in Gens, Drop(g) PROVE Served'
  <2>1. pc[g] = "drop"
      /\ UNCHANGED <<job, told, writes>> /\ pc' \in {[pc EXCEPT ![g] = "top"], [pc EXCEPT ![g] = "hangup"]}
    BY <1>20 DEF Drop
  <2>2. CASE api = held[g]
    <3>1. queue' = <<>> /\ DOMAIN queue' = {}
      BY <1>20, <2>2 DEF Drop, FailPending
    <3>2. \A q \in Requests : \/ outcome'[q] = outcome[q]
                              \/ outcome'[q] = "refused" /\ \E i \in DOMAIN queue : queue[i] = q
      <4>1. outcome' = [q \in Requests |->
                         IF (\E i \in 1 .. Len(queue) : queue[i] = q) /\ told[q] # "timeout"
                           THEN "refused" ELSE outcome[q]]
        BY <1>20, <2>2 DEF Drop, FailPending
      <4>2. DOMAIN queue = 1 .. Len(queue)
        BY <1>0
      <4>3. TAKE q \in Requests
      <4>4. CASE \E i \in 1 .. Len(queue) : queue[i] = q
        BY <4>1, <4>2, <4>4
      <4>5. ASSUME ~ \E i \in 1 .. Len(queue) : queue[i] = q PROVE outcome'[q] = outcome[q]
        BY ONLY <4>1, <4>5, q \in Requests
      <4>6. QED
        BY <4>4, <4>5
    <3>3. \A q \in Requests : (\E i \in DOMAIN queue : queue[i] = q) =>
                              writes[q] = 0 /\ told[q] # "idle" /\ \A h \in Gens : job[h] # q
      BY <1>0
    <3>4. QED
      BY <2>1, <3>1, <3>2, <3>3, <1>0
  <2>3. CASE api # held[g]
    <3>1. UNCHANGED <<queue, outcome>>
      BY <1>20, <2>3 DEF Drop
    <3>2. QED
      BY <2>1, <3>1, <1>0
  <2>4. QED
    BY <2>2, <2>3
<1>21. CASE Start
  BY <1>21, <1>0 DEF Start, Alive
<1>22. CASE StartJoins
  BY <1>22, <1>0 DEF StartJoins, Alive, InSdk
<1>23. CASE Spawn
  BY <1>23, <1>0 DEF Spawn
<1>24. ASSUME NEW s \in Ends, Shutdown(s) PROVE Served'
  BY <1>24, <1>0 DEF Shutdown
<1>25. CASE ShutdownFails
  BY <1>25, <1>0 DEF ShutdownFails, FailPending
<1>26. CASE Join
  BY <1>26, <1>0 DEF Join, Alive, InSdk
<1>27. CASE InFlight
  BY <1>27, <1>0 DEF InFlight, Alive
<1>28. CASE JoinOp
  BY <1>28, <1>0 DEF JoinOp, Alive, InSdk
<1>29. CASE Forget
  BY <1>29, <1>0 DEF Forget, FailPending
<1>30. CASE ShutdownHangsUp
  BY <1>30, <1>0 DEF ShutdownHangsUp
<1>31. CASE ShutdownEnds
  BY <1>31, <1>0 DEF ShutdownEnds, Alive
<1>32. ASSUME NEW r \in Requests, Ask(r) PROVE Served'
  <2>1. told[r] = "idle" /\ UNCHANGED <<pc, job, outcome, writes>>
    BY <1>32 DEF Ask
  <2>2. CASE told' = [told EXCEPT ![r] = "waiting"] /\ queue' = Append(queue, r)
    <3>1. DOMAIN queue = 1 .. Len(queue) /\ DOMAIN queue' = 1 .. Len(queue) + 1 /\ Len(queue) \in Nat
      BY <2>2, <1>0, Appended
    <3>2. \A i \in DOMAIN queue' : \/ i \in DOMAIN queue /\ queue'[i] = queue[i]
                                   \/ i = Len(queue) + 1 /\ queue'[i] = r
      <4>1. \A i \in DOMAIN queue : queue'[i] = queue[i]
        BY <2>2, <1>0, Appended
      <4>2. queue'[Len(queue) + 1] = r
        BY <2>2, <1>0, Appended
      <4>3. \A i \in 1 .. Len(queue) + 1 : i \in 1 .. Len(queue) \/ i = Len(queue) + 1
        BY <3>1
      <4>4. TAKE i \in DOMAIN queue'
      <4>5. i \in DOMAIN queue \/ i = Len(queue) + 1
        BY <3>1, <4>3
      <4>6. CASE i \in DOMAIN queue
        BY <4>1, <4>6
      <4>7. CASE i = Len(queue) + 1
        BY ONLY <4>2, <4>7
      <4>8. QED
        BY ONLY <4>5, <4>6, <4>7
    <3>3. \A i \in DOMAIN queue : queue[i] \in Requests
      BY <1>0
    <3>4. \A q \in Requests : told'[q] = IF q = r THEN "waiting" ELSE told[q]
      BY <2>2, <1>0
    <3>5. \A i \in DOMAIN queue' : /\ outcome'[queue'[i]] = "none" /\ told'[queue'[i]] \in {"waiting", "timeout"} /\ writes'[queue'[i]] = 0
                                   /\ \A h \in Gens : job'[h] # queue'[i]
      BY <2>1, <3>2, <3>3, <3>4, <1>0
    <3>6. \A i, j \in DOMAIN queue' : queue'[i] = queue'[j] => i = j
      BY <2>1, <3>2, <3>3, <1>0
    <3>7. \A q \in Requests : told'[q] = "idle" =>
            /\ outcome'[q] = "none" /\ writes'[q] = 0
            /\ \A h \in Gens : job'[h] # q
            /\ \A i \in DOMAIN queue' : queue'[i] # q
      BY <2>1, <3>2, <3>4, <1>0
    <3>8. \A h \in Gens : job[h] # NoRequest => job[h] \in Requests \ {r}
      BY <2>1, <1>0
    <3>9. QED
      BY <2>1, <3>4, <3>5, <3>6, <3>7, <3>8, <1>0
  <2>3. CASE told' = [told EXCEPT ![r] = "refused"] /\ UNCHANGED queue
    BY <2>1, <2>3, <1>0
  <2>4. QED
    BY <1>32, <2>2, <2>3 DEF Ask
<1>33. ASSUME NEW r \in Requests, Answered(r) PROVE Served'
  BY <1>33, <1>0 DEF Answered
<1>34. ASSUME NEW r \in Requests, TimesOut(r) PROVE Served'
  BY <1>34, <1>0 DEF TimesOut
<1>35. CASE BoxLost
  BY <1>35, <1>0 DEF BoxLost
<1>36. CASE ArmMoves
  BY <1>36, <1>0 DEF ArmMoves
<1>37. CASE UNCHANGED vars
  BY <1>37 DEF vars
<1>38. QED
  BY <1>1, <1>2, <1>3, <1>4, <1>5, <1>6, <1>7, <1>8, <1>9, <1>10, <1>11, <1>12, <1>13, <1>14,
     <1>15, <1>16, <1>17, <1>18, <1>19, <1>20, <1>21, <1>22, <1>23, <1>24, <1>25, <1>26, <1>27,
     <1>28, <1>29, <1>30, <1>31, <1>32, <1>33, <1>34, <1>35, <1>36, <1>37 DEF Next, PollThread,
     Lifecycle, Finish

\* A long wait that ran out is not forgotten.
LEMMA LateStays == late /\ [Next]_vars => late'
<1> SUFFICES ASSUME late, [Next]_vars PROVE late'
  OBVIOUS
<1> USE DEF lifeVars
<1>1. ASSUME NEW g \in Gens, Loop(g) PROVE late'
  BY <1>1 DEF Loop, Current
<1>2. ASSUME NEW g \in Gens, Fetch(g) PROVE late'
  BY <1>2 DEF Fetch
<1>3. ASSUME NEW g \in Gens, Dial(g) PROVE late'
  BY <1>3 DEF Dial, Publishes
<1>4. ASSUME NEW g \in Gens, DialOk(g) PROVE late'
  BY <1>4 DEF DialOk
<1>5. ASSUME NEW g \in Gens, DialFails(g) PROVE late'
  BY <1>5 DEF DialFails, Publishes
<1>6. ASSUME NEW g \in Gens, Adopt(g) PROVE late'
  BY <1>6 DEF Adopt, Publishes, Current
<1>7. ASSUME NEW g \in Gens, HangUp(g) PROVE late'
  BY <1>7 DEF HangUp
<1>8. ASSUME NEW g \in Gens, TakeRequest(g) PROVE late'
  BY <1>8 DEF TakeRequest, Current
<1>9. ASSUME NEW g \in Gens, NothingToDo(g) PROVE late'
  BY <1>9 DEF NothingToDo
<1>10. ASSUME NEW g \in Gens, PollReads(g) PROVE late'
  BY <1>10 DEF PollReads
<1>11. ASSUME NEW g \in Gens, PollFails(g) PROVE late'
  BY <1>11 DEF PollFails, Publishes, AfterPoll
<1>12. ASSUME NEW g \in Gens, Publish(g) PROVE late'
  BY <1>12 DEF Publish, Publishes, AfterPoll, Current
<1>13. ASSUME NEW g \in Gens, CheckRefuses(g) PROVE late'
  BY <1>13 DEF CheckRefuses, Current
<1>14. ASSUME NEW g \in Gens, CheckPasses(g) PROVE late'
  BY <1>14 DEF CheckPasses, Current, PostureHeld
<1>15. ASSUME NEW g \in Gens, FirstWrite(g) PROVE late'
  BY <1>15 DEF FirstWrite
<1>16. ASSUME NEW g \in Gens, LastWrites(g) PROVE late'
  BY <1>16 DEF LastWrites, Current
<1>17. ASSUME NEW g \in Gens, Judge(g) PROVE late'
  BY <1>17 DEF Judge
<1>18. ASSUME NEW g \in Gens, Raises(g) PROVE late'
  BY <1>18 DEF Raises
<1>19. ASSUME NEW g \in Gens, Finally(g) PROVE late'
  BY <1>19 DEF Finally
<1>20. ASSUME NEW g \in Gens, Drop(g) PROVE late'
  BY <1>20 DEF Drop, Publishes, FailPending
<1>21. CASE Start
  BY <1>21 DEF Start, Alive
<1>22. CASE StartJoins
  BY <1>22 DEF StartJoins, Alive, InSdk
<1>23. CASE Spawn
  BY <1>23 DEF Spawn
<1>24. ASSUME NEW s \in Ends, Shutdown(s) PROVE late'
  BY <1>24 DEF Shutdown
<1>25. CASE ShutdownFails
  BY <1>25 DEF ShutdownFails, FailPending
<1>26. CASE Join
  BY <1>26 DEF Join, Alive, InSdk
<1>27. CASE InFlight
  BY <1>27 DEF InFlight, Alive
<1>28. CASE JoinOp
  BY <1>28 DEF JoinOp, Alive, InSdk
<1>29. CASE Forget
  BY <1>29 DEF Forget, FailPending
<1>30. CASE ShutdownHangsUp
  BY <1>30 DEF ShutdownHangsUp
<1>31. CASE ShutdownEnds
  BY <1>31 DEF ShutdownEnds, Alive
<1>32. ASSUME NEW r \in Requests, Ask(r) PROVE late'
  BY <1>32 DEF Ask
<1>33. ASSUME NEW r \in Requests, Answered(r) PROVE late'
  BY <1>33 DEF Answered
<1>34. ASSUME NEW r \in Requests, TimesOut(r) PROVE late'
  BY <1>34 DEF TimesOut
<1>35. CASE BoxLost
  BY <1>35 DEF BoxLost
<1>36. CASE ArmMoves
  BY <1>36 DEF ArmMoves
<1>37. CASE UNCHANGED vars
  BY <1>37 DEF vars
<1>38. QED
  BY <1>1, <1>2, <1>3, <1>4, <1>5, <1>6, <1>7, <1>8, <1>9, <1>10, <1>11, <1>12, <1>13, <1>14,
     <1>15, <1>16, <1>17, <1>18, <1>19, <1>20, <1>21, <1>22, <1>23, <1>24, <1>25, <1>26, <1>27,
     <1>28, <1>29, <1>30, <1>31, <1>32, <1>33, <1>34, <1>35, <1>36, <1>37 DEF Next, PollThread,
     Lifecycle, Finish

\* The inductive invariant.
IInv == TypeOK /\ Threads /\ Rest /\ LoneClient /\ Fresh /\ Served

\* The initial state satisfies it.
LEMMA InvInit == Init => IInv
<1> SUFFICES ASSUME Init PROVE IInv
  OBVIOUS
<1>1. TypeOK
  BY TypeInit
<1> USE MonitorAssumption DEF Init, NoClient, NoThread, Gens
<1>2. Threads
  BY DEF Threads, FreePcs, OpPcs, NoHandle, Lives
<1>3. Rest
  BY DEF Rest, Cleared, Given, Waited
<1>4. Alone
  BY DEF Alone, Lives, Given, Waited
<1>5. Clients
  BY DEF Clients
<1>6. Fresh
  BY DEF Fresh
<1>7. Served
  BY DEF Served, Open
<1>8. QED
  BY <1>1, <1>2, <1>3, <1>4, <1>5, <1>6, <1>7 DEF IInv, LoneClient

\* Every reachable state satisfies the inductive invariant (start, stop, poll threads and

\* callers in any interleaving).
THEOREM Inductive == Spec => []IInv
<1>1. IInv /\ [Next]_vars => IInv'
  <2> SUFFICES ASSUME IInv, [Next]_vars PROVE IInv'
    OBVIOUS
  <2> USE DEF IInv
  <2>1. TypeOK'
    BY TypeStep
  <2>2. Threads'
    BY <2>1, ThreadsStep
  <2>3. Rest'
    BY <2>1, RestStep
  <2>4. LoneClient'
    <3>1. CASE late'
      BY <3>1 DEF LoneClient
    <3>2. CASE ~late'
      <4>1. Alone /\ Clients
        BY <3>2, LateStays DEF LoneClient
      <4>2. Alone' /\ Clients'
        BY <2>1, <3>2, <4>1, AloneStep, ClientsStep
      <4>3. QED
        BY <4>2 DEF LoneClient
    <3>3. QED
      BY <3>1, <3>2
  <2>5. Fresh'
    BY <2>1, FreshStep
  <2>6. Served'
    BY <2>1, ServedStep
  <2>7. QED
    BY <2>1, <2>2, <2>3, <2>4, <2>5, <2>6
<1>2. QED
  BY <1>1, InvInit, PTL DEF Spec

\* Every variable of the monitor keeps its range.
THEOREM TypeCorrect == Spec => []TypeOK
<1>1. IInv => TypeOK
  BY DEF IInv
<1>2. QED
  BY <1>1, Inductive, PTL

\* Two clients never hold one control box (start() waits for the thread before it, _release_api

\* hangs up what was published), unless a long wait ran out.
THEOREM OneClientPerBox == Spec => []OneClient
<1>1. IInv => OneClient
  <2> SUFFICES ASSUME IInv, ~late, NEW c \in open, NEW d \in open PROVE c = d
    BY DEF OneClient
  <2>1. Alone /\ Clients
    BY DEF IInv, LoneClient
  <2>2. CASE \E g \in Gens : pc[g] \in {"dialled", "hangup"}
    <3>1. PICK g \in Gens : pc[g] \in {"dialled", "hangup"}
      BY <2>2
    <3>2. api = NoClient /\ lheld = NoClient
      BY <2>1, <3>1 DEF Clients
    <3>3. \A h \in Gens : pc[h] \in {"dialled", "hangup"} => h = g
      BY <2>1, <3>1 DEF Alone, Lives
    <3>4. open \subseteq 1 .. MaxClients
      BY DEF IInv, TypeOK
    <3>5. c \notin {api, lheld} /\ d \notin {api, lheld}
      BY <3>2, <3>4, MonitorAssumption DEF NoClient
    <3>6. QED
      BY <2>1, <3>3, <3>5 DEF Clients
  <2>3. CASE ~ \E g \in Gens : pc[g] \in {"dialled", "hangup"}
    <3>1. c \in {api, lheld} /\ d \in {api, lheld}
      BY <2>1, <2>3 DEF Clients
    <3>2. open \subseteq 1 .. MaxClients
      BY DEF IInv, TypeOK
    <3>3. c # NoClient /\ d # NoClient
      BY <3>2, MonitorAssumption DEF NoClient
    <3>4. QED
      BY <2>1, <3>1, <3>3 DEF Clients
  <2>4. QED
    BY <2>2, <2>3
<1>2. QED
  BY <1>1, Inductive, PTL

\* Where stop() or disconnect() returned True nothing is connected and no thread lives; and in

\* any case no maintenance operation writes any more.
THEOREM HandOverIsReal == Spec => []HandedOver
<1>1. IInv => HandedOver
  <2> SUFFICES ASSUME IInv, AtRest, ~late PROVE /\ \A g \in Gens : pc[g] \notin {"write", "follow"}
                                                /\ released => open = {} /\ \A g \in Gens : ~Alive(g)
    BY DEF HandedOver
  <2>1. Alone /\ Clients /\ Threads /\ Rest
    BY DEF IInv, LoneClient
  <2>2. Given /\ Cleared
    BY DEF AtRest, Cleared, Given, Waited
  <2>3. \A g \in Gens : pc[g] \notin {"write", "follow"}
    BY <2>1, <2>2 DEF Alone, Threads, OpPcs
  <2>4. ASSUME released PROVE open = {} /\ \A g \in Gens : ~Alive(g)
    <3>1. \A g \in Gens : ~Lives(g)
      BY <2>1, <2>2, <2>4 DEF Alone
    <3>2. api = NoClient /\ lheld = NoClient
      BY <2>1, <2>2 DEF Rest, AtRest
    <3>3. open \subseteq 1 .. MaxClients
      BY DEF IInv, TypeOK
    <3>4. \A c \in open : c # NoClient
      BY <3>3, MonitorAssumption DEF NoClient
    <3>5. \A c \in open : FALSE
      BY <2>1, <3>1, <3>2, <3>4 DEF Clients, Lives
    <3>6. QED
      BY <3>1, <3>5 DEF Alive, Lives
  <2>5. QED
    BY <2>3, <2>4
<1>2. QED
  BY <1>1, Inductive, PTL

\* A thread that outlives its shutdown publishes no status, no client and answers no request.
THEOREM SilentAtRest == Spec => []RestsSilently
<1>1. IInv => RestsSilently
  BY DEF IInv, Rest, RestsSilently, AtRest, Cleared, Given, Waited
<1>2. QED
  BY <1>1, Inductive, PTL

\* The step of HomingOnFreshPosture.
Swept == \A g \in Gens : pc[g] = "check" /\ pc'[g] = "write" /\ job[g] \in Homing
                           => got[g] = "checked"

\* Only CheckPasses lets an operation write, and Fresh says whose sample it judged.
LEMMA SweepStep == IInv /\ [Next]_vars => Swept
<1> SUFFICES ASSUME TypeOK, Fresh, [Next]_vars PROVE Swept
  BY DEF IInv
<1> USE DEF Goto, thrVars
<1>0. pc \in [Gens -> PcSet]
  BY DEF TypeOK
<1>1. ASSUME NEW g \in Gens, Loop(g) PROVE Swept
  BY <1>1, <1>0 DEF Loop, Current, Swept
<1>2. ASSUME NEW g \in Gens, Fetch(g) PROVE Swept
  BY <1>2, <1>0 DEF Fetch, Swept
<1>3. ASSUME NEW g \in Gens, Dial(g) PROVE Swept
  BY <1>3, <1>0 DEF Dial, Publishes, Swept
<1>4. ASSUME NEW g \in Gens, DialOk(g) PROVE Swept
  BY <1>4, <1>0 DEF DialOk, Swept
<1>5. ASSUME NEW g \in Gens, DialFails(g) PROVE Swept
  BY <1>5, <1>0 DEF DialFails, Publishes, Swept
<1>6. ASSUME NEW g \in Gens, Adopt(g) PROVE Swept
  BY <1>6, <1>0 DEF Adopt, Publishes, Current, Swept
<1>7. ASSUME NEW g \in Gens, HangUp(g) PROVE Swept
  BY <1>7, <1>0 DEF HangUp, Swept
<1>8. ASSUME NEW g \in Gens, TakeRequest(g) PROVE Swept
  BY <1>8, <1>0 DEF TakeRequest, Current, Swept
<1>9. ASSUME NEW g \in Gens, NothingToDo(g) PROVE Swept
  BY <1>9, <1>0 DEF NothingToDo, Swept
<1>10. ASSUME NEW g \in Gens, PollReads(g) PROVE Swept
  BY <1>10, <1>0 DEF PollReads, Swept
<1>11. ASSUME NEW g \in Gens, PollFails(g) PROVE Swept
  BY <1>11, <1>0 DEF PollFails, Publishes, AfterPoll, Swept
<1>12. ASSUME NEW g \in Gens, Publish(g) PROVE Swept
  BY <1>12, <1>0 DEF Publish, Publishes, AfterPoll, Current, Swept
<1>13. ASSUME NEW g \in Gens, CheckRefuses(g) PROVE Swept
  BY <1>13, <1>0 DEF CheckRefuses, Current, Swept
<1>14. ASSUME NEW g \in Gens, CheckPasses(g) PROVE Swept
  <2>1. Current(g) /\ (job[g] \in Homing => newer[g] /\ sample = "checked")
    BY <1>14 DEF CheckPasses, PostureHeld
  <2>2. gen = g
    BY <2>1 DEF Current
  <2>3. pc[g] = "check" /\ pc' = [pc EXCEPT ![g] = "write"]
    BY <1>14 DEF CheckPasses
  <2>4. job[g] \in Homing => got[g] = "checked"
    BY <2>1, <2>2, <2>3 DEF Fresh
  <2>5. QED
    BY <2>3, <2>4, <1>0 DEF Swept
<1>15. ASSUME NEW g \in Gens, FirstWrite(g) PROVE Swept
  BY <1>15, <1>0 DEF FirstWrite, Swept
<1>16. ASSUME NEW g \in Gens, LastWrites(g) PROVE Swept
  BY <1>16, <1>0 DEF LastWrites, Current, Swept
<1>17. ASSUME NEW g \in Gens, Judge(g) PROVE Swept
  BY <1>17, <1>0 DEF Judge, Swept
<1>18. ASSUME NEW g \in Gens, Raises(g) PROVE Swept
  BY <1>18, <1>0 DEF Raises, Swept
<1>19. ASSUME NEW g \in Gens, Finally(g) PROVE Swept
  BY <1>19, <1>0 DEF Finally, Swept
<1>20. ASSUME NEW g \in Gens, Drop(g) PROVE Swept
  BY <1>20, <1>0 DEF Drop, Publishes, FailPending, Swept
<1>21. CASE Start
  BY <1>21, <1>0 DEF Start, Alive, Swept
<1>22. CASE StartJoins
  BY <1>22, <1>0 DEF StartJoins, Alive, InSdk, Swept
<1>23. CASE Spawn
  BY <1>23, <1>0 DEF Spawn, Swept
<1>24. ASSUME NEW s \in Ends, Shutdown(s) PROVE Swept
  BY <1>24, <1>0 DEF Shutdown, Swept
<1>25. CASE ShutdownFails
  BY <1>25, <1>0 DEF ShutdownFails, FailPending, Swept
<1>26. CASE Join
  BY <1>26, <1>0 DEF Join, Alive, InSdk, Swept
<1>27. CASE InFlight
  BY <1>27, <1>0 DEF InFlight, Alive, Swept
<1>28. CASE JoinOp
  BY <1>28, <1>0 DEF JoinOp, Alive, InSdk, Swept
<1>29. CASE Forget
  BY <1>29, <1>0 DEF Forget, FailPending, Swept
<1>30. CASE ShutdownHangsUp
  BY <1>30, <1>0 DEF ShutdownHangsUp, Swept
<1>31. CASE ShutdownEnds
  BY <1>31, <1>0 DEF ShutdownEnds, Alive, Swept
<1>32. ASSUME NEW r \in Requests, Ask(r) PROVE Swept
  BY <1>32, <1>0 DEF Ask, Swept
<1>33. ASSUME NEW r \in Requests, Answered(r) PROVE Swept
  BY <1>33, <1>0 DEF Answered, Swept
<1>34. ASSUME NEW r \in Requests, TimesOut(r) PROVE Swept
  BY <1>34, <1>0 DEF TimesOut, Swept
<1>35. CASE BoxLost
  BY <1>35, <1>0 DEF BoxLost, Swept
<1>36. CASE ArmMoves
  BY <1>36, <1>0 DEF ArmMoves, Swept
<1>37. CASE UNCHANGED vars
  BY <1>37 DEF vars, Swept
<1>38. QED
  BY <1>1, <1>2, <1>3, <1>4, <1>5, <1>6, <1>7, <1>8, <1>9, <1>10, <1>11, <1>12, <1>13, <1>14,
     <1>15, <1>16, <1>17, <1>18, <1>19, <1>20, <1>21, <1>22, <1>23, <1>24, <1>25, <1>26, <1>27,
     <1>28, <1>29, <1>30, <1>31, <1>32, <1>33, <1>34, <1>35, <1>36, <1>37 DEF Next, PollThread,
     Lifecycle, Finish

\* home_rail moves the carriage only if its own thread has read the arm, after the request was

\* taken, where the sweep was checked.
THEOREM HomingIsChecked == Spec => HomingOnFreshPosture
<1>1. IInv /\ [Next]_vars => [Swept]_vars
  BY SweepStep
<1>2. QED
  BY <1>1, Inductive, PTL DEF Spec, HomingOnFreshPosture, Swept

\* Every step of the monitor is a step of the abstract channel, or leaves it alone.
LEMMA ChannelStep == IInv /\ [Next]_vars => [Channel!Next]_(Channel!chanVars)
<1> SUFFICES ASSUME TypeOK, Threads, Served, [Next]_vars PROVE [Channel!Next]_(Channel!chanVars)
  BY DEF IInv
<1> USE DEF reqVars
<1>0. /\ job \in [Gens -> Requests \cup {NoRequest}] /\ writes \in [Requests -> 0 .. 2]
      /\ told \in [Requests -> {"idle", "waiting", "refused", "failed", "done", "timeout"}]
      /\ outcome \in [Requests -> {"none", "refused", "failed", "done"}]
  BY DEF TypeOK
<1>1. ASSUME NEW g \in Gens, Loop(g) PROVE [Channel!Next]_(Channel!chanVars)
  BY <1>1 DEF Loop, Current, Channel!chanVars
<1>2. ASSUME NEW g \in Gens, Fetch(g) PROVE [Channel!Next]_(Channel!chanVars)
  BY <1>2 DEF Fetch, Channel!chanVars
<1>3. ASSUME NEW g \in Gens, Dial(g) PROVE [Channel!Next]_(Channel!chanVars)
  BY <1>3 DEF Dial, Publishes, Channel!chanVars
<1>4. ASSUME NEW g \in Gens, DialOk(g) PROVE [Channel!Next]_(Channel!chanVars)
  BY <1>4 DEF DialOk, Channel!chanVars
<1>5. ASSUME NEW g \in Gens, DialFails(g) PROVE [Channel!Next]_(Channel!chanVars)
  BY <1>5 DEF DialFails, Publishes, Channel!chanVars
<1>6. ASSUME NEW g \in Gens, Adopt(g) PROVE [Channel!Next]_(Channel!chanVars)
  BY <1>6 DEF Adopt, Publishes, Current, Channel!chanVars
<1>7. ASSUME NEW g \in Gens, HangUp(g) PROVE [Channel!Next]_(Channel!chanVars)
  BY <1>7 DEF HangUp, Channel!chanVars
<1>8. ASSUME NEW g \in Gens, TakeRequest(g) PROVE [Channel!Next]_(Channel!chanVars)
  BY <1>8 DEF TakeRequest, Current, Channel!chanVars
<1>9. ASSUME NEW g \in Gens, NothingToDo(g) PROVE [Channel!Next]_(Channel!chanVars)
  BY <1>9 DEF NothingToDo, Channel!chanVars
<1>10. ASSUME NEW g \in Gens, PollReads(g) PROVE [Channel!Next]_(Channel!chanVars)
  BY <1>10 DEF PollReads, Channel!chanVars
<1>11. ASSUME NEW g \in Gens, PollFails(g) PROVE [Channel!Next]_(Channel!chanVars)
  BY <1>11 DEF PollFails, Publishes, AfterPoll, Channel!chanVars
<1>12. ASSUME NEW g \in Gens, Publish(g) PROVE [Channel!Next]_(Channel!chanVars)
  BY <1>12 DEF Publish, Publishes, AfterPoll, Current, Channel!chanVars
<1>13. ASSUME NEW g \in Gens, CheckRefuses(g) PROVE [Channel!Next]_(Channel!chanVars)
  BY <1>13 DEF CheckRefuses, Current, Channel!chanVars
<1>14. ASSUME NEW g \in Gens, CheckPasses(g) PROVE [Channel!Next]_(Channel!chanVars)
  BY <1>14 DEF CheckPasses, Current, PostureHeld, Channel!chanVars
<1>15. ASSUME NEW g \in Gens, FirstWrite(g) PROVE [Channel!Next]_(Channel!chanVars)
  <2>1. job[g] \in Requests /\ told[job[g]] \in {"waiting", "timeout"} /\ writes[job[g]] = 0
    BY <1>15, <1>0 DEF FirstWrite, Served, Threads, Open, InOp, OpPcs
  <2>2. writes' = [writes EXCEPT ![job[g]] = @ + 1] /\ UNCHANGED told
    BY <1>15, <2>1, <1>0 DEF FirstWrite
  <2>3. Channel!Write(job[g])
    BY <2>1, <2>2 DEF Channel!Write
  <2>4. QED
    BY <2>1, <2>3 DEF Channel!Next
<1>16. ASSUME NEW g \in Gens, LastWrites(g) PROVE [Channel!Next]_(Channel!chanVars)
  <2>1. job[g] \in Requests /\ told[job[g]] \in {"waiting", "timeout"} /\ writes[job[g]] = 1
    BY <1>16, <1>0 DEF LastWrites, Served, Threads, Open, InOp, OpPcs
  <2>2. writes' = [writes EXCEPT ![job[g]] = @ + 1] /\ UNCHANGED told
    BY <1>16, <2>1, <1>0 DEF LastWrites
  <2>3. Channel!Write(job[g])
    BY <2>1, <2>2 DEF Channel!Write
  <2>4. QED
    BY <2>1, <2>3 DEF Channel!Next
<1>17. ASSUME NEW g \in Gens, Judge(g) PROVE [Channel!Next]_(Channel!chanVars)
  BY <1>17 DEF Judge, Channel!chanVars
<1>18. ASSUME NEW g \in Gens, Raises(g) PROVE [Channel!Next]_(Channel!chanVars)
  BY <1>18 DEF Raises, Channel!chanVars
<1>19. ASSUME NEW g \in Gens, Finally(g) PROVE [Channel!Next]_(Channel!chanVars)
  BY <1>19 DEF Finally, Channel!chanVars
<1>20. ASSUME NEW g \in Gens, Drop(g) PROVE [Channel!Next]_(Channel!chanVars)
  BY <1>20 DEF Drop, Publishes, FailPending, Channel!chanVars
<1>21. CASE Start
  BY <1>21 DEF Start, Alive, Channel!chanVars
<1>22. CASE StartJoins
  BY <1>22 DEF StartJoins, Alive, InSdk, Channel!chanVars
<1>23. CASE Spawn
  BY <1>23 DEF Spawn, Channel!chanVars
<1>24. ASSUME NEW s \in Ends, Shutdown(s) PROVE [Channel!Next]_(Channel!chanVars)
  BY <1>24 DEF Shutdown, Channel!chanVars
<1>25. CASE ShutdownFails
  BY <1>25 DEF ShutdownFails, FailPending, Channel!chanVars
<1>26. CASE Join
  BY <1>26 DEF Join, Alive, InSdk, Channel!chanVars
<1>27. CASE InFlight
  BY <1>27 DEF InFlight, Alive, Channel!chanVars
<1>28. CASE JoinOp
  BY <1>28 DEF JoinOp, Alive, InSdk, Channel!chanVars
<1>29. CASE Forget
  BY <1>29 DEF Forget, FailPending, Channel!chanVars
<1>30. CASE ShutdownHangsUp
  BY <1>30 DEF ShutdownHangsUp, Channel!chanVars
<1>31. CASE ShutdownEnds
  BY <1>31 DEF ShutdownEnds, Alive, Channel!chanVars
<1>32. ASSUME NEW r \in Requests, Ask(r) PROVE [Channel!Next]_(Channel!chanVars)
  <2>1. Channel!Ask(r)
    BY <1>32 DEF Ask, Channel!Ask
  <2>2. QED
    BY <2>1 DEF Channel!Next
<1>33. ASSUME NEW r \in Requests, Answered(r) PROVE [Channel!Next]_(Channel!chanVars)
  <2>1. /\ outcome[r] \in {"refused", "failed", "done"}
        /\ outcome[r] = "refused" => writes[r] = 0
        /\ outcome[r] = "done" => writes[r] = 2
    BY <1>33, <1>0 DEF Answered, Served
  <2>2. Channel!Tell(r, outcome[r])
    BY <1>33, <2>1 DEF Answered, Channel!Tell
  <2>3. QED
    BY <2>1, <2>2 DEF Channel!Next, Channel!Answers
<1>34. ASSUME NEW r \in Requests, TimesOut(r) PROVE [Channel!Next]_(Channel!chanVars)
  <2>1. Channel!Tell(r, "timeout")
    BY <1>34 DEF TimesOut, Channel!Tell
  <2>2. QED
    BY <2>1 DEF Channel!Next, Channel!Answers
<1>35. CASE BoxLost
  BY <1>35 DEF BoxLost, Channel!chanVars
<1>36. CASE ArmMoves
  BY <1>36 DEF ArmMoves, Channel!chanVars
<1>37. CASE UNCHANGED vars
  BY <1>37 DEF vars, Channel!chanVars
<1>38. QED
  BY <1>1, <1>2, <1>3, <1>4, <1>5, <1>6, <1>7, <1>8, <1>9, <1>10, <1>11, <1>12, <1>13, <1>14,
     <1>15, <1>16, <1>17, <1>18, <1>19, <1>20, <1>21, <1>22, <1>23, <1>24, <1>25, <1>26, <1>27,
     <1>28, <1>29, <1>30, <1>31, <1>32, <1>33, <1>34, <1>35, <1>36, <1>37 DEF Next, PollThread,
     Lifecycle, Finish

\* Refinement: the monitor implements MaintenanceChannel, through losses, shutdowns, restarts,
\* long waits that run out and callers that give up.
THEOREM ChannelKept == Spec => ChannelPromise
<1>1. Init => Channel!Init
  BY DEF Init, Channel!Init
<1>2. QED
  BY <1>1, ChannelStep, Inductive, PTL DEF Spec, ChannelPromise, Channel!Spec
=============================================================================
