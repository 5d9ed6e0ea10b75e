----------------------------- MODULE WorkcellProofs -----------------------------
(***************************************************************************)
(* Proofs about Workcell and ArmSession, for every set of arms, of arms    *)
(* that may fail and of observed arms, and every workcell made of them.    *)
(*                                                                         *)
(* The invariant IInv relates four threads for each arm (the one that      *)
(* connects it, that of its session, a caller of clear_errors(), the one   *)
(* that disconnects it) to the client and the brakes at the box and to what*)
(* start() reports.  Its core is Handover: a session is torn down by nobody*)
(* but the shutdown whose turn it is, and is at rest when that is over.  It*)
(* holds until a bounded join runs out inside an SDK call; Untouched, which*)
(* keeps the brakes of a refused arm, holds beyond that.                   *)
(***************************************************************************)
EXTENDS Workcell, TLAPS

\* The steps before motion_enable() at which connect() can refuse an arm, and its steps
\* until then; those until the threads of the session run.
Early == {"network", "connect", "identity", "rail"}
Opening == {"identity", "clear", "rail", "enable"}
Starting == Opening \cup {"gripper", "servo", "threads"}

\* Nothing of a session is left, at the box or in the driver.
AtRest(a) ==
  /\ ~running[a] /\ client[a] # "open" /\ wpc[a] \in {"idle", "lock", "await"}
  /\ released[a] => Excused(a)

\* A read-only session keeps to its own steps: it never enables, recovers or hands back.
ObserverPcs ==
  \A a \in Observed : /\ cpc[a] \in {"none", "dial", "subscribe", "observe", "poller", "end", "crashed"}
                      /\ wpc[a] \in {"idle", "poll"} /\ dpc[a] \in {"idle", "stop", "join", "close"}
                      /\ ccp[a] = "idle" /\ ~setting[a]

\* and the session of an own arm to the others.
OwnPcs ==
  \A a \in Arms \ Observed : cpc[a] \notin {"subscribe", "observe", "poller"} /\ wpc[a] # "poll"

\* Nobody observes an arm of the workcell.
Cell == Members \subseteq Arms \ Observed

\* An arm that is being refused, or was, before it is enabled: no thread of a session runs
\* that could release its brakes, and nobody clears its errors.
Untouched == \A a \in Arms \ Observed :
  cpc[a] \in {"boot", "dial"} \cup Opening \/ (cpc[a] = "end" /\ err[a] \in Early)
    => /\ ~running[a] /\ wpc[a] \in {"idle", "await", "resume"} /\ ccp[a] = "idle"
       /\ released[a] => Excused(a)

\* While the network is set up nothing is left of the sessions before.
Handling == mpc = "network" => \A a \in Members :
  /\ AtRest(a) /\ ~Connecting(a) /\ ~api[a] /\ dpc[a] = "idle"
  /\ wpc[a] # "lock" /\ ccp[a] = "idle"

\* Errors are cleared for arms that start() has connected.
Callers == \A a \in Members :
  /\ ccp[a] # "idle" => connected[a]
  /\ connected[a] => cpc[a] = "end" /\ err[a] = "none" /\ mpc # "network"

\* An error belongs to a connect() that has ended with it.
Errs == \A a \in Arms \ Observed :
  /\ mpc = "network" /\ a \in Members => err[a] = "none"
  /\ Connecting(a) => err[a] = "none"
  /\ err[a] # "none" => cpc[a] = "end"

\* What a session holds at which step: a client as long as _api is set, running threads
\* only between StartThreads and StopThreads, brakes engaged once HandBack is done, unless it
\* was refused or a caller of clear_errors() is to release them again.
Sessions == \A a \in Arms \ Observed :
  /\ api[a] => client[a] = "open" /\ dpc[a] = "idle" /\ cpc[a] \notin {"none", "boot", "dial"}
  /\ dpc[a] # "idle" => client[a] = "open" /\ ~Connecting(a)
  /\ dpc[a] \in {"join", "handback", "close"} => ~running[a]
  /\ dpc[a] \in {"handback", "close"} => wpc[a] \in {"idle", "lock", "await"}
  /\ dpc[a] = "close" /\ (released[a] \/ ccp[a] = "enable") => Excused(a)
  /\ Connecting(a) => dpc[a] = "idle" /\ (api[a] <=> cpc[a] \notin {"boot", "dial"})
  /\ cpc[a] \in {"boot", "dial"} \cup Starting => ~running[a] /\ wpc[a] \in {"idle", "await", "resume"}
  /\ dpc[a] = "idle" /\ ~api[a] => AtRest(a)

\* What the thread of start() and stop() has still in front of it: connect threads run only
\* under the join of the bring-up, and shutdown() disconnects every arm that has a client.
Turns ==
  /\ \A a \in Members : Connecting(a) => mpc = "joining"
  /\ \A a \in Members : dpc[a] # "idle" => mpc = "stopping" /\ turn # <<>> /\ a = Head(turn)
  /\ mpc = "stopping" => /\ \A a \in Members : api[a] => \E i \in DOMAIN turn : turn[i] = a
                         /\ \A i \in DOMAIN turn : turn[i] \in Members
  /\ mpc \in {"network", "joining", "stopping"} => ~stopped
  /\ mpc = "up" /\ stopped => \A a \in Members : ~api[a]
  /\ \A a \in Arms \ Observed : a \notin Members => cpc[a] = "none" /\ ~api[a] /\ dpc[a] = "idle"

\* Both hold until a bounded join runs out inside an SDK call.
Handover == late \/ (Sessions /\ Turns)

\* An arm is reported connected exactly when its connect() ended without an error, and
\* until a shutdown it then has a client, unless an SDK exception killed that thread.
Reports == late \/ crashed \/ \A a \in Members :
  /\ mpc = "network" => ~connected[a]
  /\ Connecting(a) => ~connected[a]
  /\ mpc \in {"joining", "up", "stopping"} => /\ connected[a] <=> cpc[a] = "end" /\ err[a] = "none"
                                              /\ cpc[a] \notin {"none", "crashed"}
  /\ mpc \in {"joining", "up"} /\ connected[a] /\ ~stopped => api[a]

\* What Reverse does to a sequence: the same members.
LEMMA Reversed ==
  ASSUME NEW S, NEW s \in Seq(S)
  PROVE  /\ Reverse(s) \in Seq(S) /\ DOMAIN Reverse(s) = DOMAIN s
         /\ \A i \in DOMAIN s : \E j \in DOMAIN s : Reverse(s)[j] = s[i]
         /\ \A i \in DOMAIN s : \E j \in DOMAIN s : Reverse(s)[i] = s[j]
<1>1. DOMAIN s = 1 .. Len(s) /\ Len(s) \in Nat
  OBVIOUS
<1>2. Reverse(s) = [i \in 1 .. Len(s) |-> s[(Len(s) - i) + 1]]
  BY DEF Reverse
<1>3. \A i \in 1 .. Len(s) : (Len(s) - i) + 1 \in 1 .. Len(s) /\ (Len(s) - ((Len(s) - i) + 1)) + 1 = i
  BY <1>1
<1>4. Reverse(s) \in Seq(S) /\ DOMAIN Reverse(s) = 1 .. Len(s)
  BY <1>1, <1>2, <1>3
<1>5. \A i \in DOMAIN s : \E j \in DOMAIN s : Reverse(s)[j] = s[i]
  <2>1. TAKE i \in DOMAIN s
  <2>2. (Len(s) - i) + 1 \in DOMAIN s /\ Reverse(s)[(Len(s) - i) + 1] = s[i]
    BY <1>1, <1>2, <1>3
  <2>3. QED
    BY <2>2
<1>6. \A i \in DOMAIN s : \E j \in DOMAIN s : Reverse(s)[i] = s[j]
  <2>1. TAKE i \in DOMAIN s
  <2>2. (Len(s) - i) + 1 \in DOMAIN s /\ Reverse(s)[i] = s[(Len(s) - i) + 1]
    BY <1>1, <1>2, <1>3
  <2>3. QED
    BY <2>2
<1>7. QED
  BY <1>1, <1>4, <1>5, <1>6

\* What Tail does to a sequence: only its head is missing.
LEMMA Tailed ==
  ASSUME NEW S, NEW s \in Seq(S), s # <<>>
  PROVE  /\ Tail(s) \in Seq(S)
         /\ \A i \in DOMAIN s : s[i] = Head(s) \/ \E j \in DOMAIN Tail(s) : Tail(s)[j] = s[i]
         /\ \A j \in DOMAIN Tail(s) : \E i \in DOMAIN s : Tail(s)[j] = s[i]
<1>1. DOMAIN s = 1 .. Len(s) /\ Len(s) \in Nat \ {0} /\ DOMAIN Tail(s) = 1 .. Len(s) - 1
  OBVIOUS
<1>2. \A j \in 1 .. Len(s) - 1 : Tail(s)[j] = s[j + 1]
  OBVIOUS
<1>3. \A i \in DOMAIN s : s[i] = Head(s) \/ \E j \in DOMAIN Tail(s) : Tail(s)[j] = s[i]
  <2>1. TAKE i \in DOMAIN s
  <2>2. CASE i = 1
    BY <2>2
  <2>3. CASE i # 1
    <3>1. i - 1 \in DOMAIN Tail(s) /\ Tail(s)[i - 1] = s[i]
      BY <1>1, <1>2, <2>3
    <3>2. QED
      BY <3>1
  <2>4. QED
    BY <2>2, <2>3
<1>4. \A j \in DOMAIN Tail(s) : \E i \in DOMAIN s : Tail(s)[j] = s[i]
  <2>1. TAKE j \in DOMAIN Tail(s)
  <2>2. j + 1 \in DOMAIN s /\ Tail(s)[j] = s[j + 1]
    BY <1>1, <1>2
  <2>3. QED
    BY <2>2
<1>5. QED
  BY <1>3, <1>4

\* The arms of a workcell and those observed do not change.
LEMMA CellFixed == [Next]_vars => Members' = Members /\ watched' = watched
<1> SUFFICES ASSUME [Next]_vars PROVE Members' = Members /\ watched' = watched
  OBVIOUS
<1> USE DEF cellVars, Members
<1>1. CASE BringUp
  BY <1>1 DEF BringUp
<1>2. CASE NetworkStage
  BY <1>2 DEF NetworkStage
<1>3. CASE NetworkRaises
  BY <1>3 DEF NetworkRaises
<1>4. CASE JoinBringUp
  BY <1>4 DEF JoinBringUp, Connecting
<1>5. CASE Shutdown
  BY <1>5 DEF Shutdown
<1>6. CASE ShutdownDisconnects
  BY <1>6 DEF ShutdownDisconnects, Disconnect
<1>7. CASE ShutdownEnds
  BY <1>7 DEF ShutdownEnds
<1>8. ASSUME NEW a \in Arms, Boot(a) PROVE Members' = Members /\ watched' = watched
  BY <1>8 DEF Boot
<1>9. ASSUME NEW a \in Arms, ArmConnects(a) PROVE Members' = Members /\ watched' = watched
  <2>0. /\ UNCHANGED <<mpc, order, watched, turn, network, connected, stopped>>
        /\ crashed' = (crashed \/ cpc'[a] = "crashed")
    BY <1>9 DEF ArmConnects
  <2>1. CASE Dial(a)
    BY <2>1, <2>0 DEF Dial
  <2>2. CASE Identity(a)
    BY <2>2, <2>0 DEF Identity
  <2>3. CASE Clear(a)
    BY <2>3, <2>0 DEF Clear
  <2>4. CASE Rail(a)
    BY <2>4, <2>0 DEF Rail
  <2>5. CASE Enable(a)
    BY <2>5, <2>0 DEF Enable, Open
  <2>6. CASE Gripper(a)
    BY <2>6, <2>0 DEF Gripper
  <2>7. CASE ServoMode(a)
    BY <2>7, <2>0 DEF ServoMode
  <2>8. CASE StartThreads(a)
    BY <2>8, <2>0 DEF StartThreads
  <2>9. CASE Streams(a)
    BY <2>9, <2>0 DEF Streams
  <2>10. CASE ConnectRaises(a)
    BY <2>10, <2>0 DEF ConnectRaises
  <2>11. CASE Subscribe(a)
    BY <2>11, <2>0 DEF Subscribe
  <2>12. CASE Observe(a)
    BY <2>12, <2>0 DEF Observe
  <2>13. CASE StartPoller(a)
    BY <2>13, <2>0 DEF StartPoller
  <2>14. QED
    BY <1>9, <2>1, <2>2, <2>3, <2>4, <2>5, <2>6, <2>7, <2>8, <2>9, <2>10, <2>11, <2>12,
       <2>13 DEF ArmConnects, Connect
<1>10. ASSUME NEW a \in Arms, FreshReport(a) PROVE Members' = Members /\ watched' = watched
  BY <1>10 DEF FreshReport
<1>11. ASSUME NEW a \in Arms, Session(a) PROVE Members' = Members /\ watched' = watched
  <2>0. UNCHANGED cellVars
    BY <1>11 DEF Session
  <2>1. CASE Recover(a)
    BY <2>1, <2>0 DEF Recover
  <2>2. CASE RecoverEnables(a)
    BY <2>2, <2>0 DEF RecoverEnables, Open
  <2>3. CASE RecoverSetsMode(a)
    BY <2>3, <2>0 DEF RecoverSetsMode
  <2>4. CASE RecoverReads(a)
    BY <2>4, <2>0 DEF RecoverReads
  <2>5. CASE RecoverFails(a)
    BY <2>5, <2>0 DEF RecoverFails
  <2>6. CASE RecoverResumes(a)
    BY <2>6, <2>0 DEF RecoverResumes
  <2>7. CASE TakesSetting(a)
    BY <2>7, <2>0 DEF TakesSetting
  <2>8. CASE AppliesSetting(a)
    BY <2>8, <2>0 DEF AppliesSetting
  <2>9. CASE Polls(a)
    BY <2>9, <2>0 DEF Polls
  <2>10. CASE StopThreads(a)
    BY <2>10, <2>0 DEF StopThreads
  <2>11. CASE JoinThreads(a)
    BY <2>11, <2>0 DEF JoinThreads
  <2>12. CASE HandBack(a)
    BY <2>12, <2>0 DEF HandBack, Open, MayFail
  <2>13. CASE Close(a)
    BY <2>13, <2>0 DEF Close
  <2>14. CASE Faults(a)
    BY <2>14, <2>0 DEF Faults
  <2>15. CASE RequestSetting(a)
    BY <2>15, <2>0 DEF RequestSetting
  <2>16. CASE RecoverBegins(a)
    BY <2>16, <2>0 DEF RecoverBegins
  <2>17. CASE UserClears(a)
    BY <2>17, <2>0 DEF UserClears, ClearErrors
  <2>18. QED
    BY <1>11, <2>1, <2>2, <2>3, <2>4, <2>5, <2>6, <2>7, <2>8, <2>9, <2>10, <2>11, <2>12, <2>13,
       <2>14, <2>15, <2>16, <2>17 DEF Session, Worker, Recovery, Disconnecting
<1>12. ASSUME NEW a \in Arms, ObserverConnects(a) PROVE Members' = Members /\ watched' = watched
  BY <1>12 DEF ObserverConnects
<1>13. ASSUME NEW a \in Arms, ObserverLeaves(a) PROVE Members' = Members /\ watched' = watched
  BY <1>13 DEF ObserverLeaves, Disconnect, Connecting
<1>14. CASE UNCHANGED vars
  BY <1>14 DEF vars, sessionVars
<1>15. QED
  BY <1>1, <1>2, <1>3, <1>4, <1>5, <1>6, <1>7, <1>8, <1>9, <1>10, <1>11, <1>12, <1>13,
     <1>14 DEF Next

\* A step of a recovery, on whichever thread, moves that thread only.
LEMMA RecoversType ==
  ASSUME TypeOK, NEW a \in Arms, NEW l, NEW m \in CcpSet, Recovers(a, l, m)
  PROVE  wpc' \in [Arms -> WpcSet] /\ ccp' \in [Arms -> CcpSet]
<1>1. m \in WpcSet
  BY DEF CcpSet, WpcSet
<1>2. wpc \in [Arms -> WpcSet] /\ ccp \in [Arms -> CcpSet]
  BY DEF TypeOK
<1>3. \/ wpc' = [wpc EXCEPT ![a] = m] /\ ccp' = ccp
      \/ ccp' = [ccp EXCEPT ![a] = m] /\ wpc' = wpc
  BY DEF Recovers, Go
<1>4. QED
  BY <1>1, <1>2, <1>3

\* TypeOK is preserved by every step of a recovery.
LEMMA RecoveryType ==
  ASSUME TypeOK, NEW a \in Arms, Recovery(a), UNCHANGED cellVars
  PROVE  TypeOK'
<1> USE DEF cellVars, boxVars, driverVars
<1>1. /\ released \in [Arms -> BOOLEAN] /\ phase \in [Arms -> PhaseSet]
      /\ \A p \in {"LATCHED", "RECOVERING", "STREAMING"} : [phase EXCEPT ![a] = p] \in [Arms -> PhaseSet]
  BY DEF TypeOK, PhaseSet
<1>2. {"idle", "enable", "mode", "await", "resume"} \subseteq CcpSet
  BY DEF CcpSet
<1>3. CASE RecoverBegins(a)
  <2>1. wpc' \in [Arms -> WpcSet] /\ ccp' \in [Arms -> CcpSet]
    BY <1>2, <1>3, RecoversType DEF RecoverBegins
  <2>2. phase' \in [Arms -> PhaseSet]
    BY <1>1, <1>3 DEF RecoverBegins, Phase
  <2>3. QED
    BY <1>3, <2>1, <2>2 DEF RecoverBegins, TypeOK
<1>4. CASE RecoverEnables(a)
  <2>1. wpc' \in [Arms -> WpcSet] /\ ccp' \in [Arms -> CcpSet]
    BY <1>2, <1>4, RecoversType DEF RecoverEnables
  <2>2. released' \in [Arms -> BOOLEAN]
    BY <1>1, <1>4 DEF RecoverEnables, Open
  <2>3. QED
    BY <1>4, <2>1, <2>2 DEF RecoverEnables, TypeOK
<1>5. CASE RecoverSetsMode(a)
  <2>1. wpc' \in [Arms -> WpcSet] /\ ccp' \in [Arms -> CcpSet]
    BY <1>2, <1>5, RecoversType DEF RecoverSetsMode
  <2>2. QED
    BY <1>5, <2>1 DEF RecoverSetsMode, TypeOK
<1>6. CASE RecoverReads(a)
  <2>1. wpc' \in [Arms -> WpcSet] /\ ccp' \in [Arms -> CcpSet]
    BY <1>2, <1>6, RecoversType DEF RecoverReads
  <2>2. QED
    BY <1>6, <2>1 DEF RecoverReads, TypeOK
<1>7. CASE RecoverFails(a)
  <2>1. wpc' \in [Arms -> WpcSet] /\ ccp' \in [Arms -> CcpSet]
    BY <1>2, <1>7, RecoversType DEF RecoverFails
  <2>2. phase' \in [Arms -> PhaseSet]
    BY <1>1, <1>7 DEF RecoverFails, Phase
  <2>3. QED
    BY <1>7, <2>1, <2>2 DEF RecoverFails, TypeOK
<1>8. CASE RecoverResumes(a)
  <2>1. wpc' \in [Arms -> WpcSet] /\ ccp' \in [Arms -> CcpSet]
    BY <1>2, <1>8, RecoversType DEF RecoverResumes
  <2>2. phase' \in [Arms -> PhaseSet]
    BY <1>1, <1>8 DEF RecoverResumes, Phase
  <2>3. QED
    BY <1>8, <2>1, <2>2 DEF RecoverResumes, TypeOK
<1>9. QED
  BY <1>3, <1>4, <1>5, <1>6, <1>7, <1>8 DEF Recovery

\* TypeOK is preserved by every step.
LEMMA TypeStep ==
  TypeOK /\ [Next]_vars => TypeOK'
<1> SUFFICES ASSUME TypeOK, [Next]_vars PROVE TypeOK'
  OBVIOUS
<1> USE SessionAssumption DEF To, Phase, Go, At, Fails, Idle, InWrite, Joins, driverVars,
   threadVars, boxVars, cellVars, CpcSet, WpcSet, CcpSet, DpcSet, PhaseSet, ErrSet, HandbackSet,
   MpcSet, NetworkSet, TypeOK
<1>0. /\ cpc \in [Arms -> CpcSet] /\ dpc \in [Arms -> DpcSet] /\ api \in [Arms -> BOOLEAN]
      /\ phase \in [Arms -> PhaseSet] /\ err \in [Arms -> ErrSet]
  BY DEF TypeOK
<1>1. CASE BringUp
  BY <1>1 DEF BringUp
<1>2. CASE NetworkStage
  BY <1>2 DEF NetworkStage
<1>3. CASE NetworkRaises
  BY <1>3 DEF NetworkRaises
<1>4. CASE JoinBringUp
  BY <1>4 DEF JoinBringUp, Connecting
<1>5. CASE Shutdown
  <2>1. Reverse(order) \in Seq(Arms)
    BY Reversed
  <2>2. turn' \in Seq(Arms)
    BY <1>5, <2>1 DEF Shutdown
  <2>3. QED
    BY <1>5, <2>2 DEF Shutdown, sessionVars
<1>6. CASE ShutdownDisconnects
  <2>1. CASE api[Head(turn)] /\ dpc[Head(turn)] = "idle"
    <3>1. dpc' \in [Arms -> DpcSet] /\ api' \in [Arms -> BOOLEAN]
      BY ONLY <1>0, <1>6, <2>1 DEF ShutdownDisconnects, Disconnect, At, DpcSet
    <3>2. QED
      BY <1>6, <2>1, <3>1 DEF ShutdownDisconnects, Disconnect
  <2>2. CASE ~(api[Head(turn)] /\ dpc[Head(turn)] = "idle")
    <3>1. turn' \in Seq(Arms)
      <4>1. turn # <<>> /\ turn' = Tail(turn) /\ turn \in Seq(Arms)
        BY <1>6, <2>2 DEF ShutdownDisconnects
      <4>2. QED
        BY ONLY <4>1
    <3>2. QED
      BY <1>6, <2>2, <3>1 DEF ShutdownDisconnects, sessionVars
  <2>3. QED
    BY <2>1, <2>2
<1>7. CASE ShutdownEnds
  <2>1. mpc' \in MpcSet
    BY <1>7 DEF ShutdownEnds
  <2>2. stopped' \in BOOLEAN
    BY <1>7 DEF ShutdownEnds
  <2>3. QED
    BY <1>7, <2>1, <2>2 DEF ShutdownEnds, sessionVars
<1>8. ASSUME NEW a \in Arms, Boot(a) PROVE TypeOK'
  <2>1. cpc' \in [Arms -> CpcSet]
    <3>1. cpc' = [cpc EXCEPT ![a] = "dial"] \/ cpc' = [cpc EXCEPT ![a] = "end"]
      BY <1>8 DEF Boot
    <3>2. QED
      BY <3>1
  <2>2. err' \in [Arms -> ErrSet]
    BY ONLY <1>0, <1>8 DEF Boot, Fails, ErrSet
  <2>3. network' \in [Arms -> NetworkSet]
    <3>1. network' \in {network, [network EXCEPT ![a] = "ok"], [network EXCEPT ![a] = "failed"]}
      BY ONLY <1>8 DEF Boot
    <3>2. network \in [Arms -> NetworkSet]
      BY DEF TypeOK
    <3>3. QED
      BY ONLY <3>1, <3>2 DEF NetworkSet
  <2>4. QED
    BY <1>8, <2>1, <2>2, <2>3 DEF Boot
<1>9. ASSUME NEW a \in Arms, ArmConnects(a) PROVE TypeOK'
  <2>0. /\ UNCHANGED <<mpc, order, watched, turn, network, connected, stopped>>
        /\ crashed' = (crashed \/ cpc'[a] = "crashed")
    BY <1>9 DEF ArmConnects
  <2>1. CASE Dial(a)
    <3>1. client' \in [Arms -> {"none", "open", "closed"}]
      BY <2>1, <2>0 DEF Dial
    <3>2. api' \in [Arms -> BOOLEAN]
      BY ONLY <1>0, <2>1 DEF Dial
    <3>3. phase' \in [Arms -> PhaseSet]
      BY <2>1, <2>0 DEF Dial
    <3>4. err' \in [Arms -> ErrSet]
      BY <2>1, <2>0 DEF Dial
    <3>5. cpc' \in [Arms -> CpcSet]
      BY ONLY <1>0, <2>1 DEF Dial, To, Fails, CpcSet
    <3>6. QED
      BY <2>1, <2>0, <2>0, <3>1, <3>2, <3>3, <3>4, <3>5 DEF Dial
  <2>2. CASE Identity(a)
    <3>1. cpc' \in [Arms -> CpcSet]
      BY ONLY <1>0, <2>2 DEF Identity, To, Fails, CpcSet
    <3>2. phase' \in [Arms -> PhaseSet]
      BY ONLY <1>0, <2>2 DEF Identity, Phase, PhaseSet
    <3>3. err' \in [Arms -> ErrSet]
      BY ONLY <1>0, <2>2 DEF Identity, Fails, ErrSet
    <3>4. QED
      BY <2>2, <2>0, <2>0, <3>1, <3>2, <3>3 DEF Identity
  <2>3. CASE Clear(a)
    BY <2>3, <2>0 DEF Clear
  <2>4. CASE Rail(a)
    <3>1. cpc' \in [Arms -> CpcSet]
      BY ONLY <1>0, <2>4 DEF Rail, To, Fails, CpcSet
    <3>2. phase' \in [Arms -> PhaseSet]
      BY ONLY <1>0, <2>4 DEF Rail, Phase, PhaseSet
    <3>3. err' \in [Arms -> ErrSet]
      BY ONLY <1>0, <2>4 DEF Rail, Fails, ErrSet
    <3>4. QED
      BY <2>4, <2>0, <2>0, <3>1, <3>2, <3>3 DEF Rail
  <2>5. CASE Enable(a)
    BY <2>5, <2>0 DEF Enable, Open
  <2>6. CASE Gripper(a)
    <3>1. cpc' \in [Arms -> CpcSet]
      BY <2>6, <2>0 DEF Gripper
    <3>2. err' \in [Arms -> ErrSet]
      BY ONLY <1>0, <2>6 DEF Gripper, Fails, ErrSet
    <3>3. QED
      BY <2>6, <2>0, <3>1, <3>2 DEF Gripper
  <2>7. CASE ServoMode(a)
    <3>1. cpc' \in [Arms -> CpcSet]
      <4>1. cpc' \in {[cpc EXCEPT ![a] = "threads"], [cpc EXCEPT ![a] = "end"], [cpc EXCEPT ![a] = "crashed"]}
        BY <2>7, <2>0 DEF ServoMode
      <4>2. QED
        BY <4>1
    <3>2. err' \in [Arms -> ErrSet]
      BY <2>7, <2>0 DEF ServoMode
    <3>3. QED
      BY <2>7, <2>0, <2>0, <3>1, <3>2 DEF ServoMode
  <2>8. CASE StartThreads(a)
    BY <2>8, <2>0 DEF StartThreads
  <2>9. CASE Streams(a)
    BY <2>9, <2>0 DEF Streams
  <2>10. CASE ConnectRaises(a)
    BY <2>10, <2>0 DEF ConnectRaises
  <2>11. CASE Subscribe(a)
    <3>1. cpc' \in [Arms -> CpcSet]
      BY <2>11, <2>0 DEF Subscribe
    <3>2. phase' \in [Arms -> PhaseSet]
      BY ONLY <1>0, <2>11 DEF Subscribe, Fails, Phase, PhaseSet
    <3>3. err' \in [Arms -> ErrSet]
      BY ONLY <1>0, <2>11 DEF Subscribe, Fails, ErrSet
    <3>4. QED
      BY <2>11, <2>0, <2>0, <3>1, <3>2, <3>3 DEF Subscribe
  <2>12. CASE Observe(a)
    <3>1. cpc' \in [Arms -> CpcSet]
      BY <2>12, <2>0 DEF Observe
    <3>2. phase' \in [Arms -> PhaseSet]
      BY ONLY <1>0, <2>12 DEF Observe, Fails, Phase, PhaseSet
    <3>3. err' \in [Arms -> ErrSet]
      BY ONLY <1>0, <2>12 DEF Observe, Fails, ErrSet
    <3>4. QED
      BY <2>12, <2>0, <2>0, <3>1, <3>2, <3>3 DEF Observe
  <2>13. CASE StartPoller(a)
    BY <2>13, <2>0 DEF StartPoller
  <2>14. QED
    BY <1>9, <2>1, <2>2, <2>3, <2>4, <2>5, <2>6, <2>7, <2>8, <2>9, <2>10, <2>11, <2>12,
       <2>13 DEF ArmConnects, Connect
<1>10. ASSUME NEW a \in Arms, FreshReport(a) PROVE TypeOK'
  <2>1. cpc' \in [Arms -> CpcSet]
    BY ONLY <1>0, <1>10 DEF FreshReport, To, Fails, CpcSet
  <2>2. connected' \in [Arms -> BOOLEAN]
    <3>1. connected \in [Arms -> BOOLEAN]
      BY DEF TypeOK
    <3>2. QED
      BY ONLY <1>10, <3>1 DEF FreshReport
  <2>3. err' \in [Arms -> ErrSet]
    BY ONLY <1>0, <1>10 DEF FreshReport, Fails, ErrSet
  <2>4. QED
    BY <1>10, <2>1, <2>2, <2>3 DEF FreshReport
<1>11. ASSUME NEW a \in Arms, Session(a) PROVE TypeOK'
  <2>0. UNCHANGED cellVars
    BY <1>11 DEF Session
  <2>1. CASE Recover(a)
    BY <2>1, <2>0 DEF Recover
  <2>7. CASE TakesSetting(a)
    BY <2>7, <2>0 DEF TakesSetting
  <2>8. CASE AppliesSetting(a)
    BY <2>8, <2>0 DEF AppliesSetting
  <2>9. CASE Polls(a)
    <3>1. wpc \in [Arms -> WpcSet]
      BY DEF TypeOK
    <3>2. wpc' \in [Arms -> WpcSet]
      BY ONLY <2>9, <3>1 DEF Polls, Go, WpcSet
    <3>3. QED
      BY <2>9, <2>0, <3>2 DEF Polls
  <2>10. CASE StopThreads(a)
    BY <2>10, <2>0 DEF StopThreads
  <2>11. CASE JoinThreads(a)
    BY <2>11, <2>0 DEF JoinThreads
  <2>12. CASE HandBack(a)
    <3>0. released \in [Arms -> BOOLEAN] /\ handback \in [Arms -> HandbackSet]
      BY DEF TypeOK
    <3>1. handback' \in [Arms -> HandbackSet]
      <4>1. \/ handback' = [handback EXCEPT ![a] = "clean"]
            \/ handback' = [handback EXCEPT ![a] = "refused"]
            \/ handback' = [handback EXCEPT ![a] = "crossed"]
        BY ONLY <2>12 DEF HandBack
      <4>2. QED
        BY ONLY <3>0, <4>1 DEF HandbackSet
    <3>2. released' \in [Arms -> BOOLEAN] /\ dpc' \in [Arms -> DpcSet]
      BY ONLY <1>0, <2>12, <3>0 DEF HandBack, At, DpcSet
    <3>3. QED
      BY <2>12, <2>0, <3>1, <3>2 DEF HandBack
  <2>13. CASE Close(a)
    BY <2>13, <2>0 DEF Close
  <2>14. CASE Faults(a)
    BY <2>14, <2>0 DEF Faults
  <2>15. CASE RequestSetting(a)
    BY <2>15, <2>0 DEF RequestSetting
  <2>16. CASE Recovery(a)
    BY <2>16, <2>0, RecoveryType
  <2>17. CASE UserClears(a)
    BY <2>17, <2>0 DEF UserClears, ClearErrors
  <2>18. QED
    BY <1>11, <2>1, <2>7, <2>8, <2>9, <2>10, <2>11, <2>12, <2>13, <2>14, <2>15, <2>16,
       <2>17 DEF Session, Worker, Disconnecting
<1>12. ASSUME NEW a \in Arms, ObserverConnects(a) PROVE TypeOK'
  BY <1>12 DEF ObserverConnects
<1>13. ASSUME NEW a \in Arms, ObserverLeaves(a) PROVE TypeOK'
  BY <1>13 DEF ObserverLeaves, Disconnect, Connecting
<1>14. CASE UNCHANGED vars
  BY <1>14 DEF vars, sessionVars
<1>15. QED
  BY <1>1, <1>2, <1>3, <1>4, <1>5, <1>6, <1>7, <1>8, <1>9, <1>10, <1>11, <1>12, <1>13,
     <1>14 DEF Next

\* ObserverPcs is preserved: a read-only connection branches off after the dial.
LEMMA ObserverStep ==
  TypeOK /\ Cell /\ ObserverPcs /\ [Next]_vars => ObserverPcs'
<1> SUFFICES ASSUME TypeOK, Cell, ObserverPcs, [Next]_vars PROVE ObserverPcs'
  OBVIOUS
<1> USE SessionAssumption DEF To, Phase, Go, At, Fails, Idle, InWrite, Joins, Recovers, driverVars,
   threadVars,
   boxVars, cellVars, ObserverPcs, Cell, Members, sessionVars
<1>0. /\ cpc \in [Arms -> CpcSet]
      /\ wpc \in [Arms -> WpcSet]
      /\ ccp \in [Arms -> CcpSet]
      /\ dpc \in [Arms -> DpcSet]
      /\ setting \in [Arms -> BOOLEAN]
      /\ watched \in SUBSET Observed
  BY DEF TypeOK
<1>1. CASE BringUp
  BY <1>1, <1>0 DEF BringUp
<1>2. CASE NetworkStage
  BY <1>2, <1>0 DEF NetworkStage
<1>3. CASE NetworkRaises
  BY <1>3, <1>0 DEF NetworkRaises
<1>4. CASE JoinBringUp
  BY <1>4, <1>0 DEF JoinBringUp, Connecting
<1>5. CASE Shutdown
  BY <1>5, <1>0 DEF Shutdown
<1>6. CASE ShutdownDisconnects
  BY <1>6, <1>0 DEF ShutdownDisconnects, Disconnect
<1>7. CASE ShutdownEnds
  BY <1>7, <1>0 DEF ShutdownEnds
<1>8. ASSUME NEW a \in Arms, Boot(a) PROVE ObserverPcs'
  BY <1>8, <1>0 DEF Boot
<1>9. ASSUME NEW a \in Arms, ArmConnects(a) PROVE ObserverPcs'
  <2>0. /\ UNCHANGED <<mpc, order, watched, turn, network, connected, stopped>>
        /\ crashed' = (crashed \/ cpc'[a] = "crashed")
    BY <1>9 DEF ArmConnects
  <2>1. CASE Dial(a)
    BY <2>1, <2>0, <1>0 DEF Dial
  <2>2. CASE Identity(a)
    BY <2>2, <2>0, <1>0 DEF Identity
  <2>3. CASE Clear(a)
    BY <2>3, <2>0, <1>0 DEF Clear
  <2>4. CASE Rail(a)
    BY <2>4, <2>0, <1>0 DEF Rail
  <2>5. CASE Enable(a)
    BY <2>5, <2>0, <1>0 DEF Enable, Open
  <2>6. CASE Gripper(a)
    BY <2>6, <2>0, <1>0 DEF Gripper
  <2>7. CASE ServoMode(a)
    BY <2>7, <2>0, <1>0 DEF ServoMode
  <2>8. CASE StartThreads(a)
    BY <2>8, <2>0, <1>0 DEF StartThreads
  <2>9. CASE Streams(a)
    BY <2>9, <2>0, <1>0 DEF Streams
  <2>10. CASE ConnectRaises(a)
    BY <2>10, <2>0, <1>0 DEF ConnectRaises
  <2>11. CASE Subscribe(a)
    BY <2>11, <2>0, <1>0 DEF Subscribe
  <2>12. CASE Observe(a)
    BY <2>12, <2>0, <1>0 DEF Observe
  <2>13. CASE StartPoller(a)
    BY <2>13, <2>0, <1>0 DEF StartPoller
  <2>14. QED
    BY <1>9, <2>1, <2>2, <2>3, <2>4, <2>5, <2>6, <2>7, <2>8, <2>9, <2>10, <2>11, <2>12,
       <2>13 DEF ArmConnects, Connect
<1>10. ASSUME NEW a \in Arms, FreshReport(a) PROVE ObserverPcs'
  BY <1>10, <1>0 DEF FreshReport
<1>11. ASSUME NEW a \in Arms, Session(a) PROVE ObserverPcs'
  <2>0. UNCHANGED cellVars
    BY <1>11 DEF Session
  <2>1. CASE Recover(a)
    BY <2>1, <2>0, <1>0 DEF Recover
  <2>2. CASE RecoverEnables(a)
    BY <2>2, <2>0, <1>0 DEF RecoverEnables, Open
  <2>3. CASE RecoverSetsMode(a)
    BY <2>3, <2>0, <1>0 DEF RecoverSetsMode
  <2>4. CASE RecoverReads(a)
    BY <2>4, <2>0, <1>0 DEF RecoverReads
  <2>5. CASE RecoverFails(a)
    BY <2>5, <2>0, <1>0 DEF RecoverFails
  <2>6. CASE RecoverResumes(a)
    BY <2>6, <2>0, <1>0 DEF RecoverResumes
  <2>7. CASE TakesSetting(a)
    BY <2>7, <2>0, <1>0 DEF TakesSetting
  <2>8. CASE AppliesSetting(a)
    BY <2>8, <2>0, <1>0 DEF AppliesSetting
  <2>9. CASE Polls(a)
    BY <2>9, <2>0, <1>0 DEF Polls
  <2>10. CASE StopThreads(a)
    BY <2>10, <2>0, <1>0 DEF StopThreads
  <2>11. CASE JoinThreads(a)
    BY <2>11, <2>0, <1>0 DEF JoinThreads
  <2>12. CASE HandBack(a)
    BY <2>12, <2>0, <1>0 DEF HandBack, Open, MayFail
  <2>13. CASE Close(a)
    BY <2>13, <2>0, <1>0 DEF Close
  <2>14. CASE Faults(a)
    BY <2>14, <2>0, <1>0 DEF Faults
  <2>15. CASE RequestSetting(a)
    BY <2>15, <2>0, <1>0 DEF RequestSetting
  <2>16. CASE RecoverBegins(a)
    BY <2>16, <2>0, <1>0 DEF RecoverBegins
  <2>17. CASE UserClears(a)
    BY <2>17, <2>0, <1>0 DEF UserClears, ClearErrors
  <2>18. QED
    BY <1>11, <2>1, <2>2, <2>3, <2>4, <2>5, <2>6, <2>7, <2>8, <2>9, <2>10, <2>11, <2>12, <2>13,
       <2>14, <2>15, <2>16, <2>17 DEF Session, Worker, Recovery, Disconnecting
<1>12. ASSUME NEW a \in Arms, ObserverConnects(a) PROVE ObserverPcs'
  BY <1>12, <1>0 DEF ObserverConnects
<1>13. ASSUME NEW a \in Arms, ObserverLeaves(a) PROVE ObserverPcs'
  BY <1>13, <1>0 DEF ObserverLeaves, Disconnect, Connecting
<1>14. CASE UNCHANGED vars
  BY <1>14, <1>0 DEF vars, sessionVars
<1>15. QED
  BY <1>1, <1>2, <1>3, <1>4, <1>5, <1>6, <1>7, <1>8, <1>9, <1>10, <1>11, <1>12, <1>13,
     <1>14 DEF Next

\* OwnPcs is preserved: an arm of the workcell is not connected read-only.
LEMMA OwnStep ==
  TypeOK /\ Cell /\ OwnPcs /\ [Next]_vars => OwnPcs'
<1> SUFFICES ASSUME TypeOK, Cell, OwnPcs, [Next]_vars PROVE OwnPcs'
  OBVIOUS
<1> USE SessionAssumption DEF To, Phase, Go, At, Fails, Idle, InWrite, Joins, Recovers, driverVars,
   threadVars,
   boxVars, cellVars, OwnPcs, sessionVars
<1>0. /\ cpc \in [Arms -> CpcSet]
      /\ wpc \in [Arms -> WpcSet]
      /\ ccp \in [Arms -> CcpSet]
      /\ dpc \in [Arms -> DpcSet]
      /\ watched \in SUBSET Observed
  BY DEF TypeOK
<1>1. CASE BringUp
  BY <1>1, <1>0 DEF BringUp
<1>2. CASE NetworkStage
  BY <1>2, <1>0 DEF NetworkStage
<1>3. CASE NetworkRaises
  BY <1>3, <1>0 DEF NetworkRaises
<1>4. CASE JoinBringUp
  BY <1>4, <1>0 DEF JoinBringUp, Connecting
<1>5. CASE Shutdown
  BY <1>5, <1>0 DEF Shutdown
<1>6. CASE ShutdownDisconnects
  BY <1>6, <1>0 DEF ShutdownDisconnects, Disconnect
<1>7. CASE ShutdownEnds
  BY <1>7, <1>0 DEF ShutdownEnds
<1>8. ASSUME NEW a \in Arms, Boot(a) PROVE OwnPcs'
  BY <1>8, <1>0 DEF Boot
<1>9. ASSUME NEW a \in Arms, ArmConnects(a) PROVE OwnPcs'
  <2>0. /\ UNCHANGED <<mpc, order, watched, turn, network, connected, stopped>>
        /\ crashed' = (crashed \/ cpc'[a] = "crashed")
    BY <1>9 DEF ArmConnects
  <2>1. CASE Dial(a)
    BY <2>1, <2>0, <1>0 DEF Dial
  <2>2. CASE Identity(a)
    BY <2>2, <2>0, <1>0 DEF Identity
  <2>3. CASE Clear(a)
    BY <2>3, <2>0, <1>0 DEF Clear
  <2>4. CASE Rail(a)
    BY <2>4, <2>0, <1>0 DEF Rail
  <2>5. CASE Enable(a)
    BY <2>5, <2>0, <1>0 DEF Enable, Open
  <2>6. CASE Gripper(a)
    BY <2>6, <2>0, <1>0 DEF Gripper
  <2>7. CASE ServoMode(a)
    BY <2>7, <2>0, <1>0 DEF ServoMode
  <2>8. CASE StartThreads(a)
    BY <2>8, <2>0, <1>0 DEF StartThreads
  <2>9. CASE Streams(a)
    BY <2>9, <2>0, <1>0 DEF Streams
  <2>10. CASE ConnectRaises(a)
    BY <2>10, <2>0, <1>0 DEF ConnectRaises
  <2>11. CASE Subscribe(a)
    BY <2>11, <2>0, <1>0 DEF Subscribe
  <2>12. CASE Observe(a)
    BY <2>12, <2>0, <1>0 DEF Observe
  <2>13. CASE StartPoller(a)
    BY <2>13, <2>0, <1>0 DEF StartPoller
  <2>14. QED
    BY <1>9, <2>1, <2>2, <2>3, <2>4, <2>5, <2>6, <2>7, <2>8, <2>9, <2>10, <2>11, <2>12,
       <2>13 DEF ArmConnects, Connect
<1>10. ASSUME NEW a \in Arms, FreshReport(a) PROVE OwnPcs'
  BY <1>10, <1>0 DEF FreshReport
<1>11. ASSUME NEW a \in Arms, Session(a) PROVE OwnPcs'
  <2>0. UNCHANGED cellVars
    BY <1>11 DEF Session
  <2>1. CASE Recover(a)
    BY <2>1, <2>0, <1>0 DEF Recover
  <2>2. CASE RecoverEnables(a)
    BY <2>2, <2>0, <1>0 DEF RecoverEnables, Open
  <2>3. CASE RecoverSetsMode(a)
    BY <2>3, <2>0, <1>0 DEF RecoverSetsMode
  <2>4. CASE RecoverReads(a)
    BY <2>4, <2>0, <1>0 DEF RecoverReads
  <2>5. CASE RecoverFails(a)
    BY <2>5, <2>0, <1>0 DEF RecoverFails
  <2>6. CASE RecoverResumes(a)
    BY <2>6, <2>0, <1>0 DEF RecoverResumes
  <2>7. CASE TakesSetting(a)
    BY <2>7, <2>0, <1>0 DEF TakesSetting
  <2>8. CASE AppliesSetting(a)
    BY <2>8, <2>0, <1>0 DEF AppliesSetting
  <2>9. CASE Polls(a)
    BY <2>9, <2>0, <1>0 DEF Polls
  <2>10. CASE StopThreads(a)
    BY <2>10, <2>0, <1>0 DEF StopThreads
  <2>11. CASE JoinThreads(a)
    BY <2>11, <2>0, <1>0 DEF JoinThreads
  <2>12. CASE HandBack(a)
    BY <2>12, <2>0, <1>0 DEF HandBack, Open, MayFail
  <2>13. CASE Close(a)
    BY <2>13, <2>0, <1>0 DEF Close
  <2>14. CASE Faults(a)
    BY <2>14, <2>0, <1>0 DEF Faults
  <2>15. CASE RequestSetting(a)
    BY <2>15, <2>0, <1>0 DEF RequestSetting
  <2>16. CASE RecoverBegins(a)
    BY <2>16, <2>0, <1>0 DEF RecoverBegins
  <2>17. CASE UserClears(a)
    BY <2>17, <2>0, <1>0 DEF UserClears, ClearErrors
  <2>18. QED
    BY <1>11, <2>1, <2>2, <2>3, <2>4, <2>5, <2>6, <2>7, <2>8, <2>9, <2>10, <2>11, <2>12, <2>13,
       <2>14, <2>15, <2>16, <2>17 DEF Session, Worker, Recovery, Disconnecting
<1>12. ASSUME NEW a \in Arms, ObserverConnects(a) PROVE OwnPcs'
  BY <1>12, <1>0 DEF ObserverConnects
<1>13. ASSUME NEW a \in Arms, ObserverLeaves(a) PROVE OwnPcs'
  BY <1>13, <1>0 DEF ObserverLeaves, Disconnect, Connecting
<1>14. CASE UNCHANGED vars
  BY <1>14, <1>0 DEF vars, sessionVars
<1>15. QED
  BY <1>1, <1>2, <1>3, <1>4, <1>5, <1>6, <1>7, <1>8, <1>9, <1>10, <1>11, <1>12, <1>13,
     <1>14 DEF Next

\* Errs is preserved: an error is kept by the thread that ends with it.
LEMMA ErrsStep ==
  TypeOK /\ Cell /\ Members' = Members /\ Handling /\ Errs /\ [Next]_vars => Errs'
<1> SUFFICES ASSUME TypeOK, Cell, Members' = Members, Handling, Errs, [Next]_vars PROVE Errs'
  OBVIOUS
<1> USE SessionAssumption DEF To, Phase, Go, At, Fails, Idle, InWrite, Joins, Recovers, driverVars,
   threadVars,
   boxVars, cellVars, Errs, Handling, Cell, Connecting, sessionVars
<1>0. /\ cpc \in [Arms -> CpcSet]
      /\ err \in [Arms -> ErrSet]
      /\ watched \in SUBSET Observed
  BY DEF TypeOK
<1>1. CASE BringUp
  BY <1>1, <1>0 DEF BringUp
<1>2. CASE NetworkStage
  BY <1>2, <1>0 DEF NetworkStage
<1>3. CASE NetworkRaises
  BY <1>3, <1>0 DEF NetworkRaises
<1>4. CASE JoinBringUp
  BY <1>4, <1>0 DEF JoinBringUp, Connecting
<1>5. CASE Shutdown
  BY <1>5, <1>0 DEF Shutdown
<1>6. CASE ShutdownDisconnects
  BY <1>6, <1>0 DEF ShutdownDisconnects, Disconnect
<1>7. CASE ShutdownEnds
  BY <1>7, <1>0 DEF ShutdownEnds
<1>8. ASSUME NEW a \in Arms, Boot(a) PROVE Errs'
  BY <1>8, <1>0 DEF Boot
<1>9. ASSUME NEW a \in Arms, ArmConnects(a) PROVE Errs'
  <2>0. /\ UNCHANGED <<mpc, order, watched, turn, network, connected, stopped>>
        /\ crashed' = (crashed \/ cpc'[a] = "crashed")
    BY <1>9 DEF ArmConnects
  <2>1. CASE Dial(a)
    BY <2>1, <2>0, <1>0 DEF Dial
  <2>2. CASE Identity(a)
    BY <2>2, <2>0, <1>0 DEF Identity
  <2>3. CASE Clear(a)
    BY <2>3, <2>0, <1>0 DEF Clear
  <2>4. CASE Rail(a)
    BY <2>4, <2>0, <1>0 DEF Rail
  <2>5. CASE Enable(a)
    BY <2>5, <2>0, <1>0 DEF Enable, Open
  <2>6. CASE Gripper(a)
    BY <2>6, <2>0, <1>0 DEF Gripper
  <2>7. CASE ServoMode(a)
    BY <2>7, <2>0, <1>0 DEF ServoMode
  <2>8. CASE StartThreads(a)
    BY <2>8, <2>0, <1>0 DEF StartThreads
  <2>9. CASE Streams(a)
    BY <2>9, <2>0, <1>0 DEF Streams
  <2>10. CASE ConnectRaises(a)
    BY <2>10, <2>0, <1>0 DEF ConnectRaises
  <2>11. CASE Subscribe(a)
    BY <2>11, <2>0, <1>0 DEF Subscribe
  <2>12. CASE Observe(a)
    BY <2>12, <2>0, <1>0 DEF Observe
  <2>13. CASE StartPoller(a)
    BY <2>13, <2>0, <1>0 DEF StartPoller
  <2>14. QED
    BY <1>9, <2>1, <2>2, <2>3, <2>4, <2>5, <2>6, <2>7, <2>8, <2>9, <2>10, <2>11, <2>12,
       <2>13 DEF ArmConnects, Connect
<1>10. ASSUME NEW a \in Arms, FreshReport(a) PROVE Errs'
  BY <1>10, <1>0 DEF FreshReport
<1>11. ASSUME NEW a \in Arms, Session(a) PROVE Errs'
  <2>0. UNCHANGED cellVars
    BY <1>11 DEF Session
  <2>1. CASE Recover(a)
    BY <2>1, <2>0, <1>0 DEF Recover
  <2>2. CASE RecoverEnables(a)
    BY <2>2, <2>0, <1>0 DEF RecoverEnables, Open
  <2>3. CASE RecoverSetsMode(a)
    BY <2>3, <2>0, <1>0 DEF RecoverSetsMode
  <2>4. CASE RecoverReads(a)
    BY <2>4, <2>0, <1>0 DEF RecoverReads
  <2>5. CASE RecoverFails(a)
    BY <2>5, <2>0, <1>0 DEF RecoverFails
  <2>6. CASE RecoverResumes(a)
    BY <2>6, <2>0, <1>0 DEF RecoverResumes
  <2>7. CASE TakesSetting(a)
    BY <2>7, <2>0, <1>0 DEF TakesSetting
  <2>8. CASE AppliesSetting(a)
    BY <2>8, <2>0, <1>0 DEF AppliesSetting
  <2>9. CASE Polls(a)
    BY <2>9, <2>0, <1>0 DEF Polls
  <2>10. CASE StopThreads(a)
    BY <2>10, <2>0, <1>0 DEF StopThreads
  <2>11. CASE JoinThreads(a)
    BY <2>11, <2>0, <1>0 DEF JoinThreads
  <2>12. CASE HandBack(a)
    BY <2>12, <2>0, <1>0 DEF HandBack, Open, MayFail
  <2>13. CASE Close(a)
    BY <2>13, <2>0, <1>0 DEF Close
  <2>14. CASE Faults(a)
    BY <2>14, <2>0, <1>0 DEF Faults
  <2>15. CASE RequestSetting(a)
    BY <2>15, <2>0, <1>0 DEF RequestSetting
  <2>16. CASE RecoverBegins(a)
    BY <2>16, <2>0, <1>0 DEF RecoverBegins
  <2>17. CASE UserClears(a)
    BY <2>17, <2>0, <1>0 DEF UserClears, ClearErrors
  <2>18. QED
    BY <1>11, <2>1, <2>2, <2>3, <2>4, <2>5, <2>6, <2>7, <2>8, <2>9, <2>10, <2>11, <2>12, <2>13,
       <2>14, <2>15, <2>16, <2>17 DEF Session, Worker, Recovery, Disconnecting
<1>12. ASSUME NEW a \in Arms, ObserverConnects(a) PROVE Errs'
  BY <1>12, <1>0 DEF ObserverConnects
<1>13. ASSUME NEW a \in Arms, ObserverLeaves(a) PROVE Errs'
  BY <1>13, <1>0 DEF ObserverLeaves, Disconnect, Connecting
<1>14. CASE UNCHANGED vars
  BY <1>14, <1>0 DEF vars, sessionVars
<1>15. QED
  BY <1>1, <1>2, <1>3, <1>4, <1>5, <1>6, <1>7, <1>8, <1>9, <1>10, <1>11, <1>12, <1>13,
     <1>14 DEF Next

\* Callers is preserved: a start() comes when nobody clears errors, and connects again.
LEMMA CallersStep ==
  TypeOK /\ Cell /\ Members' = Members /\ Handling /\ Errs /\ Callers /\ [Next]_vars
  => Callers'
<1> SUFFICES ASSUME TypeOK, Cell, Members' = Members, Handling, Errs, Callers, [Next]_vars
                PROVE Callers'
  OBVIOUS
<1> USE SessionAssumption DEF To, Phase, Go, At, Fails, Idle, InWrite, Joins, Recovers, driverVars,
   threadVars,
   boxVars, cellVars, Errs, Callers, Handling, Cell, Connecting, sessionVars
<1>0. /\ cpc \in [Arms -> CpcSet]
      /\ err \in [Arms -> ErrSet]
      /\ ccp \in [Arms -> CcpSet]
      /\ connected \in [Arms -> BOOLEAN]
      /\ watched \in SUBSET Observed
  BY DEF TypeOK
<1>1. CASE BringUp
  BY <1>1, <1>0 DEF BringUp, NoneRecovers
<1>2. CASE NetworkStage
  BY <1>2, <1>0 DEF NetworkStage
<1>3. CASE NetworkRaises
  BY <1>3, <1>0 DEF NetworkRaises
<1>4. CASE JoinBringUp
  BY <1>4, <1>0 DEF JoinBringUp, Connecting
<1>5. CASE Shutdown
  BY <1>5, <1>0 DEF Shutdown
<1>6. CASE ShutdownDisconnects
  BY <1>6, <1>0 DEF ShutdownDisconnects, Disconnect
<1>7. CASE ShutdownEnds
  BY <1>7, <1>0 DEF ShutdownEnds
<1>8. ASSUME NEW a \in Arms, Boot(a) PROVE Callers'
  BY <1>8, <1>0 DEF Boot
<1>9. ASSUME NEW a \in Arms, ArmConnects(a) PROVE Callers'
  <2>0. /\ UNCHANGED <<mpc, order, watched, turn, network, connected, stopped>>
        /\ crashed' = (crashed \/ cpc'[a] = "crashed")
    BY <1>9 DEF ArmConnects
  <2>1. CASE Dial(a)
    BY <2>1, <2>0, <1>0 DEF Dial
  <2>2. CASE Identity(a)
    BY <2>2, <2>0, <1>0 DEF Identity
  <2>3. CASE Clear(a)
    BY <2>3, <2>0, <1>0 DEF Clear
  <2>4. CASE Rail(a)
    BY <2>4, <2>0, <1>0 DEF Rail
  <2>5. CASE Enable(a)
    BY <2>5, <2>0, <1>0 DEF Enable, Open
  <2>6. CASE Gripper(a)
    BY <2>6, <2>0, <1>0 DEF Gripper
  <2>7. CASE ServoMode(a)
    BY <2>7, <2>0, <1>0 DEF ServoMode
  <2>8. CASE StartThreads(a)
    BY <2>8, <2>0, <1>0 DEF StartThreads
  <2>9. CASE Streams(a)
    BY <2>9, <2>0, <1>0 DEF Streams
  <2>10. CASE ConnectRaises(a)
    BY <2>10, <2>0, <1>0 DEF ConnectRaises
  <2>11. CASE Subscribe(a)
    BY <2>11, <2>0, <1>0 DEF Subscribe
  <2>12. CASE Observe(a)
    BY <2>12, <2>0, <1>0 DEF Observe
  <2>13. CASE StartPoller(a)
    BY <2>13, <2>0, <1>0 DEF StartPoller
  <2>14. QED
    BY <1>9, <2>1, <2>2, <2>3, <2>4, <2>5, <2>6, <2>7, <2>8, <2>9, <2>10, <2>11, <2>12,
       <2>13 DEF ArmConnects, Connect
<1>10. ASSUME NEW a \in Arms, FreshReport(a) PROVE Callers'
  BY <1>10, <1>0 DEF FreshReport
<1>11. ASSUME NEW a \in Arms, Session(a) PROVE Callers'
  <2>0. UNCHANGED cellVars
    BY <1>11 DEF Session
  <2>1. CASE Recover(a)
    BY <2>1, <2>0, <1>0 DEF Recover
  <2>2. CASE RecoverEnables(a)
    BY <2>2, <2>0, <1>0 DEF RecoverEnables, Open
  <2>3. CASE RecoverSetsMode(a)
    BY <2>3, <2>0, <1>0 DEF RecoverSetsMode
  <2>4. CASE RecoverReads(a)
    BY <2>4, <2>0, <1>0 DEF RecoverReads
  <2>5. CASE RecoverFails(a)
    BY <2>5, <2>0, <1>0 DEF RecoverFails
  <2>6. CASE RecoverResumes(a)
    BY <2>6, <2>0, <1>0 DEF RecoverResumes
  <2>7. CASE TakesSetting(a)
    BY <2>7, <2>0, <1>0 DEF TakesSetting
  <2>8. CASE AppliesSetting(a)
    BY <2>8, <2>0, <1>0 DEF AppliesSetting
  <2>9. CASE Polls(a)
    BY <2>9, <2>0, <1>0 DEF Polls
  <2>10. CASE StopThreads(a)
    BY <2>10, <2>0, <1>0 DEF StopThreads
  <2>11. CASE JoinThreads(a)
    BY <2>11, <2>0, <1>0 DEF JoinThreads
  <2>12. CASE HandBack(a)
    BY <2>12, <2>0, <1>0 DEF HandBack, Open, MayFail
  <2>13. CASE Close(a)
    BY <2>13, <2>0, <1>0 DEF Close
  <2>14. CASE Faults(a)
    BY <2>14, <2>0, <1>0 DEF Faults
  <2>15. CASE RequestSetting(a)
    BY <2>15, <2>0, <1>0 DEF RequestSetting
  <2>16. CASE RecoverBegins(a)
    BY <2>16, <2>0, <1>0 DEF RecoverBegins
  <2>17. CASE UserClears(a)
    BY <2>17, <2>0, <1>0 DEF UserClears, ClearErrors
  <2>18. QED
    BY <1>11, <2>1, <2>2, <2>3, <2>4, <2>5, <2>6, <2>7, <2>8, <2>9, <2>10, <2>11, <2>12, <2>13,
       <2>14, <2>15, <2>16, <2>17 DEF Session, Worker, Recovery, Disconnecting
<1>12. ASSUME NEW a \in Arms, ObserverConnects(a) PROVE Callers'
  BY <1>12, <1>0 DEF ObserverConnects
<1>13. ASSUME NEW a \in Arms, ObserverLeaves(a) PROVE Callers'
  BY <1>13, <1>0 DEF ObserverLeaves, Disconnect, Connecting
<1>14. CASE UNCHANGED vars
  BY <1>14, <1>0 DEF vars, sessionVars
<1>15. QED
  BY <1>1, <1>2, <1>3, <1>4, <1>5, <1>6, <1>7, <1>8, <1>9, <1>10, <1>11, <1>12, <1>13,
     <1>14 DEF Next

\* Untouched is preserved: up to motion_enable() no thread of the session runs.
LEMMA UntouchedStep ==
  TypeOK /\ Cell /\ Members' = Members /\ OwnPcs /\ Handling /\ Errs /\ Callers /\ Untouched
    /\ [Next]_vars
  => Untouched'
<1> SUFFICES ASSUME TypeOK, Cell, Members' = Members, OwnPcs, Handling, Errs, Callers,
   Untouched, [Next]_vars
                PROVE Untouched'
  OBVIOUS
<1> USE SessionAssumption DEF To, Phase, Go, At, Fails, Idle, InWrite, Joins, Recovers, driverVars,
   threadVars,
   boxVars, cellVars, Untouched, Excused, Handling, Errs, Callers, Cell, OwnPcs, Connecting,
   AtRest, Opening, Early,
   sessionVars
<1>0. /\ cpc \in [Arms -> CpcSet]
      /\ err \in [Arms -> ErrSet]
      /\ wpc \in [Arms -> WpcSet]
      /\ ccp \in [Arms -> CcpSet]
      /\ running \in [Arms -> BOOLEAN]
      /\ released \in [Arms -> BOOLEAN]
      /\ handback \in [Arms -> HandbackSet]
      /\ api \in [Arms -> BOOLEAN]
      /\ watched \in SUBSET Observed
  BY DEF TypeOK
<1>1. CASE BringUp
  BY <1>1, <1>0 DEF BringUp
<1>2. CASE NetworkStage
  BY <1>2, <1>0 DEF NetworkStage
<1>3. CASE NetworkRaises
  BY <1>3, <1>0 DEF NetworkRaises
<1>4. CASE JoinBringUp
  BY <1>4, <1>0 DEF JoinBringUp, Connecting
<1>5. CASE Shutdown
  BY <1>5, <1>0 DEF Shutdown
<1>6. CASE ShutdownDisconnects
  BY <1>6, <1>0 DEF ShutdownDisconnects, Disconnect
<1>7. CASE ShutdownEnds
  BY <1>7, <1>0 DEF ShutdownEnds
<1>8. ASSUME NEW a \in Arms, Boot(a) PROVE Untouched'
  BY <1>8, <1>0 DEF Boot
<1>9. ASSUME NEW a \in Arms, ArmConnects(a) PROVE Untouched'
  <2>0. /\ UNCHANGED <<mpc, order, watched, turn, network, connected, stopped>>
        /\ crashed' = (crashed \/ cpc'[a] = "crashed")
    BY <1>9 DEF ArmConnects
  <2>1. CASE Dial(a)
    BY <2>1, <2>0, <1>0 DEF Dial
  <2>2. CASE Identity(a)
    BY <2>2, <2>0, <1>0 DEF Identity
  <2>3. CASE Clear(a)
    BY <2>3, <2>0, <1>0 DEF Clear
  <2>4. CASE Rail(a)
    BY <2>4, <2>0, <1>0 DEF Rail
  <2>5. CASE Enable(a)
    BY <2>5, <2>0, <1>0 DEF Enable, Open
  <2>6. CASE Gripper(a)
    BY <2>6, <2>0, <1>0 DEF Gripper
  <2>7. CASE ServoMode(a)
    BY <2>7, <2>0, <1>0 DEF ServoMode
  <2>8. CASE StartThreads(a)
    BY <2>8, <2>0, <1>0 DEF StartThreads
  <2>9. CASE Streams(a)
    BY <2>9, <2>0, <1>0 DEF Streams
  <2>10. CASE ConnectRaises(a)
    BY <2>10, <2>0, <1>0 DEF ConnectRaises
  <2>11. CASE Subscribe(a)
    BY <2>11, <2>0, <1>0 DEF Subscribe
  <2>12. CASE Observe(a)
    BY <2>12, <2>0, <1>0 DEF Observe
  <2>13. CASE StartPoller(a)
    BY <2>13, <2>0, <1>0 DEF StartPoller
  <2>14. QED
    BY <1>9, <2>1, <2>2, <2>3, <2>4, <2>5, <2>6, <2>7, <2>8, <2>9, <2>10, <2>11, <2>12,
       <2>13 DEF ArmConnects, Connect
<1>10. ASSUME NEW a \in Arms, FreshReport(a) PROVE Untouched'
  BY <1>10, <1>0 DEF FreshReport
<1>11. ASSUME NEW a \in Arms, Session(a) PROVE Untouched'
  <2>0. UNCHANGED cellVars
    BY <1>11 DEF Session
  <2>1. CASE Recover(a)
    BY <2>1, <2>0, <1>0 DEF Recover
  <2>2. CASE RecoverEnables(a)
    BY <2>2, <2>0, <1>0 DEF RecoverEnables, Open
  <2>3. CASE RecoverSetsMode(a)
    BY <2>3, <2>0, <1>0 DEF RecoverSetsMode
  <2>4. CASE RecoverReads(a)
    BY <2>4, <2>0, <1>0 DEF RecoverReads
  <2>5. CASE RecoverFails(a)
    BY <2>5, <2>0, <1>0 DEF RecoverFails
  <2>6. CASE RecoverResumes(a)
    BY <2>6, <2>0, <1>0 DEF RecoverResumes
  <2>7. CASE TakesSetting(a)
    BY <2>7, <2>0, <1>0 DEF TakesSetting
  <2>8. CASE AppliesSetting(a)
    BY <2>8, <2>0, <1>0 DEF AppliesSetting
  <2>9. CASE Polls(a)
    BY <2>9, <2>0, <1>0 DEF Polls
  <2>10. CASE StopThreads(a)
    BY <2>10, <2>0, <1>0 DEF StopThreads
  <2>11. CASE JoinThreads(a)
    BY <2>11, <2>0, <1>0 DEF JoinThreads
  <2>12. CASE HandBack(a)
    BY <2>12, <2>0, <1>0 DEF HandBack, Open, MayFail
  <2>13. CASE Close(a)
    BY <2>13, <2>0, <1>0 DEF Close
  <2>14. CASE Faults(a)
    BY <2>14, <2>0, <1>0 DEF Faults
  <2>15. CASE RequestSetting(a)
    BY <2>15, <2>0, <1>0 DEF RequestSetting
  <2>16. CASE RecoverBegins(a)
    BY <2>16, <2>0, <1>0 DEF RecoverBegins
  <2>17. CASE UserClears(a)
    BY <2>17, <2>0, <1>0 DEF UserClears, ClearErrors
  <2>18. QED
    BY <1>11, <2>1, <2>2, <2>3, <2>4, <2>5, <2>6, <2>7, <2>8, <2>9, <2>10, <2>11, <2>12, <2>13,
       <2>14, <2>15, <2>16, <2>17 DEF Session, Worker, Recovery, Disconnecting
<1>12. ASSUME NEW a \in Arms, ObserverConnects(a) PROVE Untouched'
  BY <1>12, <1>0 DEF ObserverConnects
<1>13. ASSUME NEW a \in Arms, ObserverLeaves(a) PROVE Untouched'
  BY <1>13, <1>0 DEF ObserverLeaves, Disconnect, Connecting
<1>14. CASE UNCHANGED vars
  BY <1>14, <1>0 DEF vars, sessionVars
<1>15. QED
  BY <1>1, <1>2, <1>3, <1>4, <1>5, <1>6, <1>7, <1>8, <1>9, <1>10, <1>11, <1>12, <1>13,
     <1>14 DEF Next

\* Handling is preserved: start() is called again only when every arm was disconnected.
LEMMA HandlingStep ==
  TypeOK /\ Cell /\ Members' = Members /\ OwnPcs /\ Handover /\ Handling /\ [Next]_vars => Handling'
<1> SUFFICES ASSUME TypeOK, Cell, Members' = Members, OwnPcs, Handover, Handling, [Next]_vars
                PROVE Handling'
  OBVIOUS
<1> USE SessionAssumption DEF To, Phase, Go, At, Fails, Idle, InWrite, Joins, Recovers, driverVars,
   threadVars,
   boxVars, cellVars, Handling, Handover, Sessions, Turns, Cell, OwnPcs, Connecting, AtRest,
   Excused, NoneRecovers,
   Opening, sessionVars
<1>0. /\ cpc \in [Arms -> CpcSet]
      /\ err \in [Arms -> ErrSet]
      /\ wpc \in [Arms -> WpcSet]
      /\ ccp \in [Arms -> CcpSet]
      /\ dpc \in [Arms -> DpcSet]
      /\ running \in [Arms -> BOOLEAN]
      /\ released \in [Arms -> BOOLEAN]
      /\ handback \in [Arms -> HandbackSet]
      /\ api \in [Arms -> BOOLEAN]
      /\ client \in [Arms -> {"none", "open", "closed"}]
      /\ watched \in SUBSET Observed
  BY DEF TypeOK
<1>1. CASE BringUp
  BY <1>1, <1>0 DEF BringUp
<1>2. CASE NetworkStage
  BY <1>2, <1>0 DEF NetworkStage
<1>3. CASE NetworkRaises
  BY <1>3, <1>0 DEF NetworkRaises
<1>4. CASE JoinBringUp
  BY <1>4, <1>0 DEF JoinBringUp, Connecting
<1>5. CASE Shutdown
  BY <1>5, <1>0 DEF Shutdown
<1>6. CASE ShutdownDisconnects
  BY <1>6, <1>0 DEF ShutdownDisconnects, Disconnect
<1>7. CASE ShutdownEnds
  BY <1>7, <1>0 DEF ShutdownEnds
<1>8. ASSUME NEW a \in Arms, Boot(a) PROVE Handling'
  BY <1>8, <1>0 DEF Boot
<1>9. ASSUME NEW a \in Arms, ArmConnects(a) PROVE Handling'
  <2>0. /\ UNCHANGED <<mpc, order, watched, turn, network, connected, stopped>>
        /\ crashed' = (crashed \/ cpc'[a] = "crashed")
    BY <1>9 DEF ArmConnects
  <2>1. CASE Dial(a)
    BY <2>1, <2>0, <1>0 DEF Dial
  <2>2. CASE Identity(a)
    BY <2>2, <2>0, <1>0 DEF Identity
  <2>3. CASE Clear(a)
    BY <2>3, <2>0, <1>0 DEF Clear
  <2>4. CASE Rail(a)
    BY <2>4, <2>0, <1>0 DEF Rail
  <2>5. CASE Enable(a)
    BY <2>5, <2>0, <1>0 DEF Enable, Open
  <2>6. CASE Gripper(a)
    BY <2>6, <2>0, <1>0 DEF Gripper
  <2>7. CASE ServoMode(a)
    BY <2>7, <2>0, <1>0 DEF ServoMode
  <2>8. CASE StartThreads(a)
    BY <2>8, <2>0, <1>0 DEF StartThreads
  <2>9. CASE Streams(a)
    BY <2>9, <2>0, <1>0 DEF Streams
  <2>10. CASE ConnectRaises(a)
    BY <2>10, <2>0, <1>0 DEF ConnectRaises
  <2>11. CASE Subscribe(a)
    BY <2>11, <2>0, <1>0 DEF Subscribe
  <2>12. CASE Observe(a)
    BY <2>12, <2>0, <1>0 DEF Observe
  <2>13. CASE StartPoller(a)
    BY <2>13, <2>0, <1>0 DEF StartPoller
  <2>14. QED
    BY <1>9, <2>1, <2>2, <2>3, <2>4, <2>5, <2>6, <2>7, <2>8, <2>9, <2>10, <2>11, <2>12,
       <2>13 DEF ArmConnects, Connect
<1>10. ASSUME NEW a \in Arms, FreshReport(a) PROVE Handling'
  BY <1>10, <1>0 DEF FreshReport
<1>11. ASSUME NEW a \in Arms, Session(a) PROVE Handling'
  <2>0. UNCHANGED cellVars
    BY <1>11 DEF Session
  <2>1. CASE Recover(a)
    BY <2>1, <2>0, <1>0 DEF Recover
  <2>2. CASE RecoverEnables(a)
    BY <2>2, <2>0, <1>0 DEF RecoverEnables, Open
  <2>3. CASE RecoverSetsMode(a)
    BY <2>3, <2>0, <1>0 DEF RecoverSetsMode
  <2>4. CASE RecoverReads(a)
    BY <2>4, <2>0, <1>0 DEF RecoverReads
  <2>5. CASE RecoverFails(a)
    BY <2>5, <2>0, <1>0 DEF RecoverFails
  <2>6. CASE RecoverResumes(a)
    BY <2>6, <2>0, <1>0 DEF RecoverResumes
  <2>7. CASE TakesSetting(a)
    BY <2>7, <2>0, <1>0 DEF TakesSetting
  <2>8. CASE AppliesSetting(a)
    BY <2>8, <2>0, <1>0 DEF AppliesSetting
  <2>9. CASE Polls(a)
    BY <2>9, <2>0, <1>0 DEF Polls
  <2>10. CASE StopThreads(a)
    BY <2>10, <2>0, <1>0 DEF StopThreads
  <2>11. CASE JoinThreads(a)
    BY <2>11, <2>0, <1>0 DEF JoinThreads
  <2>12. CASE HandBack(a)
    BY <2>12, <2>0, <1>0 DEF HandBack, Open, MayFail
  <2>13. CASE Close(a)
    BY <2>13, <2>0, <1>0 DEF Close
  <2>14. CASE Faults(a)
    BY <2>14, <2>0, <1>0 DEF Faults
  <2>15. CASE RequestSetting(a)
    BY <2>15, <2>0, <1>0 DEF RequestSetting
  <2>16. CASE RecoverBegins(a)
    BY <2>16, <2>0, <1>0 DEF RecoverBegins
  <2>17. CASE UserClears(a)
    BY <2>17, <2>0, <1>0 DEF UserClears, ClearErrors
  <2>18. QED
    BY <1>11, <2>1, <2>2, <2>3, <2>4, <2>5, <2>6, <2>7, <2>8, <2>9, <2>10, <2>11, <2>12, <2>13,
       <2>14, <2>15, <2>16, <2>17 DEF Session, Worker, Recovery, Disconnecting
<1>12. ASSUME NEW a \in Arms, ObserverConnects(a) PROVE Handling'
  BY <1>12, <1>0 DEF ObserverConnects
<1>13. ASSUME NEW a \in Arms, ObserverLeaves(a) PROVE Handling'
  BY <1>13, <1>0 DEF ObserverLeaves, Disconnect, Connecting
<1>14. CASE UNCHANGED vars
  BY <1>14, <1>0 DEF vars, sessionVars
<1>15. QED
  BY <1>1, <1>2, <1>3, <1>4, <1>5, <1>6, <1>7, <1>8, <1>9, <1>10, <1>11, <1>12, <1>13,
     <1>14 DEF Next

\* Sessions is preserved while no bounded join runs out.
LEMMA SessionsStep ==
  TypeOK /\ Cell /\ Members' = Members /\ OwnPcs /\ Handling /\ Sessions /\ Turns /\ ~late'
    /\ [Next]_vars
  => Sessions'
<1> SUFFICES ASSUME TypeOK, Cell, Members' = Members, OwnPcs, Handling, Sessions, Turns, ~late',
   [Next]_vars
                PROVE Sessions'
  OBVIOUS
<1> USE SessionAssumption DEF To, Phase, Go, At, Fails, Idle, InWrite, Joins, Recovers, driverVars,
   threadVars,
   boxVars, cellVars, Handling, Sessions, Turns, Cell, OwnPcs, Connecting, AtRest, Opening,
   Excused,
   Starting, Open, sessionVars
<1>0. /\ cpc \in [Arms -> CpcSet]
      /\ err \in [Arms -> ErrSet]
      /\ wpc \in [Arms -> WpcSet]
      /\ ccp \in [Arms -> CcpSet]
      /\ dpc \in [Arms -> DpcSet]
      /\ running \in [Arms -> BOOLEAN]
      /\ released \in [Arms -> BOOLEAN]
      /\ handback \in [Arms -> HandbackSet]
      /\ api \in [Arms -> BOOLEAN]
      /\ client \in [Arms -> {"none", "open", "closed"}]
      /\ watched \in SUBSET Observed
  BY DEF TypeOK
<1>1. CASE BringUp
  BY <1>1, <1>0 DEF BringUp
<1>2. CASE NetworkStage
  BY <1>2, <1>0 DEF NetworkStage
<1>3. CASE NetworkRaises
  BY <1>3, <1>0 DEF NetworkRaises
<1>4. CASE JoinBringUp
  BY <1>4, <1>0 DEF JoinBringUp, Connecting
<1>5. CASE Shutdown
  BY <1>5, <1>0 DEF Shutdown
<1>6. CASE ShutdownDisconnects
  BY <1>6, <1>0 DEF ShutdownDisconnects, Disconnect
<1>7. CASE ShutdownEnds
  BY <1>7, <1>0 DEF ShutdownEnds
<1>8. ASSUME NEW a \in Arms, Boot(a) PROVE Sessions'
  BY <1>8, <1>0 DEF Boot
<1>9. ASSUME NEW a \in Arms, ArmConnects(a) PROVE Sessions'
  <2>0. /\ UNCHANGED <<mpc, order, watched, turn, network, connected, stopped>>
        /\ crashed' = (crashed \/ cpc'[a] = "crashed")
    BY <1>9 DEF ArmConnects
  <2>1. CASE Dial(a)
    BY <2>1, <2>0, <1>0 DEF Dial
  <2>2. CASE Identity(a)
    BY <2>2, <2>0, <1>0 DEF Identity
  <2>3. CASE Clear(a)
    BY <2>3, <2>0, <1>0 DEF Clear
  <2>4. CASE Rail(a)
    BY <2>4, <2>0, <1>0 DEF Rail
  <2>5. CASE Enable(a)
    BY <2>5, <2>0, <1>0 DEF Enable, Open
  <2>6. CASE Gripper(a)
    BY <2>6, <2>0, <1>0 DEF Gripper
  <2>7. CASE ServoMode(a)
    BY <2>7, <2>0, <1>0 DEF ServoMode
  <2>8. CASE StartThreads(a)
    BY <2>8, <2>0, <1>0 DEF StartThreads
  <2>9. CASE Streams(a)
    BY <2>9, <2>0, <1>0 DEF Streams
  <2>10. CASE ConnectRaises(a)
    BY <2>10, <2>0, <1>0 DEF ConnectRaises
  <2>11. CASE Subscribe(a)
    BY <2>11, <2>0, <1>0 DEF Subscribe
  <2>12. CASE Observe(a)
    BY <2>12, <2>0, <1>0 DEF Observe
  <2>13. CASE StartPoller(a)
    BY <2>13, <2>0, <1>0 DEF StartPoller
  <2>14. QED
    BY <1>9, <2>1, <2>2, <2>3, <2>4, <2>5, <2>6, <2>7, <2>8, <2>9, <2>10, <2>11, <2>12,
       <2>13 DEF ArmConnects, Connect
<1>10. ASSUME NEW a \in Arms, FreshReport(a) PROVE Sessions'
  BY <1>10, <1>0 DEF FreshReport
<1>11. ASSUME NEW a \in Arms, Session(a) PROVE Sessions'
  <2>0. UNCHANGED cellVars
    BY <1>11 DEF Session
  <2>1. CASE Recover(a)
    BY <2>1, <2>0, <1>0 DEF Recover
  <2>2. CASE RecoverEnables(a)
    BY <2>2, <2>0, <1>0 DEF RecoverEnables, Open
  <2>3. CASE RecoverSetsMode(a)
    BY <2>3, <2>0, <1>0 DEF RecoverSetsMode
  <2>4. CASE RecoverReads(a)
    BY <2>4, <2>0, <1>0 DEF RecoverReads
  <2>5. CASE RecoverFails(a)
    BY <2>5, <2>0, <1>0 DEF RecoverFails
  <2>6. CASE RecoverResumes(a)
    BY <2>6, <2>0, <1>0 DEF RecoverResumes
  <2>7. CASE TakesSetting(a)
    BY <2>7, <2>0, <1>0 DEF TakesSetting
  <2>8. CASE AppliesSetting(a)
    BY <2>8, <2>0, <1>0 DEF AppliesSetting
  <2>9. CASE Polls(a)
    BY <2>9, <2>0, <1>0 DEF Polls
  <2>10. CASE StopThreads(a)
    BY <2>10, <2>0, <1>0 DEF StopThreads
  <2>11. CASE JoinThreads(a)
    BY <2>11, <2>0, <1>0 DEF JoinThreads
  <2>12. CASE HandBack(a)
    BY <2>12, <2>0, <1>0 DEF HandBack, Open, MayFail
  <2>13. CASE Close(a)
    BY <2>13, <2>0, <1>0 DEF Close
  <2>14. CASE Faults(a)
    BY <2>14, <2>0, <1>0 DEF Faults
  <2>15. CASE RequestSetting(a)
    BY <2>15, <2>0, <1>0 DEF RequestSetting
  <2>16. CASE RecoverBegins(a)
    BY <2>16, <2>0, <1>0 DEF RecoverBegins
  <2>17. CASE UserClears(a)
    BY <2>17, <2>0, <1>0 DEF UserClears, ClearErrors
  <2>18. QED
    BY <1>11, <2>1, <2>2, <2>3, <2>4, <2>5, <2>6, <2>7, <2>8, <2>9, <2>10, <2>11, <2>12, <2>13,
       <2>14, <2>15, <2>16, <2>17 DEF Session, Worker, Recovery, Disconnecting
<1>12. ASSUME NEW a \in Arms, ObserverConnects(a) PROVE Sessions'
  BY <1>12, <1>0 DEF ObserverConnects
<1>13. ASSUME NEW a \in Arms, ObserverLeaves(a) PROVE Sessions'
  BY <1>13, <1>0 DEF ObserverLeaves, Disconnect, Connecting
<1>14. CASE UNCHANGED vars
  BY <1>14, <1>0 DEF vars, sessionVars
<1>15. QED
  BY <1>1, <1>2, <1>3, <1>4, <1>5, <1>6, <1>7, <1>8, <1>9, <1>10, <1>11, <1>12, <1>13,
     <1>14 DEF Next

\* Turns is preserved while no bounded join runs out: one disconnect() at a time, and none is left out.
LEMMA TurnsStep ==
  TypeOK /\ Cell /\ Members' = Members /\ Handling /\ Sessions /\ Turns /\ ~late' /\ [Next]_vars
  => Turns'
<1> SUFFICES ASSUME TypeOK, Cell, Members' = Members, Handling, Sessions, Turns, ~late', [Next]_vars
                PROVE Turns'
  OBVIOUS
<1> USE SessionAssumption DEF To, Phase, Go, At, Fails, Idle, InWrite, Joins, Recovers, driverVars,
   threadVars,
   boxVars, cellVars, Handling, Sessions, Turns, Cell, Connecting, Open, sessionVars
<1>0. /\ cpc \in [Arms -> CpcSet]
      /\ err \in [Arms -> ErrSet]
      /\ dpc \in [Arms -> DpcSet]
      /\ api \in [Arms -> BOOLEAN]
      /\ turn \in Seq(Arms)
      /\ order \in Seq(Arms)
      /\ watched \in SUBSET Observed
      /\ stopped \in BOOLEAN
  BY DEF TypeOK
<1>1. CASE BringUp
  BY <1>1, <1>0 DEF BringUp
<1>2. CASE NetworkStage
  BY <1>2, <1>0 DEF NetworkStage
<1>3. CASE NetworkRaises
  BY <1>3, <1>0 DEF NetworkRaises
<1>4. CASE JoinBringUp
  BY <1>4, <1>0 DEF JoinBringUp, Connecting
<1>5. CASE Shutdown
  <2>1. /\ turn' = Reverse(order) /\ mpc' = "stopping" /\ mpc = "up" /\ ~stopped
        /\ UNCHANGED <<cpc, api, dpc, stopped>>
    BY <1>5 DEF Shutdown, sessionVars
  <2>2. order \in Seq(Arms) /\ Members = {order[i] : i \in DOMAIN order}
    BY DEF TypeOK, Members
  <2>3. \A b \in Members : \E i \in DOMAIN turn' : turn'[i] = b
    BY <2>1, <2>2, Reversed
  <2>4. \A i \in DOMAIN turn' : turn'[i] \in Members
    BY <2>1, <2>2, Reversed
  <2>5. QED
    BY <2>1, <2>3, <2>4, <1>0
<1>6. CASE ShutdownDisconnects
  <2>0. /\ turn # <<>> /\ turn \in Seq(Arms) /\ mpc = "stopping" /\ mpc' = mpc
        /\ UNCHANGED <<cpc, stopped>>
    BY <1>6, <1>0 DEF ShutdownDisconnects, Disconnect, sessionVars
  <2>1. CASE api[Head(turn)] /\ dpc[Head(turn)] = "idle"
    <3>1. /\ dpc' = [dpc EXCEPT ![Head(turn)] = "stop"]
          /\ api' = [api EXCEPT ![Head(turn)] = FALSE] /\ UNCHANGED turn
      BY <1>6, <2>1 DEF ShutdownDisconnects, Disconnect
    <3>2. \A b \in Members : dpc[b] = "idle"
      BY <2>0, <2>1
    <3>3. QED
      BY <2>0, <2>1, <3>1, <3>2, <1>0
  <2>2. CASE ~(api[Head(turn)] /\ dpc[Head(turn)] = "idle")
    <3>1. turn' = Tail(turn) /\ UNCHANGED <<dpc, api>> /\ dpc[Head(turn)] = "idle" /\ ~api[Head(turn)]
      BY <1>6, <2>2, <1>0 DEF ShutdownDisconnects, sessionVars
    <3>2. \A b \in Members : dpc[b] = "idle"
      BY <2>0, <3>1
    <3>3. \A i \in DOMAIN turn : turn[i] = Head(turn) \/ \E j \in DOMAIN turn' : turn'[j] = turn[i]
      BY <2>0, <3>1, Tailed
    <3>4. \A j \in DOMAIN turn' : \E i \in DOMAIN turn : turn'[j] = turn[i]
      BY <2>0, <3>1, Tailed
    <3>5. \A b \in Members : api[b] => \E j \in DOMAIN turn' : turn'[j] = b
      <4>1. TAKE b \in Members
      <4>2. HAVE api[b]
      <4>3. PICK i \in DOMAIN turn : turn[i] = b
        BY <2>0, <4>2
      <4>4. b # Head(turn)
        BY <3>1, <4>2
      <4>5. QED
        BY ONLY <3>3, <4>3, <4>4
    <3>6. \A j \in DOMAIN turn' : turn'[j] \in Members
      <4>1. TAKE j \in DOMAIN turn'
      <4>2. PICK i \in DOMAIN turn : turn'[j] = turn[i]
        BY <3>4
      <4>3. QED
        BY <2>0, <4>2
    <3>7. err' = err
      BY <1>6, <2>2 DEF ShutdownDisconnects, sessionVars
    <3>8. QED
      BY <2>0, <3>1, <3>2, <3>5, <3>6
  <2>3. QED
    BY <2>1, <2>2
<1>7. CASE ShutdownEnds
  BY <1>7, <1>0 DEF ShutdownEnds
<1>8. ASSUME NEW a \in Arms, Boot(a) PROVE Turns'
  BY <1>8, <1>0 DEF Boot
<1>9. ASSUME NEW a \in Arms, ArmConnects(a) PROVE Turns'
  <2>0. /\ UNCHANGED <<mpc, order, watched, turn, network, connected, stopped>>
        /\ crashed' = (crashed \/ cpc'[a] = "crashed")
    BY <1>9 DEF ArmConnects
  <2>1. CASE Dial(a)
    <3>0. Connecting(a) /\ (a \notin Observed => ~api[a])
      BY <2>1, <2>0, <1>0 DEF Dial, Connecting
    <3>1. mpc = "joining" \/ a \notin Members
      BY <3>0, <1>0
    <3>2. cpc'[a] # "dial" /\ (cpc'[a] = "end" \/ cpc'[a] \in {"identity", "subscribe"})
      BY <2>1, <2>0, <1>0 DEF Dial
    <3>3. \A b \in Arms \ {a} : cpc'[b] = cpc[b] /\ api'[b] = api[b]
      BY <2>1, <2>0, <1>0 DEF Dial
    <3>4. dpc' = dpc
      BY <2>1, <2>0 DEF Dial
    <3>5. a \notin Observed => a \in Members
      BY <2>1, <2>0 DEF Dial
    <3>6. QED
      BY <2>1, <2>0, <3>1, <3>2, <3>3, <3>4, <3>5, <1>0
  <2>2. CASE Identity(a)
    BY <2>2, <2>0, <1>0 DEF Identity
  <2>3. CASE Clear(a)
    BY <2>3, <2>0, <1>0 DEF Clear
  <2>4. CASE Rail(a)
    BY <2>4, <2>0, <1>0 DEF Rail
  <2>5. CASE Enable(a)
    BY <2>5, <2>0, <1>0 DEF Enable, Open
  <2>6. CASE Gripper(a)
    BY <2>6, <2>0, <1>0 DEF Gripper
  <2>7. CASE ServoMode(a)
    BY <2>7, <2>0, <1>0 DEF ServoMode
  <2>8. CASE StartThreads(a)
    BY <2>8, <2>0, <1>0 DEF StartThreads
  <2>9. CASE Streams(a)
    BY <2>9, <2>0, <1>0 DEF Streams
  <2>10. CASE ConnectRaises(a)
    BY <2>10, <2>0, <1>0 DEF ConnectRaises
  <2>11. CASE Subscribe(a)
    BY <2>11, <2>0, <1>0 DEF Subscribe
  <2>12. CASE Observe(a)
    BY <2>12, <2>0, <1>0 DEF Observe
  <2>13. CASE StartPoller(a)
    BY <2>13, <2>0, <1>0 DEF StartPoller
  <2>14. QED
    BY <1>9, <2>1, <2>2, <2>3, <2>4, <2>5, <2>6, <2>7, <2>8, <2>9, <2>10, <2>11, <2>12,
       <2>13 DEF ArmConnects, Connect
<1>10. ASSUME NEW a \in Arms, FreshReport(a) PROVE Turns'
  <2>1. /\ cpc' = [cpc EXCEPT ![a] = "end"] /\ cpc[a] = "fresh"
        /\ UNCHANGED <<mpc, order, watched, turn, dpc, api, stopped>>
    BY <1>10 DEF FreshReport
  <2>2. /\ \A b \in Arms : b # a => cpc'[b] = cpc[b]
        /\ cpc'[a] = "end"
    BY <2>1, <1>0
  <2>3. a \notin Observed => a \in Members
    BY <2>1
  <2>4. \A b \in Arms : Connecting(b)' => Connecting(b)
    BY <2>1, <2>2
  <2>5. QED
    BY <2>1, <2>2, <2>3, <2>4, <1>0
<1>11. ASSUME NEW a \in Arms, Session(a) PROVE Turns'
  <2>0. UNCHANGED cellVars
    BY <1>11 DEF Session
  <2>1. CASE Recover(a)
    BY <2>1, <2>0, <1>0 DEF Recover
  <2>2. CASE RecoverEnables(a)
    BY <2>2, <2>0, <1>0 DEF RecoverEnables, Open
  <2>3. CASE RecoverSetsMode(a)
    BY <2>3, <2>0, <1>0 DEF RecoverSetsMode
  <2>4. CASE RecoverReads(a)
    BY <2>4, <2>0, <1>0 DEF RecoverReads
  <2>5. CASE RecoverFails(a)
    BY <2>5, <2>0, <1>0 DEF RecoverFails
  <2>6. CASE RecoverResumes(a)
    BY <2>6, <2>0, <1>0 DEF RecoverResumes
  <2>7. CASE TakesSetting(a)
    BY <2>7, <2>0, <1>0 DEF TakesSetting
  <2>8. CASE AppliesSetting(a)
    BY <2>8, <2>0, <1>0 DEF AppliesSetting
  <2>9. CASE Polls(a)
    BY <2>9, <2>0, <1>0 DEF Polls
  <2>10. CASE StopThreads(a)
    BY <2>10, <2>0, <1>0 DEF StopThreads
  <2>11. CASE JoinThreads(a)
    BY <2>11, <2>0, <1>0 DEF JoinThreads
  <2>12. CASE HandBack(a)
    BY <2>12, <2>0, <1>0 DEF HandBack, Open, MayFail
  <2>13. CASE Close(a)
    BY <2>13, <2>0, <1>0 DEF Close
  <2>14. CASE Faults(a)
    BY <2>14, <2>0, <1>0 DEF Faults
  <2>15. CASE RequestSetting(a)
    BY <2>15, <2>0, <1>0 DEF RequestSetting
  <2>16. CASE RecoverBegins(a)
    BY <2>16, <2>0, <1>0 DEF RecoverBegins
  <2>17. CASE UserClears(a)
    BY <2>17, <2>0, <1>0 DEF UserClears, ClearErrors
  <2>18. QED
    BY <1>11, <2>1, <2>2, <2>3, <2>4, <2>5, <2>6, <2>7, <2>8, <2>9, <2>10, <2>11, <2>12, <2>13,
       <2>14, <2>15, <2>16, <2>17 DEF Session, Worker, Recovery, Disconnecting
<1>12. ASSUME NEW a \in Arms, ObserverConnects(a) PROVE Turns'
  BY <1>12, <1>0 DEF ObserverConnects
<1>13. ASSUME NEW a \in Arms, ObserverLeaves(a) PROVE Turns'
  BY <1>13, <1>0 DEF ObserverLeaves, Disconnect, Connecting
<1>14. CASE UNCHANGED vars
  BY <1>14, <1>0 DEF vars, sessionVars
<1>15. QED
  BY <1>1, <1>2, <1>3, <1>4, <1>5, <1>6, <1>7, <1>8, <1>9, <1>10, <1>11, <1>12, <1>13,
     <1>14 DEF Next

\* Reports is preserved while no bounded join runs out and no connect thread dies.
LEMMA ReportsStep ==
  TypeOK /\ Cell /\ Members' = Members /\ Errs /\ OwnPcs /\ Handling /\ Sessions /\ Turns
    /\ Reports /\ ~late /\ ~crashed' /\ [Next]_vars
  => Reports'
<1> SUFFICES ASSUME TypeOK, Cell, Members' = Members, Errs, OwnPcs, Handling, Sessions, Turns,
   Reports, ~late, ~crashed', [Next]_vars
                PROVE Reports'
  OBVIOUS
<1> USE SessionAssumption DEF To, Phase, Go, At, Fails, Idle, InWrite, Joins, Recovers, driverVars,
   threadVars,
   boxVars, cellVars, Errs, OwnPcs, Sessions, Turns, Handling, Reports, Cell, Connecting,
   sessionVars
<1>0. /\ cpc \in [Arms -> CpcSet]
      /\ err \in [Arms -> ErrSet]
      /\ dpc \in [Arms -> DpcSet]
      /\ api \in [Arms -> BOOLEAN]
      /\ connected \in [Arms -> BOOLEAN]
      /\ watched \in SUBSET Observed
      /\ crashed \in BOOLEAN
      /\ stopped \in BOOLEAN
      /\ network \in [Arms -> NetworkSet]
  BY DEF TypeOK
<1>1. CASE BringUp
  BY <1>1, <1>0 DEF BringUp
<1>2. CASE NetworkStage
  BY <1>2, <1>0 DEF NetworkStage
<1>3. CASE NetworkRaises
  BY <1>3, <1>0 DEF NetworkRaises
<1>4. CASE JoinBringUp
  BY <1>4, <1>0 DEF JoinBringUp, Connecting
<1>5. CASE Shutdown
  BY <1>5, <1>0 DEF Shutdown
<1>6. CASE ShutdownDisconnects
  BY <1>6, <1>0 DEF ShutdownDisconnects, Disconnect
<1>7. CASE ShutdownEnds
  BY <1>7, <1>0 DEF ShutdownEnds
<1>8. ASSUME NEW a \in Arms, Boot(a) PROVE Reports'
  BY <1>8, <1>0 DEF Boot
<1>9. ASSUME NEW a \in Arms, ArmConnects(a) PROVE Reports'
  <2>0. /\ UNCHANGED <<mpc, order, watched, turn, network, connected, stopped>>
        /\ crashed' = (crashed \/ cpc'[a] = "crashed")
    BY <1>9 DEF ArmConnects
  <2>1. CASE Dial(a)
    BY <2>1, <2>0, <1>0 DEF Dial
  <2>2. CASE Identity(a)
    BY <2>2, <2>0, <1>0 DEF Identity
  <2>3. CASE Clear(a)
    BY <2>3, <2>0, <1>0 DEF Clear
  <2>4. CASE Rail(a)
    BY <2>4, <2>0, <1>0 DEF Rail
  <2>5. CASE Enable(a)
    BY <2>5, <2>0, <1>0 DEF Enable, Open
  <2>6. CASE Gripper(a)
    BY <2>6, <2>0, <1>0 DEF Gripper
  <2>7. CASE ServoMode(a)
    BY <2>7, <2>0, <1>0 DEF ServoMode
  <2>8. CASE StartThreads(a)
    BY <2>8, <2>0, <1>0 DEF StartThreads
  <2>9. CASE Streams(a)
    BY <2>9, <2>0, <1>0 DEF Streams
  <2>10. CASE ConnectRaises(a)
    BY <2>10, <2>0, <1>0 DEF ConnectRaises
  <2>11. CASE Subscribe(a)
    BY <2>11, <2>0, <1>0 DEF Subscribe
  <2>12. CASE Observe(a)
    BY <2>12, <2>0, <1>0 DEF Observe
  <2>13. CASE StartPoller(a)
    BY <2>13, <2>0, <1>0 DEF StartPoller
  <2>14. QED
    BY <1>9, <2>1, <2>2, <2>3, <2>4, <2>5, <2>6, <2>7, <2>8, <2>9, <2>10, <2>11, <2>12,
       <2>13 DEF ArmConnects, Connect
<1>10. ASSUME NEW a \in Arms, FreshReport(a) PROVE Reports'
  BY <1>10, <1>0 DEF FreshReport
<1>11. ASSUME NEW a \in Arms, Session(a) PROVE Reports'
  <2>0. UNCHANGED cellVars
    BY <1>11 DEF Session
  <2>1. CASE Recover(a)
    BY <2>1, <2>0, <1>0 DEF Recover
  <2>2. CASE RecoverEnables(a)
    BY <2>2, <2>0, <1>0 DEF RecoverEnables, Open
  <2>3. CASE RecoverSetsMode(a)
    BY <2>3, <2>0, <1>0 DEF RecoverSetsMode
  <2>4. CASE RecoverReads(a)
    BY <2>4, <2>0, <1>0 DEF RecoverReads
  <2>5. CASE RecoverFails(a)
    BY <2>5, <2>0, <1>0 DEF RecoverFails
  <2>6. CASE RecoverResumes(a)
    BY <2>6, <2>0, <1>0 DEF RecoverResumes
  <2>7. CASE TakesSetting(a)
    BY <2>7, <2>0, <1>0 DEF TakesSetting
  <2>8. CASE AppliesSetting(a)
    BY <2>8, <2>0, <1>0 DEF AppliesSetting
  <2>9. CASE Polls(a)
    BY <2>9, <2>0, <1>0 DEF Polls
  <2>10. CASE StopThreads(a)
    BY <2>10, <2>0, <1>0 DEF StopThreads
  <2>11. CASE JoinThreads(a)
    BY <2>11, <2>0, <1>0 DEF JoinThreads
  <2>12. CASE HandBack(a)
    BY <2>12, <2>0, <1>0 DEF HandBack, Open, MayFail
  <2>13. CASE Close(a)
    BY <2>13, <2>0, <1>0 DEF Close
  <2>14. CASE Faults(a)
    BY <2>14, <2>0, <1>0 DEF Faults
  <2>15. CASE RequestSetting(a)
    BY <2>15, <2>0, <1>0 DEF RequestSetting
  <2>16. CASE RecoverBegins(a)
    BY <2>16, <2>0, <1>0 DEF RecoverBegins
  <2>17. CASE UserClears(a)
    BY <2>17, <2>0, <1>0 DEF UserClears, ClearErrors
  <2>18. QED
    BY <1>11, <2>1, <2>2, <2>3, <2>4, <2>5, <2>6, <2>7, <2>8, <2>9, <2>10, <2>11, <2>12, <2>13,
       <2>14, <2>15, <2>16, <2>17 DEF Session, Worker, Recovery, Disconnecting
<1>12. ASSUME NEW a \in Arms, ObserverConnects(a) PROVE Reports'
  BY <1>12, <1>0 DEF ObserverConnects
<1>13. ASSUME NEW a \in Arms, ObserverLeaves(a) PROVE Reports'
  BY <1>13, <1>0 DEF ObserverLeaves, Disconnect, Connecting
<1>14. CASE UNCHANGED vars
  BY <1>14, <1>0 DEF vars, sessionVars
<1>15. QED
  BY <1>1, <1>2, <1>3, <1>4, <1>5, <1>6, <1>7, <1>8, <1>9, <1>10, <1>11, <1>12, <1>13,
     <1>14 DEF Next

\* A bounded join that ran out is not forgotten.
LEMMA LateStays == [Next]_vars => (late => late')
<1> SUFFICES ASSUME [Next]_vars, late PROVE late'
  OBVIOUS
<1> USE DEF cellVars, sessionVars
<1>1. CASE BringUp
  BY <1>1 DEF BringUp
<1>2. CASE NetworkStage
  BY <1>2 DEF NetworkStage
<1>3. CASE NetworkRaises
  BY <1>3 DEF NetworkRaises
<1>4. CASE JoinBringUp
  BY <1>4 DEF JoinBringUp, Connecting
<1>5. CASE Shutdown
  BY <1>5 DEF Shutdown
<1>6. CASE ShutdownDisconnects
  BY <1>6 DEF ShutdownDisconnects, Disconnect
<1>7. CASE ShutdownEnds
  BY <1>7 DEF ShutdownEnds
<1>8. ASSUME NEW a \in Arms, Boot(a) PROVE late'
  BY <1>8 DEF Boot
<1>9. ASSUME NEW a \in Arms, ArmConnects(a) PROVE late'
  <2>0. /\ UNCHANGED <<mpc, order, watched, turn, network, connected, stopped>>
        /\ crashed' = (crashed \/ cpc'[a] = "crashed")
    BY <1>9 DEF ArmConnects
  <2>1. CASE Dial(a)
    BY <2>1, <2>0 DEF Dial
  <2>2. CASE Identity(a)
    BY <2>2, <2>0 DEF Identity
  <2>3. CASE Clear(a)
    BY <2>3, <2>0 DEF Clear
  <2>4. CASE Rail(a)
    BY <2>4, <2>0 DEF Rail
  <2>5. CASE Enable(a)
    BY <2>5, <2>0 DEF Enable, Open
  <2>6. CASE Gripper(a)
    BY <2>6, <2>0 DEF Gripper
  <2>7. CASE ServoMode(a)
    BY <2>7, <2>0 DEF ServoMode
  <2>8. CASE StartThreads(a)
    BY <2>8, <2>0 DEF StartThreads
  <2>9. CASE Streams(a)
    BY <2>9, <2>0 DEF Streams
  <2>10. CASE ConnectRaises(a)
    BY <2>10, <2>0 DEF ConnectRaises
  <2>11. CASE Subscribe(a)
    BY <2>11, <2>0 DEF Subscribe
  <2>12. CASE Observe(a)
    BY <2>12, <2>0 DEF Observe
  <2>13. CASE StartPoller(a)
    BY <2>13, <2>0 DEF StartPoller
  <2>14. QED
    BY <1>9, <2>1, <2>2, <2>3, <2>4, <2>5, <2>6, <2>7, <2>8, <2>9, <2>10, <2>11, <2>12,
       <2>13 DEF ArmConnects, Connect
<1>10. ASSUME NEW a \in Arms, FreshReport(a) PROVE late'
  BY <1>10 DEF FreshReport
<1>11. ASSUME NEW a \in Arms, Session(a) PROVE late'
  <2>0. UNCHANGED cellVars
    BY <1>11 DEF Session
  <2>1. CASE Recover(a)
    BY <2>1, <2>0 DEF Recover
  <2>2. CASE RecoverEnables(a)
    BY <2>2, <2>0 DEF RecoverEnables, Open
  <2>3. CASE RecoverSetsMode(a)
    BY <2>3, <2>0 DEF RecoverSetsMode
  <2>4. CASE RecoverReads(a)
    BY <2>4, <2>0 DEF RecoverReads
  <2>5. CASE RecoverFails(a)
    BY <2>5, <2>0 DEF RecoverFails
  <2>6. CASE RecoverResumes(a)
    BY <2>6, <2>0 DEF RecoverResumes
  <2>7. CASE TakesSetting(a)
    BY <2>7, <2>0 DEF TakesSetting
  <2>8. CASE AppliesSetting(a)
    BY <2>8, <2>0 DEF AppliesSetting
  <2>9. CASE Polls(a)
    BY <2>9, <2>0 DEF Polls
  <2>10. CASE StopThreads(a)
    BY <2>10, <2>0 DEF StopThreads
  <2>11. CASE JoinThreads(a)
    BY <2>11, <2>0 DEF JoinThreads, Joins
  <2>12. CASE HandBack(a)
    BY <2>12, <2>0 DEF HandBack, Open, MayFail
  <2>13. CASE Close(a)
    BY <2>13, <2>0 DEF Close
  <2>14. CASE Faults(a)
    BY <2>14, <2>0 DEF Faults
  <2>15. CASE RequestSetting(a)
    BY <2>15, <2>0 DEF RequestSetting
  <2>16. CASE RecoverBegins(a)
    BY <2>16, <2>0 DEF RecoverBegins
  <2>17. CASE UserClears(a)
    BY <2>17, <2>0 DEF UserClears, ClearErrors
  <2>18. QED
    BY <1>11, <2>1, <2>2, <2>3, <2>4, <2>5, <2>6, <2>7, <2>8, <2>9, <2>10, <2>11, <2>12, <2>13,
       <2>14, <2>15, <2>16, <2>17 DEF Session, Worker, Recovery, Disconnecting
<1>12. ASSUME NEW a \in Arms, ObserverConnects(a) PROVE late'
  BY <1>12 DEF ObserverConnects
<1>13. ASSUME NEW a \in Arms, ObserverLeaves(a) PROVE late'
  BY <1>13 DEF ObserverLeaves, Disconnect, Connecting
<1>14. CASE UNCHANGED vars
  BY <1>14 DEF vars, sessionVars
<1>15. QED
  BY <1>1, <1>2, <1>3, <1>4, <1>5, <1>6, <1>7, <1>8, <1>9, <1>10, <1>11, <1>12, <1>13,
     <1>14 DEF Next

\* The inductive invariant.
IInv ==
  /\ TypeOK
  /\ Cell
  /\ ObserverPcs
  /\ OwnPcs
  /\ Handling
  /\ Errs
  /\ Callers
  /\ Untouched
  /\ Handover
  /\ Reports

\* The initial state satisfies it.
LEMMA InvInit == Init => IInv
<1> SUFFICES ASSUME Init PROVE IInv
  OBVIOUS
<1> USE SessionAssumption DEF Init, SessionInit
<1>1. PICK c \in Cells : order = c.arms /\ watched = c.watched
  OBVIOUS
<1>2. order \in Seq(Arms \ Observed) /\ watched \subseteq Observed
  BY <1>1, CellAssumption
<1>3. order \in Seq(Arms) /\ Members \subseteq Arms \ Observed
  BY <1>2 DEF Members
<1>4. TypeOK
  <2>1. /\ cpc \in [Arms -> CpcSet] /\ wpc \in [Arms -> WpcSet] /\ ccp \in [Arms -> CcpSet]
        /\ dpc \in [Arms -> DpcSet]
    BY DEF CpcSet, WpcSet, CcpSet, DpcSet
  <2>2. /\ phase \in [Arms -> PhaseSet] /\ err \in [Arms -> ErrSet]
        /\ handback \in [Arms -> HandbackSet]
    BY DEF PhaseSet, ErrSet, HandbackSet
  <2>3. network \in [Arms -> NetworkSet] /\ mpc \in MpcSet
    BY DEF NetworkSet, MpcSet
  <2>4. /\ api \in [Arms -> BOOLEAN] /\ running \in [Arms -> BOOLEAN]
        /\ setting \in [Arms -> BOOLEAN] /\ connected \in [Arms -> BOOLEAN]
        /\ client \in [Arms -> {"none", "open", "closed"}] /\ released \in [Arms -> BOOLEAN]
        /\ late \in BOOLEAN /\ stopped \in BOOLEAN /\ crashed \in BOOLEAN
    OBVIOUS
  <2>5. turn \in Seq(Arms)
    OBVIOUS
  <2>6. QED
    BY <1>2, <1>3, <2>1, <2>2, <2>3, <2>4, <2>5 DEF TypeOK
<1>5. Cell /\ ObserverPcs /\ OwnPcs
  BY <1>3 DEF Cell, ObserverPcs, OwnPcs
<1>6. Handling /\ Errs /\ Callers
  BY <1>3 DEF Handling, Errs, Callers, Connecting
<1>7. Untouched
  BY DEF Untouched, Opening, Early
<1>8. Sessions
  BY DEF Sessions, AtRest, Starting, Opening, Connecting
<1>9. Turns
  BY <1>3 DEF Turns, Connecting
<1>10. Reports
  BY <1>3 DEF Reports, Connecting
<1>11. QED
  BY <1>4, <1>5, <1>6, <1>7, <1>8, <1>9, <1>10 DEF IInv, Handover

\* Every step preserves it.
LEMMA InvStep == IInv /\ [Next]_vars => IInv'
<1> SUFFICES ASSUME IInv, [Next]_vars PROVE IInv'
  OBVIOUS
<1>1. /\ TypeOK /\ Cell /\ ObserverPcs /\ OwnPcs /\ Handling /\ Errs /\ Callers
      /\ Untouched /\ Handover /\ Reports
  BY DEF IInv
<1>2. Members' = Members /\ watched' = watched
  BY CellFixed
<1>3. late => late'
  BY LateStays
<1>4. TypeOK'
  BY <1>1, TypeStep
<1>5. Cell'
  BY <1>1, <1>2 DEF Cell
<1>6. ObserverPcs' /\ OwnPcs'
  BY <1>1, ObserverStep, OwnStep
<1>7. Handling'
  BY <1>1, <1>2, HandlingStep
<1>8. Errs' /\ Callers' /\ Untouched'
  BY <1>1, <1>2, ErrsStep, CallersStep, UntouchedStep
<1>9. Handover'
  <2>1. CASE late'
    BY <2>1 DEF Handover
  <2>2. CASE ~late'
    <3>1. Sessions /\ Turns
      BY <1>1, <1>3, <2>2 DEF Handover
    <3>2. Sessions' /\ Turns'
      BY <1>1, <1>2, <2>2, <3>1, SessionsStep, TurnsStep
    <3>3. QED
      BY <3>2 DEF Handover
  <2>3. QED
    BY <2>1, <2>2
<1>10. Reports'
  <2>1. CASE late
    BY <1>3, <2>1 DEF Reports
  <2>2. CASE crashed'
    BY <2>2 DEF Reports
  <2>3. CASE ~late /\ ~crashed'
    <3>1. Sessions /\ Turns
      BY <1>1, <2>3 DEF Handover
    <3>2. QED
      BY <1>1, <1>2, <2>3, <3>1, ReportsStep
  <2>4. QED
    BY <2>1, <2>2, <2>3
<1>11. QED
  BY <1>4, <1>5, <1>6, <1>7, <1>8, <1>9, <1>10 DEF IInv

\* Every reachable state satisfies it: bring-ups, shutdowns, observers, recoveries and faults
\* of all arms, in any interleaving.
THEOREM Inductive == Spec => []IInv
BY InvInit, InvStep, PTL DEF Spec

\* Every variable of the workcell and of its sessions keeps its range.
THEOREM TypeCorrect == Spec => []TypeOK
<1>1. IInv => TypeOK
  BY DEF IInv
<1>2. QED
  BY <1>1, Inductive, PTL

\* An arm that connect() refuses before motion_enable() (network, dial, identity, track)
\* keeps its brakes engaged, late joins and dying threads included, unless the hand-back of
\* an earlier session was refused by its box or crossed by clear_errors().
THEOREM RefusedIsNotReleased == Spec => []RefusedKeepsBrakes
<1>1. IInv => RefusedKeepsBrakes
  <2> SUFFICES ASSUME IInv, NEW a \in Members, err[a] \in Early, released[a]
               PROVE Excused(a)
    BY DEF RefusedKeepsBrakes, Early
  <2>1. a \in Arms \ Observed
    BY DEF IInv, Cell
  <2>2. cpc[a] = "end"
    BY <2>1 DEF IInv, Errs, Early
  <2>3. QED
    BY <2>1, <2>2 DEF IInv, Untouched
<1>2. QED
  BY <1>1, Inductive, PTL

\* shutdown() hands every arm back, whatever its connect() and its threads were doing; brakes
\* are still released only where the box refused that or clear_errors() crossed it.
THEOREM ArmsHandedBack == Spec => []HandedBack
<1>1. IInv => HandedBack
  <2> SUFFICES ASSUME IInv, mpc = "up", stopped, ~late, NEW a \in Members
               PROVE /\ client[a] # "open" /\ ~running[a] /\ ~api[a]
                     /\ released[a] => Excused(a)
    BY DEF HandedBack
  <2>1. a \in Arms \ Observed /\ Sessions /\ Turns
    BY DEF IInv, Cell, Handover
  <2>2. ~api[a] /\ dpc[a] = "idle"
    BY <2>1 DEF Turns, IInv, TypeOK
  <2>3. QED
    BY <2>1, <2>2 DEF Sessions, AtRest
<1>2. QED
  BY <1>1, Inductive, PTL

\* start() reports as connected exactly the arms that have a session and no error.
THEOREM StartIsTruthful == Spec => []StartTellsTheTruth
<1>1. IInv => StartTellsTheTruth
  <2> SUFFICES ASSUME IInv, mpc = "up", ~stopped, ~late, ~crashed, NEW a \in Members
               PROVE connected[a] <=> (err[a] = "none" /\ api[a])
    BY DEF StartTellsTheTruth
  <2>1. a \in Arms \ Observed /\ Sessions /\ Turns
    BY DEF IInv, Cell, Handover
  <2>2. ~Connecting(a)
    BY <2>1 DEF Turns
  <2>3. (connected[a] <=> cpc[a] = "end" /\ err[a] = "none") /\ cpc[a] \notin {"none", "crashed"}
    BY DEF IInv, Reports
  <2>4. connected[a] => api[a]
    BY DEF IInv, Reports
  <2>5. QED
    BY <2>2, <2>3, <2>4 DEF Connecting
<1>2. QED
  BY <1>1, Inductive, PTL

\* A read-only connection never changes the brakes, through connect, polls and disconnect.
THEOREM ObserversTouchNothing == Spec => ObserverTouchesNothing
<1>1. IInv /\ [Next]_vars => [\A a \in Observed : released'[a] = released[a]]_vars
  <2> SUFFICES ASSUME TypeOK, Cell, ObserverPcs, [Next]_vars, NEW o \in Observed
               PROVE released'[o] = released[o]
    BY DEF IInv
  <2> USE SessionAssumption DEF To, Phase, Go, At, Fails, Idle, InWrite, Joins, Recovers, sessionVars,
          driverVars,
          threadVars, boxVars, cellVars
  <2>0. /\ released \in [Arms -> BOOLEAN] /\ o \in Arms
        /\ cpc[o] # "enable" /\ wpc[o] # "enable" /\ ccp[o] # "enable" /\ dpc[o] # "handback"
    BY DEF TypeOK, ObserverPcs
  <2>1. CASE BringUp
    BY <2>1, <2>0 DEF BringUp
  <2>2. CASE NetworkStage
    BY <2>2, <2>0 DEF NetworkStage
  <2>3. CASE NetworkRaises
    BY <2>3, <2>0 DEF NetworkRaises
  <2>4. CASE JoinBringUp
    BY <2>4, <2>0 DEF JoinBringUp, Connecting
  <2>5. CASE Shutdown
    BY <2>5, <2>0 DEF Shutdown
  <2>6. CASE ShutdownDisconnects
    BY <2>6, <2>0 DEF ShutdownDisconnects, Disconnect
  <2>7. CASE ShutdownEnds
    BY <2>7, <2>0 DEF ShutdownEnds
  <2>8. ASSUME NEW a \in Arms, Boot(a) PROVE released'[o] = released[o]
    BY <2>8, <2>0 DEF Boot
  <2>9. ASSUME NEW a \in Arms, ArmConnects(a) PROVE released'[o] = released[o]
    <3>0. /\ UNCHANGED <<mpc, order, watched, turn, network, connected, stopped>>
          /\ crashed' = (crashed \/ cpc'[a] = "crashed")
      BY <2>9 DEF ArmConnects
    <3>1. CASE Dial(a)
      BY <3>1, <3>0, <2>0 DEF Dial
    <3>2. CASE Identity(a)
      BY <3>2, <3>0, <2>0 DEF Identity
    <3>3. CASE Clear(a)
      BY <3>3, <3>0, <2>0 DEF Clear
    <3>4. CASE Rail(a)
      BY <3>4, <3>0, <2>0 DEF Rail
    <3>5. CASE Enable(a)
      BY <3>5, <3>0, <2>0 DEF Enable, Open
    <3>6. CASE Gripper(a)
      BY <3>6, <3>0, <2>0 DEF Gripper
    <3>7. CASE ServoMode(a)
      BY <3>7, <3>0, <2>0 DEF ServoMode
    <3>8. CASE StartThreads(a)
      BY <3>8, <3>0, <2>0 DEF StartThreads
    <3>9. CASE Streams(a)
      BY <3>9, <3>0, <2>0 DEF Streams
    <3>10. CASE ConnectRaises(a)
      BY <3>10, <3>0, <2>0 DEF ConnectRaises
    <3>11. CASE Subscribe(a)
      BY <3>11, <3>0, <2>0 DEF Subscribe
    <3>12. CASE Observe(a)
      BY <3>12, <3>0, <2>0 DEF Observe
    <3>13. CASE StartPoller(a)
      BY <3>13, <3>0, <2>0 DEF StartPoller
    <3>14. QED
      BY <2>9, <3>1, <3>2, <3>3, <3>4, <3>5, <3>6, <3>7, <3>8, <3>9, <3>10, <3>11, <3>12,
         <3>13 DEF ArmConnects, Connect
  <2>10. ASSUME NEW a \in Arms, FreshReport(a) PROVE released'[o] = released[o]
    BY <2>10, <2>0 DEF FreshReport
  <2>11. ASSUME NEW a \in Arms, Session(a) PROVE released'[o] = released[o]
    <3>0. UNCHANGED cellVars
      BY <2>11 DEF Session
    <3>1. CASE Recover(a)
      BY <3>1, <3>0, <2>0 DEF Recover
    <3>2. CASE RecoverEnables(a)
      BY <3>2, <3>0, <2>0 DEF RecoverEnables, Open
    <3>3. CASE RecoverSetsMode(a)
      BY <3>3, <3>0, <2>0 DEF RecoverSetsMode
    <3>4. CASE RecoverReads(a)
      BY <3>4, <3>0, <2>0 DEF RecoverReads
    <3>5. CASE RecoverFails(a)
      BY <3>5, <3>0, <2>0 DEF RecoverFails
    <3>6. CASE RecoverResumes(a)
      BY <3>6, <3>0, <2>0 DEF RecoverResumes
    <3>7. CASE TakesSetting(a)
      BY <3>7, <3>0, <2>0 DEF TakesSetting
    <3>8. CASE AppliesSetting(a)
      BY <3>8, <3>0, <2>0 DEF AppliesSetting
    <3>9. CASE Polls(a)
      BY <3>9, <3>0, <2>0 DEF Polls
    <3>10. CASE StopThreads(a)
      BY <3>10, <3>0, <2>0 DEF StopThreads
    <3>11. CASE JoinThreads(a)
      BY <3>11, <3>0, <2>0 DEF JoinThreads
    <3>12. CASE HandBack(a)
      BY <3>12, <3>0, <2>0 DEF HandBack, Open, MayFail
    <3>13. CASE Close(a)
      BY <3>13, <3>0, <2>0 DEF Close
    <3>14. CASE Faults(a)
      BY <3>14, <3>0, <2>0 DEF Faults
    <3>15. CASE RequestSetting(a)
      BY <3>15, <3>0, <2>0 DEF RequestSetting
    <3>16. CASE RecoverBegins(a)
      BY <3>16, <3>0, <2>0 DEF RecoverBegins
    <3>17. CASE UserClears(a)
      BY <3>17, <3>0, <2>0 DEF UserClears, ClearErrors
    <3>18. QED
      BY <2>11, <3>1, <3>2, <3>3, <3>4, <3>5, <3>6, <3>7, <3>8, <3>9, <3>10, <3>11, <3>12, <3>13,
         <3>14, <3>15, <3>16, <3>17 DEF Session, Worker, Recovery, Disconnecting
  <2>12. ASSUME NEW a \in Arms, ObserverConnects(a) PROVE released'[o] = released[o]
    BY <2>12, <2>0 DEF ObserverConnects
  <2>13. ASSUME NEW a \in Arms, ObserverLeaves(a) PROVE released'[o] = released[o]
    BY <2>13, <2>0 DEF ObserverLeaves, Disconnect, Connecting
  <2>14. CASE UNCHANGED vars
    BY <2>14, <2>0 DEF vars, sessionVars
  <2>15. QED
    BY <2>1, <2>2, <2>3, <2>4, <2>5, <2>6, <2>7, <2>8, <2>9, <2>10, <2>11, <2>12, <2>13,
       <2>14 DEF Next
<1>2. QED
  BY <1>1, Inductive, PTL DEF Spec, ObserverTouchesNothing
================================================================================
