------------------------------- MODULE Workcell -------------------------------
(***************************************************************************)
(* The arms of a HardwareWorkcell (workcell.py): those of one configuration*)
(* are brought up in parallel, each in a thread of its own and all within  *)
(* a deadline, and shut down one after the other.  One thread calls        *)
(* start() and stop(), in turns; mpc is where it is, turn the arm whose    *)
(* disconnect() it is in.  An arm in Observed is not in the configuration: *)
(* somebody else connects it read-only and disconnects it.                 *)
(***************************************************************************)
EXTENDS ArmSession, Sequences, FiniteSets, SequencesExt

CONSTANT Cells           \* what may be set up: the arms of a workcell, and those observed

ASSUME CellAssumption ==
  \A c \in Cells : /\ c.arms \in Seq(Arms \ Observed) /\ IsInjective(c.arms)
                    /\ c.watched \subseteq Observed

VARIABLES mpc,
          order,         \* the configured arms, in order
          watched,       \* arms that somebody observes
          turn,          \* arms that shutdown() has still to disconnect
          network,       \* ArmBringupStatus.network
          connected,     \* ArmBringupStatus.connected
          stopped,       \* _stopped
          crashed        \* a thread of the bring-up died of an SDK exception

cellVars == <<mpc, order, watched, turn, network, connected, stopped, crashed>>
vars == <<sessionVars, cellVars>>

MpcSet == {"idle", "network", "joining", "up", "stopping"}
NetworkSet == {"pending", "ok", "booting", "failed"}
Members == {order[i] : i \in DOMAIN order}

Init ==
  /\ SessionInit
  /\ mpc = "idle" /\ turn = <<>> /\ stopped = FALSE /\ crashed = FALSE
  /\ \E c \in Cells : order = c.arms /\ watched = c.watched
  /\ network = [a \in Arms |-> "pending"] /\ connected = [a \in Arms |-> FALSE]

(***************************************************************************)
(* bring_up()                                                              *)
(***************************************************************************)
\* bound: start() is not called while a caller of clear_errors() is in a recovery of the session
\* before, or its monitor waits for the lock: it would go on in the new session
NoneRecovers == \A a \in Arms : ccp[a] = "idle" /\ wpc[a] # "lock"

BringUp ==
  /\ mpc \in {"idle", "up"} /\ ~late /\ NoneRecovers
  /\ \A a \in Members : ~api[a]
  /\ mpc' = "network" /\ stopped' = FALSE /\ crashed' = FALSE
  /\ network' = [a \in Arms |-> "pending"] /\ connected' = [a \in Arms |-> FALSE]
  /\ err' = [a \in Arms |-> IF a \in Members THEN "none" ELSE err[a]]
  /\ UNCHANGED <<threadVars, api, running, phase, setting, boxVars, late, order, watched, turn>>

\* verify, then match on a miss; then one thread for every arm
NetworkStage ==
  /\ mpc = "network" /\ mpc' = "joining"
  /\ network' \in [Arms -> NetworkSet]
  /\ \A a \in Arms : IF a \in Members
                       THEN network'[a] # "pending" /\ (network'[a] = "failed" => a \in Faulty)
                       ELSE network'[a] = network[a]
  /\ cpc' = [a \in Arms |-> IF a \in Members THEN "boot" ELSE cpc[a]]
  /\ UNCHANGED <<wpc, ccp, dpc, driverVars, boxVars, late,
                 order, watched, turn, connected, stopped, crashed>>

NetworkRaises ==                   \* verify or match raises: no arm has a network
  /\ mpc = "network" /\ mpc' = "joining"
  /\ network' = [a \in Arms |-> IF a \in Members THEN "failed" ELSE network[a]]
  /\ cpc' = [a \in Arms |-> IF a \in Members THEN "boot" ELSE cpc[a]]
  /\ UNCHANGED <<wpc, ccp, dpc, driverVars, boxVars, late,
                 order, watched, turn, connected, stopped, crashed>>

\* (mutant) one thread brings the arms up, one after the other
BootInTurn(a) ==
  /\ cpc[a] = "boot" /\ \A b \in Members \ {a} : Connecting(b) => cpc[b] = "boot"
  /\ To(a, IF network[a] = "failed" THEN "end" ELSE "dial")
  /\ UNCHANGED <<wpc, ccp, dpc, api, running, phase, setting, boxVars, late, err, network,
                 mpc, order, watched, turn, connected, stopped, crashed>>

\* the thread of arm a: poll_502 until the box is up or the deadline has passed
Boot(a) ==
  /\ cpc[a] = "boot"
  /\ \/ network[a] \in {"ok", "booting"} /\ To(a, "dial")
        /\ network' = [network EXCEPT ![a] = "ok"] /\ UNCHANGED err
     \/ network[a] = "failed" /\ Fails(a, "network") /\ UNCHANGED network
     \/ network[a] = "booting" /\ a \in Faulty /\ Fails(a, "network")
        /\ network' = [network EXCEPT ![a] = "failed"]
  /\ UNCHANGED <<wpc, ccp, dpc, api, running, phase, setting, boxVars, late,
                 mpc, order, watched, turn, connected, stopped, crashed>>

ArmConnects(a) ==
  /\ Connect(a)
  /\ crashed' = (crashed \/ cpc'[a] = "crashed")
  /\ UNCHANGED <<mpc, order, watched, turn, network, connected, stopped>>

\* (mutant) connected before a report has come
ReportNotAwaited(a) ==
  /\ cpc[a] = "fresh" /\ To(a, "end")
  /\ connected' = [connected EXCEPT ![a] = TRUE]
  /\ err' = [err EXCEPT ![a] = IF a \in Faulty THEN "report" ELSE "none"]
  /\ UNCHANGED <<wpc, ccp, dpc, api, running, phase, setting, boxVars, late,
                 mpc, order, watched, turn, network, stopped, crashed>>

FreshReport(a) ==                  \* one snapshot within FRESH_REPORT_TIMEOUT_S
  /\ cpc[a] = "fresh"
  /\ \/ To(a, "end") /\ connected' = [connected EXCEPT ![a] = TRUE] /\ UNCHANGED err
     \/ MayFail(a) /\ Fails(a, "report") /\ UNCHANGED connected
  /\ UNCHANGED <<wpc, ccp, dpc, api, running, phase, setting, boxVars, late,
                 mpc, order, watched, turn, network, stopped, crashed>>

\* t.join for every thread; the deadline leaves a thread inside an SDK call behind
JoinBringUp ==
  /\ mpc = "joining" /\ mpc' = "up"
  /\ IF \A a \in Members : ~Connecting(a)
       THEN UNCHANGED late
       ELSE late' = TRUE /\ \A a \in Members : Connecting(a) => a \in Faulty
  /\ UNCHANGED <<threadVars, driverVars, boxVars, order, watched, turn, network, connected,
                 stopped, crashed>>

(***************************************************************************)
(* shutdown()                                                              *)
(***************************************************************************)
Shutdown ==
  /\ mpc = "up" /\ ~stopped
  /\ mpc' = "stopping" /\ turn' = Reverse(order)
  /\ UNCHANGED <<sessionVars, order, watched, network, connected, stopped, crashed>>

ShutdownDisconnects ==             \* one arm after the other; without _api at once
  /\ mpc = "stopping" /\ turn # <<>>
  /\ IF api[Head(turn)] /\ dpc[Head(turn)] = "idle"
       THEN Disconnect(Head(turn)) /\ UNCHANGED turn
       ELSE dpc[Head(turn)] = "idle" /\ turn' = Tail(turn) /\ UNCHANGED sessionVars
  /\ UNCHANGED <<mpc, order, watched, network, connected, stopped, crashed>>

ShutdownEnds ==
  /\ mpc = "stopping" /\ turn = <<>>
  /\ mpc' = "up" /\ stopped' = TRUE
  /\ UNCHANGED <<sessionVars, order, watched, turn, network, connected, crashed>>

(***************************************************************************)
(* The other threads.                                                      *)
(***************************************************************************)
\* bound: clear_errors() is called for arms that the last start() has connected
UserClears(a) ==
  /\ a \in Members /\ mpc \in {"up", "stopping"} /\ connected[a] /\ ClearErrors(a)

Session(a) ==
  /\ \/ Worker(a) \/ Recovery(a) \/ UserClears(a) \/ Disconnecting(a) \/ Faults(a)
     \/ RequestSetting(a)
  /\ UNCHANGED cellVars

\* an observer connects and disconnects an arm read-only
ObserverConnects(a) ==
  /\ a \in watched /\ cpc[a] \in {"none", "end", "crashed"} /\ ~api[a] /\ dpc[a] = "idle"
  /\ To(a, "dial") /\ err' = [err EXCEPT ![a] = "none"]
  /\ UNCHANGED <<wpc, ccp, dpc, api, running, phase, setting, boxVars, late, cellVars>>

ObserverLeaves(a) ==
  /\ a \in watched /\ ~Connecting(a) /\ Disconnect(a)
  /\ UNCHANGED cellVars

Next ==
  \/ BringUp \/ NetworkStage \/ NetworkRaises \/ JoinBringUp
  \/ Shutdown \/ ShutdownDisconnects \/ ShutdownEnds
  \/ \E a \in Arms : \/ Boot(a) \/ ArmConnects(a) \/ FreshReport(a) \/ Session(a)
                     \/ ObserverConnects(a) \/ ObserverLeaves(a)

Spec == Init /\ [][Next]_vars

(***************************************************************************)
(* Properties                                                              *)
(***************************************************************************)
\* Every variable keeps its range.
TypeOK ==
  /\ cpc \in [Arms -> CpcSet] /\ wpc \in [Arms -> WpcSet]
  /\ ccp \in [Arms -> CcpSet] /\ dpc \in [Arms -> DpcSet]
  /\ api \in [Arms -> BOOLEAN] /\ running \in [Arms -> BOOLEAN] /\ phase \in [Arms -> PhaseSet]
  /\ setting \in [Arms -> BOOLEAN] /\ err \in [Arms -> ErrSet]
  /\ client \in [Arms -> {"none", "open", "closed"}] /\ released \in [Arms -> BOOLEAN]
  /\ handback \in [Arms -> HandbackSet] /\ late \in BOOLEAN /\ mpc \in MpcSet
  /\ order \in Seq(Arms) /\ watched \subseteq Observed /\ turn \in Seq(Arms)
  /\ network \in [Arms -> NetworkSet] /\ connected \in [Arms -> BOOLEAN]
  /\ stopped \in BOOLEAN /\ crashed \in BOOLEAN

\* What keeps the brakes of an arm released beyond its session: its box refused the last
\* hand-back, or a caller of clear_errors() was past its read of _api and before its
\* motion_enable(True) when the arm was handed back.
Excused(a) == handback[a] \in {"refused", "crossed"}

\* After shutdown() no arm of the workcell is left with a client, a running thread or
\* released brakes, however its connect ended and whatever its monitor or a caller of
\* clear_errors() was in the middle of, unless a bounded join ran out inside an SDK write;
\* brakes stay released only for the two reasons of Excused.
HandedBack ==
  mpc = "up" /\ stopped /\ ~late =>
    \A a \in Members : /\ client[a] # "open" /\ ~running[a] /\ ~api[a]
                        /\ released[a] => Excused(a)

\* An arm that is refused before it is enabled keeps its brakes engaged, unless the session
\* before had already left them released.
RefusedKeepsBrakes ==
  \A a \in Members :
    err[a] \in {"network", "connect", "identity", "rail"} /\ released[a] => Excused(a)

\* start() that raises nothing has every arm connected, and an arm is reported
\* connected only while it is neither refused nor without a client, unless a join
\* ran out or a thread died of an SDK exception.
StartTellsTheTruth ==
  mpc = "up" /\ ~stopped /\ ~late /\ ~crashed =>
    \A a \in Members : connected[a] <=> (err[a] = "none" /\ api[a])

\* A read-only connection never touches the brakes: they are as it found them.
ObserverTouchesNothing ==
  [][\A a \in Observed : released'[a] = released[a]]_vars

\* verify or match raised: the whole workcell is without a network.
NetworkLost == \A a \in Members : network[a] = "failed"

\* An arm that is in order is connected, whatever happens to the others, a thread
\* that hangs in an SDK call included, unless the network stage itself raised.
SiblingConnects ==
  \A a \in Arms \ Faulty : (mpc = "network" /\ a \in Members) ~> (connected[a] \/ NetworkLost)

\* A shutdown comes to its end, with arms in any phase of a session.
ShutdownCompletes == mpc = "stopping" ~> mpc = "up"
=============================================================================
