--------------------------- MODULE RailTrackProofs ---------------------------
(***************************************************************************)
(* Proofs about RailTrack, for any travel, any set of requests and, unless *)
(* a theorem says otherwise, any set of threads calling home().            *)
(***************************************************************************)
EXTENDS RailTrack, TLAPS

\* One thread at most calls home(): the rail-homing job of the runtime.
SingleHomer == \A g, h \in Homers : g = h

(***************************************************************************)
(* The clamp of units.rail_m_to_mm keeps every command inside the travel,  *)
(* and leaves a request that is already inside it alone.                   *)
(***************************************************************************)
LEMMA ClampInTravel ==
  ASSUME NEW p \in Int
  PROVE  Clamp(p) \in Positions /\ (p \in Positions => Clamp(p) = p)
  BY RailAssumption DEF Clamp, Positions

(***************************************************************************)
(* The placeholder of an unknown position is the zero end of the travel.   *)
(***************************************************************************)
LEMMA ZeroInTravel == 0 \in Positions
  BY RailAssumption DEF Positions

(***************************************************************************)
(* Whatever happens to the track, its registers stay readable as such.     *)
(***************************************************************************)
LEMMA FailedTrackStillAnswers ==
  ASSUME regs \in Registers, TrackFails PROVE regs' \in Registers
<1>1. \A f \in Registers : /\ [f EXCEPT !.error = TRUE] \in Registers
                           /\ [f EXCEPT !.is_enabled = FALSE] \in Registers
  BY DEF Registers
<1>2. [on_zero |-> FALSE, is_enabled |-> FALSE, error |-> FALSE] \in Registers
  BY DEF Registers
<1>3. QED
  BY <1>1, <1>2 DEF TrackFails

(***************************************************************************)
(* Type correctness: in particular nothing but a position of the travel is *)
(* ever sent to the track.                                                 *)
(***************************************************************************)
THEOREM TypeCorrect == Spec => []TypeOK
<1>1. Init => TypeOK
  BY ZeroInTravel DEF Init, TypeOK, RailPhase, Registers, MonitorPc, HomerPc
<1>2. TypeOK /\ [Next]_vars => TypeOK'
  <2> SUFFICES ASSUME TypeOK, [Next]_vars PROVE TypeOK'
    OBVIOUS
  <2> USE RailAssumption
          DEF TypeOK, railVars, trackVars, Positions, RailPhase, Registers, MonitorPc, HomerPc
  <2>1. CASE DetectAbsent
    BY <2>1 DEF DetectAbsent, StayDown
  <2>2. CASE ConnectRefused
    BY <2>2 DEF ConnectRefused, StayDown
  <2>3. CASE ConnectUnhomed
    <3>1. pos' \in Positions /\ posKnown' \in BOOLEAN
      BY <2>3, ZeroInTravel DEF ConnectUnhomed
    <3>2. conn' = "up" /\ phase' \in RailPhase
      BY <2>3 DEF ConnectUnhomed
    <3>3. UNCHANGED <<target, homing, mpc, loaded, hpc, outcome, cpc, carriage,
                      goal, lastSent, cleaned, regs>>
      BY <2>3 DEF ConnectUnhomed, StayDown
    <3>4. QED
      BY <3>1, <3>2, <3>3
  <2>4. CASE ConnectHomed
    BY <2>4 DEF ConnectHomed, StayDown
  <2>5. CASE ConnectReadonly
    <3>1. pos' \in Positions /\ posKnown' \in BOOLEAN
      BY <2>5, ZeroInTravel DEF ConnectReadonly, Observed
    <3>2. QED
      BY <2>5, <3>1 DEF ConnectReadonly, StayDown
  <2>6. CASE ObserveRegisters
    <3>1. pos' \in Positions /\ posKnown' \in BOOLEAN
      BY <2>6, ZeroInTravel DEF ObserveRegisters, Observed
    <3>2. QED
      BY <2>6, <3>1 DEF ObserveRegisters, StayDown
  <2>7. ASSUME NEW p \in Requests, SetTarget(p) PROVE TypeOK'
    BY <2>7 DEF SetTarget
  <2>8. CASE StepBegin
    BY <2>8 DEF StepBegin
  <2>9. CASE StepReadPos
    BY <2>9 DEF StepReadPos
  <2>10. CASE StepLoad
    BY <2>10, ClampInTravel DEF StepLoad
  <2>11. CASE StepSendOk
    BY <2>11 DEF StepSendOk
  <2>12. CASE StepSendFails
    BY <2>12 DEF StepSendFails
  <2>13. CASE StepClean
    <3>1. regs' \in Registers
      BY <2>13 DEF StepClean
    <3>2. QED
      BY <2>13, <3>1 DEF StepClean
  <2>14. CASE StepFault
    BY <2>14 DEF StepFault
  <2>15. CASE MonitorDropsTarget
    BY <2>15 DEF MonitorDropsTarget
  <2>16. CASE MonitorLatch
    BY <2>16 DEF MonitorLatch
  <2>17. CASE CallerLatch
    BY <2>17 DEF CallerLatch
  <2>18. CASE CallerDropsTarget
    BY <2>18 DEF CallerDropsTarget
  <2>19. ASSUME NEW h \in Homers, HomeBegin(h) PROVE TypeOK'
    BY <2>19 DEF HomeBegin, Goto
  <2>20. ASSUME NEW h \in Homers, HomeBarrier(h) PROVE TypeOK'
    BY <2>20 DEF HomeBarrier, Goto
  <2>21. ASSUME NEW h \in Homers, HomePreRead(h) PROVE TypeOK'
    BY <2>21 DEF HomePreRead, Goto
  <2>22. ASSUME NEW h \in Homers, HomeOrigin(h) PROVE TypeOK'
    <3>1. regs' \in Registers /\ carriage' \in Positions
      BY <2>22, ZeroInTravel DEF HomeOrigin
    <3>2. hpc' \in [Homers -> HomerPc]
      BY <2>22 DEF HomeOrigin, Goto
    <3>3. QED
      BY <2>22, <3>1, <3>2 DEF HomeOrigin
  <2>23. ASSUME NEW h \in Homers, HomeEnable(h) PROVE TypeOK'
    <3>1. regs' \in Registers
      BY <2>23 DEF HomeEnable
    <3>2. hpc' \in [Homers -> HomerPc]
      BY <2>23 DEF HomeEnable, Goto
    <3>3. QED
      BY <2>23, <3>1, <3>2 DEF HomeEnable
  <2>24. ASSUME NEW h \in Homers, HomeReadBack(h) PROVE TypeOK'
    BY <2>24 DEF HomeReadBack, Goto, Homed
  <2>25. ASSUME NEW h \in Homers, HomeClearTarget(h) PROVE TypeOK'
    BY <2>25 DEF HomeClearTarget, Goto
  <2>26. ASSUME NEW h \in Homers, HomeReady(h) PROVE TypeOK'
    <3>1. posKnown' \in BOOLEAN /\ cleaned' \in BOOLEAN
      BY <2>26 DEF HomeReady
    <3>2. hpc' \in [Homers -> HomerPc]
      BY <2>26 DEF HomeReady, Goto
    <3>3. outcome' \in [Homers -> {"none", "unwritten", "ok", "failed"}]
      BY <2>26 DEF HomeReady
    <3>4. phase' \in RailPhase /\ lastSent' \in Positions \cup {Empty}
      BY <2>26 DEF HomeReady
    <3>5. UNCHANGED <<conn, pos, target, homing, mpc, loaded, cpc, trackVars>>
      BY <2>26 DEF HomeReady
    <3>6. QED
      BY <3>1, <3>2, <3>3, <3>4, <3>5
  <2>27. ASSUME NEW h \in Homers, HomeFault(h) PROVE TypeOK'
    BY <2>27 DEF HomeFault, Goto
  <2>28. ASSUME NEW h \in Homers, HomeDropsTarget(h) PROVE TypeOK'
    BY <2>28 DEF HomeDropsTarget, Goto
  <2>29. ASSUME NEW h \in Homers, HomeEnd(h) PROVE TypeOK'
    <3>1. hpc' \in [Homers -> HomerPc] /\ homing' \in BOOLEAN
      BY <2>29 DEF HomeEnd, Goto
    <3>2. UNCHANGED <<conn, phase, pos, posKnown, target, lastSent, cleaned,
                      mpc, loaded, outcome, cpc, trackVars>>
      BY <2>29 DEF HomeEnd
    <3>3. QED
      BY <3>1, <3>2
  <2>30. CASE TrackMoves
    BY <2>30 DEF TrackMoves
  <2>31. CASE TrackFails
    <3>1. regs' \in Registers
      BY <2>31, FailedTrackStillAnswers
    <3>2. QED
      BY <2>31, <3>1 DEF TrackFails
  <2>32. CASE HomedByOperator
    BY <2>32 DEF HomedByOperator
  <2>33. CASE UNCHANGED vars
    BY <2>33 DEF vars
  <2>34. QED
    BY <2>1, <2>2, <2>3, <2>4, <2>5, <2>6, <2>7, <2>8, <2>9, <2>10, <2>11, <2>12, <2>13, <2>14, <2>15, <2>16, <2>17, <2>18, <2>19, <2>20, <2>21, <2>22, <2>23, <2>24, <2>25, <2>26, <2>27, <2>28, <2>29, <2>30, <2>31, <2>32, <2>33, [Next]_vars
    DEF Next, Bringup, Monitor, Home, Track
<1>3. QED
  BY <1>1, <1>2, PTL DEF Spec

(***************************************************************************)
(* A faulted or unhomed track keeps no target.  A connection that is not   *)
(* up has none either, which is what makes the invariant inductive.        *)
(***************************************************************************)
ParkedInv ==
  /\ FaultDropsTarget
  /\ conn # "up" => target = Empty

THEOREM FaultedTargetsDropped == Spec => []FaultDropsTarget
<1>1. Init => ParkedInv
  BY DEF Init, ParkedInv, FaultDropsTarget
<1>2. TypeOK /\ ParkedInv /\ [Next]_vars => ParkedInv'
  <2> SUFFICES ASSUME TypeOK, ParkedInv, [Next]_vars PROVE ParkedInv'
    OBVIOUS
  <2> USE DEF ParkedInv, FaultDropsTarget, TypeOK, railVars, trackVars
  <2>1. CASE DetectAbsent
    BY <2>1 DEF DetectAbsent, StayDown
  <2>2. CASE ConnectRefused
    BY <2>2 DEF ConnectRefused, StayDown
  <2>3. CASE ConnectUnhomed
    BY <2>3 DEF ConnectUnhomed, StayDown
  <2>4. CASE ConnectHomed
    BY <2>4 DEF ConnectHomed, StayDown
  <2>5. CASE ConnectReadonly
    BY <2>5 DEF ConnectReadonly, StayDown, Observed
  <2>6. CASE ObserveRegisters
    BY <2>6 DEF ObserveRegisters, StayDown, Observed
  <2>7. ASSUME NEW p \in Requests, SetTarget(p) PROVE ParkedInv'
    BY <2>7 DEF SetTarget
  <2>8. CASE StepBegin
    BY <2>8 DEF StepBegin
  <2>9. CASE StepReadPos
    BY <2>9 DEF StepReadPos
  <2>10. CASE StepLoad
    BY <2>10 DEF StepLoad
  <2>11. CASE StepSendOk
    BY <2>11 DEF StepSendOk
  <2>12. CASE StepSendFails
    BY <2>12 DEF StepSendFails
  <2>13. CASE StepClean
    BY <2>13 DEF StepClean
  <2>14. CASE StepFault
    BY <2>14 DEF StepFault
  <2>15. CASE MonitorDropsTarget
    BY <2>15 DEF MonitorDropsTarget
  <2>16. CASE MonitorLatch
    BY <2>16 DEF MonitorLatch
  <2>17. CASE CallerLatch
    BY <2>17 DEF CallerLatch
  <2>18. CASE CallerDropsTarget
    BY <2>18 DEF CallerDropsTarget
  <2>19. ASSUME NEW h \in Homers, HomeBegin(h) PROVE ParkedInv'
    BY <2>19 DEF HomeBegin, Goto
  <2>20. ASSUME NEW h \in Homers, HomeBarrier(h) PROVE ParkedInv'
    BY <2>20 DEF HomeBarrier, Goto
  <2>21. ASSUME NEW h \in Homers, HomePreRead(h) PROVE ParkedInv'
    BY <2>21 DEF HomePreRead, Goto
  <2>22. ASSUME NEW h \in Homers, HomeOrigin(h) PROVE ParkedInv'
    BY <2>22 DEF HomeOrigin, Goto
  <2>23. ASSUME NEW h \in Homers, HomeEnable(h) PROVE ParkedInv'
    BY <2>23 DEF HomeEnable, Goto
  <2>24. ASSUME NEW h \in Homers, HomeReadBack(h) PROVE ParkedInv'
    BY <2>24 DEF HomeReadBack, Goto, Homed
  <2>25. ASSUME NEW h \in Homers, HomeClearTarget(h) PROVE ParkedInv'
    BY <2>25 DEF HomeClearTarget, Goto
  <2>26. ASSUME NEW h \in Homers, HomeReady(h) PROVE ParkedInv'
    BY <2>26 DEF HomeReady, Goto
  <2>27. ASSUME NEW h \in Homers, HomeFault(h) PROVE ParkedInv'
    BY <2>27 DEF HomeFault, Goto
  <2>28. ASSUME NEW h \in Homers, HomeDropsTarget(h) PROVE ParkedInv'
    BY <2>28 DEF HomeDropsTarget, Goto
  <2>29. ASSUME NEW h \in Homers, HomeEnd(h) PROVE ParkedInv'
    BY <2>29 DEF HomeEnd, Goto
  <2>30. CASE TrackMoves
    BY <2>30 DEF TrackMoves
  <2>31. CASE TrackFails
    BY <2>31 DEF TrackFails
  <2>32. CASE HomedByOperator
    BY <2>32 DEF HomedByOperator
  <2>33. CASE UNCHANGED vars
    BY <2>33 DEF vars
  <2>34. QED
    BY <2>1, <2>2, <2>3, <2>4, <2>5, <2>6, <2>7, <2>8, <2>9, <2>10, <2>11, <2>12, <2>13, <2>14, <2>15, <2>16, <2>17, <2>18, <2>19, <2>20, <2>21, <2>22, <2>23, <2>24, <2>25, <2>26, <2>27, <2>28, <2>29, <2>30, <2>31, <2>32, <2>33, [Next]_vars
    DEF Next, Bringup, Monitor, Home, Track
<1>3. ParkedInv => FaultDropsTarget
  BY DEF ParkedInv
<1>4. QED
  BY <1>1, <1>2, <1>3, TypeCorrect, PTL DEF Spec

(***************************************************************************)
(* The latch of home() is up while a thread is inside it, and past the     *)
(* barrier the monitor is off the bus.  With one thread calling home() the *)
(* latch it raises is lowered by nobody else, so the two facts are         *)
(* inductive together; the target stays empty under the latch.             *)
(***************************************************************************)
BusInv ==
  /\ \A h \in Homers : hpc[h] # "idle" => homing
  /\ BusExclusion
  /\ \A h \in Homers : hpc[h] # "idle" => target = Empty

LEMMA BusInvariant == ASSUME SingleHomer PROVE Spec => []BusInv
<1>1. Init => BusInv
  BY DEF Init, BusInv, BusExclusion, AfterBarrier
<1>2. TypeOK /\ BusInv /\ [Next]_vars => BusInv'
  <2> SUFFICES ASSUME TypeOK, BusInv, [Next]_vars PROVE BusInv'
    OBVIOUS
  <2> USE SingleHomer DEF SingleHomer, BusInv, BusExclusion, AfterBarrier, InStep,
          TypeOK, railVars, trackVars, HomerPc
  <2>1. CASE DetectAbsent
    BY <2>1 DEF DetectAbsent, StayDown
  <2>2. CASE ConnectRefused
    BY <2>2 DEF ConnectRefused, StayDown
  <2>3. CASE ConnectUnhomed
    BY <2>3 DEF ConnectUnhomed, StayDown
  <2>4. CASE ConnectHomed
    BY <2>4 DEF ConnectHomed, StayDown
  <2>5. CASE ConnectReadonly
    BY <2>5 DEF ConnectReadonly, StayDown, Observed
  <2>6. CASE ObserveRegisters
    BY <2>6 DEF ObserveRegisters, StayDown, Observed
  <2>7. ASSUME NEW p \in Requests, SetTarget(p) PROVE BusInv'
    BY <2>7 DEF SetTarget
  <2>8. CASE StepBegin
    BY <2>8 DEF StepBegin
  <2>9. CASE StepReadPos
    BY <2>9 DEF StepReadPos
  <2>10. CASE StepLoad
    BY <2>10 DEF StepLoad
  <2>11. CASE StepSendOk
    BY <2>11 DEF StepSendOk
  <2>12. CASE StepSendFails
    BY <2>12 DEF StepSendFails
  <2>13. CASE StepClean
    BY <2>13 DEF StepClean
  <2>14. CASE StepFault
    BY <2>14 DEF StepFault
  <2>15. CASE MonitorDropsTarget
    BY <2>15 DEF MonitorDropsTarget
  <2>16. CASE MonitorLatch
    BY <2>16 DEF MonitorLatch
  <2>17. CASE CallerLatch
    BY <2>17 DEF CallerLatch
  <2>18. CASE CallerDropsTarget
    BY <2>18 DEF CallerDropsTarget
  <2>19. ASSUME NEW h \in Homers, HomeBegin(h) PROVE BusInv'
    BY <2>19 DEF HomeBegin, Goto
  <2>20. ASSUME NEW h \in Homers, HomeBarrier(h) PROVE BusInv'
    BY <2>20 DEF HomeBarrier, Goto
  <2>21. ASSUME NEW h \in Homers, HomePreRead(h) PROVE BusInv'
    BY <2>21 DEF HomePreRead, Goto
  <2>22. ASSUME NEW h \in Homers, HomeOrigin(h) PROVE BusInv'
    BY <2>22 DEF HomeOrigin, Goto
  <2>23. ASSUME NEW h \in Homers, HomeEnable(h) PROVE BusInv'
    BY <2>23 DEF HomeEnable, Goto
  <2>24. ASSUME NEW h \in Homers, HomeReadBack(h) PROVE BusInv'
    BY <2>24 DEF HomeReadBack, Goto, Homed
  <2>25. ASSUME NEW h \in Homers, HomeClearTarget(h) PROVE BusInv'
    BY <2>25 DEF HomeClearTarget, Goto
  <2>26. ASSUME NEW h \in Homers, HomeReady(h) PROVE BusInv'
    BY <2>26 DEF HomeReady, Goto
  <2>27. ASSUME NEW h \in Homers, HomeFault(h) PROVE BusInv'
    BY <2>27 DEF HomeFault, Goto
  <2>28. ASSUME NEW h \in Homers, HomeDropsTarget(h) PROVE BusInv'
    BY <2>28 DEF HomeDropsTarget, Goto
  <2>29. ASSUME NEW h \in Homers, HomeEnd(h) PROVE BusInv'
    BY <2>29 DEF HomeEnd, Goto
  <2>30. CASE TrackMoves
    BY <2>30 DEF TrackMoves
  <2>31. CASE TrackFails
    BY <2>31 DEF TrackFails
  <2>32. CASE HomedByOperator
    BY <2>32 DEF HomedByOperator
  <2>33. CASE UNCHANGED vars
    BY <2>33 DEF vars
  <2>34. QED
    BY <2>1, <2>2, <2>3, <2>4, <2>5, <2>6, <2>7, <2>8, <2>9, <2>10, <2>11, <2>12, <2>13, <2>14, <2>15, <2>16, <2>17, <2>18, <2>19, <2>20, <2>21, <2>22, <2>23, <2>24, <2>25, <2>26, <2>27, <2>28, <2>29, <2>30, <2>31, <2>32, <2>33, [Next]_vars
    DEF Next, Bringup, Monitor, Home, Track
<1>3. QED
  BY <1>1, <1>2, TypeCorrect, PTL DEF Spec

(***************************************************************************)
(* While home() is past its barrier, step() is not on the bus.             *)
(***************************************************************************)
THEOREM HomingHasTheBus == ASSUME SingleHomer PROVE Spec => []BusExclusion
<1>1. BusInv => BusExclusion
  BY DEF BusInv
<1>2. QED
  BY <1>1, BusInvariant, PTL

(***************************************************************************)
(* A track that a homing makes READY starts with nothing to do.            *)
(***************************************************************************)
THEOREM HomedTrackStartsEmpty == ASSUME SingleHomer PROVE Spec => ReadyStartsEmpty
<1> DEFINE Empties == \A h \in Homers : outcome'[h] = "ok" /\ outcome[h] # "ok"
                                         => target' = Empty /\ ~InStep'
<1>1. TypeOK /\ BusInv /\ [Next]_vars => [Empties]_vars
  <2> SUFFICES ASSUME TypeOK, BusInv, [Next]_vars PROVE Empties \/ UNCHANGED vars
    OBVIOUS
  <2> USE DEF Empties, BusInv, BusExclusion, AfterBarrier, InStep,
          TypeOK, railVars, trackVars, HomerPc
  <2>1. CASE DetectAbsent
    BY <2>1 DEF DetectAbsent, StayDown
  <2>2. CASE ConnectRefused
    BY <2>2 DEF ConnectRefused, StayDown
  <2>3. CASE ConnectUnhomed
    BY <2>3 DEF ConnectUnhomed, StayDown
  <2>4. CASE ConnectHomed
    BY <2>4 DEF ConnectHomed, StayDown
  <2>5. CASE ConnectReadonly
    BY <2>5 DEF ConnectReadonly, StayDown, Observed
  <2>6. CASE ObserveRegisters
    BY <2>6 DEF ObserveRegisters, StayDown, Observed
  <2>7. ASSUME NEW p \in Requests, SetTarget(p) PROVE Empties
    BY <2>7 DEF SetTarget
  <2>8. CASE StepBegin
    BY <2>8 DEF StepBegin
  <2>9. CASE StepReadPos
    BY <2>9 DEF StepReadPos
  <2>10. CASE StepLoad
    BY <2>10 DEF StepLoad
  <2>11. CASE StepSendOk
    BY <2>11 DEF StepSendOk
  <2>12. CASE StepSendFails
    BY <2>12 DEF StepSendFails
  <2>13. CASE StepClean
    BY <2>13 DEF StepClean
  <2>14. CASE StepFault
    BY <2>14 DEF StepFault
  <2>15. CASE MonitorDropsTarget
    BY <2>15 DEF MonitorDropsTarget
  <2>16. CASE MonitorLatch
    BY <2>16 DEF MonitorLatch
  <2>17. CASE CallerLatch
    BY <2>17 DEF CallerLatch
  <2>18. CASE CallerDropsTarget
    BY <2>18 DEF CallerDropsTarget
  <2>19. ASSUME NEW h \in Homers, HomeBegin(h) PROVE Empties
    BY <2>19 DEF HomeBegin, Goto
  <2>20. ASSUME NEW h \in Homers, HomeBarrier(h) PROVE Empties
    BY <2>20 DEF HomeBarrier, Goto
  <2>21. ASSUME NEW h \in Homers, HomePreRead(h) PROVE Empties
    BY <2>21 DEF HomePreRead, Goto
  <2>22. ASSUME NEW h \in Homers, HomeOrigin(h) PROVE Empties
    BY <2>22 DEF HomeOrigin, Goto
  <2>23. ASSUME NEW h \in Homers, HomeEnable(h) PROVE Empties
    BY <2>23 DEF HomeEnable, Goto
  <2>24. ASSUME NEW h \in Homers, HomeReadBack(h) PROVE Empties
    BY <2>24 DEF HomeReadBack, Goto, Homed
  <2>25. ASSUME NEW h \in Homers, HomeClearTarget(h) PROVE Empties
    BY <2>25 DEF HomeClearTarget, Goto
  <2>26. ASSUME NEW h \in Homers, HomeReady(h) PROVE Empties
    BY <2>26 DEF HomeReady, Goto
  <2>27. ASSUME NEW h \in Homers, HomeFault(h) PROVE Empties
    BY <2>27 DEF HomeFault, Goto
  <2>28. ASSUME NEW h \in Homers, HomeDropsTarget(h) PROVE Empties
    BY <2>28 DEF HomeDropsTarget, Goto
  <2>29. ASSUME NEW h \in Homers, HomeEnd(h) PROVE Empties
    BY <2>29 DEF HomeEnd, Goto
  <2>30. CASE TrackMoves
    BY <2>30 DEF TrackMoves
  <2>31. CASE TrackFails
    BY <2>31 DEF TrackFails
  <2>32. CASE HomedByOperator
    BY <2>32 DEF HomedByOperator
  <2>33. CASE UNCHANGED vars
    BY <2>33 DEF vars
  <2>34. QED
    BY <2>1, <2>2, <2>3, <2>4, <2>5, <2>6, <2>7, <2>8, <2>9, <2>10, <2>11, <2>12, <2>13, <2>14, <2>15, <2>16, <2>17, <2>18, <2>19, <2>20, <2>21, <2>22, <2>23, <2>24, <2>25, <2>26, <2>27, <2>28, <2>29, <2>30, <2>31, <2>32, <2>33, [Next]_vars
    DEF Next, Bringup, Monitor, Home, Track
<1>2. QED
  BY <1>1, TypeCorrect, BusInvariant, PTL DEF Spec, ReadyStartsEmpty

(***************************************************************************)
(* Inside step() the track stays READY: the phase is only taken away by    *)
(* the monitor itself, outside step() or at its end, and by a home() that  *)
(* step() never overlaps, unless a caller of clear_errors() latches the    *)
(* error 111; the position is a measurement all the same.                  *)
(***************************************************************************)
SendInv ==
  /\ phase = "READY" => posKnown
  /\ InStep => posKnown
  /\ cpc = "absent" /\ InStep /\ mpc # "drop" => phase = "READY"
  /\ conn # "up" => phase # "READY" /\ mpc = "idle"
                     /\ \A h \in Homers : hpc[h] = "idle"

THEOREM OnlyReadyTrackCommanded ==
  ASSUME SingleHomer PROVE Spec => []SendOnlyWhenCommandable
<1>1. Init => SendInv
  BY DEF Init, SendInv, InStep
<1>2. TypeOK /\ BusInv /\ SendInv /\ [Next]_vars => SendInv'
  <2> SUFFICES ASSUME TypeOK, BusInv, SendInv, [Next]_vars PROVE SendInv'
    OBVIOUS
  <2> USE DEF SendInv, BusInv, BusExclusion, AfterBarrier, InStep,
          TypeOK, railVars, trackVars, HomerPc
  <2>1. CASE DetectAbsent
    BY <2>1 DEF DetectAbsent, StayDown
  <2>2. CASE ConnectRefused
    BY <2>2 DEF ConnectRefused, StayDown
  <2>3. CASE ConnectUnhomed
    BY <2>3 DEF ConnectUnhomed, StayDown
  <2>4. CASE ConnectHomed
    BY <2>4 DEF ConnectHomed, StayDown
  <2>5. CASE ConnectReadonly
    BY <2>5 DEF ConnectReadonly, StayDown, Observed
  <2>6. CASE ObserveRegisters
    BY <2>6 DEF ObserveRegisters, StayDown, Observed
  <2>7. ASSUME NEW p \in Requests, SetTarget(p) PROVE SendInv'
    BY <2>7 DEF SetTarget
  <2>8. CASE StepBegin
    BY <2>8 DEF StepBegin
  <2>9. CASE StepReadPos
    BY <2>9 DEF StepReadPos
  <2>10. CASE StepLoad
    BY <2>10 DEF StepLoad
  <2>11. CASE StepSendOk
    BY <2>11 DEF StepSendOk
  <2>12. CASE StepSendFails
    BY <2>12 DEF StepSendFails
  <2>13. CASE StepClean
    BY <2>13 DEF StepClean
  <2>14. CASE StepFault
    BY <2>14 DEF StepFault
  <2>15. CASE MonitorDropsTarget
    BY <2>15 DEF MonitorDropsTarget
  <2>16. CASE MonitorLatch
    BY <2>16 DEF MonitorLatch
  <2>17. CASE CallerLatch
    BY <2>17 DEF CallerLatch
  <2>18. CASE CallerDropsTarget
    BY <2>18 DEF CallerDropsTarget
  <2>19. ASSUME NEW h \in Homers, HomeBegin(h) PROVE SendInv'
    BY <2>19 DEF HomeBegin, Goto
  <2>20. ASSUME NEW h \in Homers, HomeBarrier(h) PROVE SendInv'
    BY <2>20 DEF HomeBarrier, Goto
  <2>21. ASSUME NEW h \in Homers, HomePreRead(h) PROVE SendInv'
    BY <2>21 DEF HomePreRead, Goto
  <2>22. ASSUME NEW h \in Homers, HomeOrigin(h) PROVE SendInv'
    BY <2>22 DEF HomeOrigin, Goto
  <2>23. ASSUME NEW h \in Homers, HomeEnable(h) PROVE SendInv'
    BY <2>23 DEF HomeEnable, Goto
  <2>24. ASSUME NEW h \in Homers, HomeReadBack(h) PROVE SendInv'
    BY <2>24 DEF HomeReadBack, Goto, Homed
  <2>25. ASSUME NEW h \in Homers, HomeClearTarget(h) PROVE SendInv'
    BY <2>25 DEF HomeClearTarget, Goto
  <2>26. ASSUME NEW h \in Homers, HomeReady(h) PROVE SendInv'
    BY <2>26 DEF HomeReady, Goto
  <2>27. ASSUME NEW h \in Homers, HomeFault(h) PROVE SendInv'
    BY <2>27 DEF HomeFault, Goto
  <2>28. ASSUME NEW h \in Homers, HomeDropsTarget(h) PROVE SendInv'
    BY <2>28 DEF HomeDropsTarget, Goto
  <2>29. ASSUME NEW h \in Homers, HomeEnd(h) PROVE SendInv'
    BY <2>29 DEF HomeEnd, Goto
  <2>30. CASE TrackMoves
    BY <2>30 DEF TrackMoves
  <2>31. CASE TrackFails
    BY <2>31 DEF TrackFails
  <2>32. CASE HomedByOperator
    BY <2>32 DEF HomedByOperator
  <2>33. CASE UNCHANGED vars
    BY <2>33 DEF vars
  <2>34. QED
    BY <2>1, <2>2, <2>3, <2>4, <2>5, <2>6, <2>7, <2>8, <2>9, <2>10, <2>11, <2>12, <2>13, <2>14, <2>15, <2>16, <2>17, <2>18, <2>19, <2>20, <2>21, <2>22, <2>23, <2>24, <2>25, <2>26, <2>27, <2>28, <2>29, <2>30, <2>31, <2>32, <2>33, [Next]_vars
    DEF Next, Bringup, Monitor, Home, Track
<1>3. SendInv => SendOnlyWhenCommandable
  BY DEF SendInv, SendOnlyWhenCommandable, InStep
<1>4. QED
  BY <1>1, <1>2, <1>3, TypeCorrect, BusInvariant, PTL DEF Spec
=============================================================================
