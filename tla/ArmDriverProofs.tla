-------------------------- MODULE ArmDriverProofs --------------------------
(***************************************************************************)
(* Proofs about ArmDriver, for any set of callers, any classes of errors   *)
(* and any hazards, except where a theorem excludes some of them.          *)
(***************************************************************************)
EXTENDS ArmDriver, TLAPS

\* No thread calls stop() or clear_errors(); request_recovery() is allowed.
MonitorActsAlone == "stop" \notin Hazards /\ "clear" \notin Hazards

(***************************************************************************)
(* The monitor is one of the threads that may recover the arm, and so is   *)
(* every caller (the threads that run _recover).                           *)
(***************************************************************************)
LEMMA MonitorIsAThread == Monitor \in Threads /\ Callers \subseteq Threads
  BY DEF Threads

(***************************************************************************)
(* Type correctness of the driver's model, the base of the proofs below:   *)
(* whatever the threads of driver.py and the box do, each program counter  *)
(* stays in its method.                                                    *)
(***************************************************************************)
THEOREM TypeCorrect == Spec => []TypeOK
<1>1. Init => TypeOK
  BY DEF Init, TypeOK, PhaseSet, PcSet, Ways, TickSet, ErrorClass
<1>2. TypeOK /\ [Next]_vars => TypeOK'
  <2> SUFFICES ASSUME TypeOK, [Next]_vars PROVE TypeOK'
    OBVIOUS
  <2> USE DriverAssumption, MonitorIsAThread
          DEF TypeOK, driverVars, streamVars, threadVars, boxVars,
              PhaseSet, PcSet, Ways, TickSet, ErrorClass
  <2>1. CASE TickRead
    BY <2>1 DEF TickRead
  <2>2. CASE TickSent
    BY <2>2 DEF TickSent, Accepts
  <2>3. CASE TickCommit
    BY <2>3 DEF TickCommit
  <2>4. CASE TickNotReady
    BY <2>4 DEF TickNotReady
  <2>5. CASE TickRejected
    BY <2>5 DEF TickRejected
  <2>6. CASE TickPauses
    BY <2>6 DEF TickPauses
  <2>7. CASE TickFaults
    <3>1. pending' \in BOOLEAN
      BY <2>7 DEF TickFaults, Funnel
    <3>2. phase' \in PhaseSet
      BY <2>7 DEF TickFaults, Funnel
    <3>3. spc' \in TickSet
      BY <2>7 DEF TickFaults, Funnel
    <3>4. UNCHANGED <<request, paused, grace, fresh, flight, pc,
                      how, ctlErr, ctlServo, link, left>>
      BY <2>7 DEF TickFaults, Funnel
    <3>5. QED
      BY <3>1, <3>2, <3>3, <3>4
  <2>8. ASSUME NEW t \in Threads, RecoverBegin(t) PROVE TypeOK'
    BY <2>8 DEF RecoverBegin, Goto
  <2>9. ASSUME NEW t \in Threads, RecoverUnflag(t) PROVE TypeOK'
    <3>1. pending' \in BOOLEAN
      BY <2>9 DEF RecoverUnflag, Goto
    <3>2. pc' \in [Threads -> PcSet]
      BY <2>9 DEF RecoverUnflag, Goto
    <3>3. UNCHANGED <<phase, request, paused, grace, fresh, spc,
                      flight, how, ctlErr, ctlServo, link, left>>
      BY <2>9 DEF RecoverUnflag, Goto
    <3>4. QED
      BY <3>1, <3>2, <3>3
  <2>10. ASSUME NEW t \in Threads, RecoverReadError(t) PROVE TypeOK'
    BY <2>10 DEF RecoverReadError, Goto
  <2>11. ASSUME NEW t \in Threads, RecoverClean(t) PROVE TypeOK'
    BY <2>11 DEF RecoverClean, Goto
  <2>12. ASSUME NEW t \in Threads, RecoverEnable(t) PROVE TypeOK'
    BY <2>12 DEF RecoverEnable, Goto
  <2>13. ASSUME NEW t \in Threads, Regrab(t) PROVE TypeOK'
    <3>1. paused' \in BOOLEAN
      BY <2>13 DEF Regrab, Goto
    <3>2. pc' \in [Threads -> PcSet]
      BY <2>13 DEF Regrab, Goto
    <3>3. UNCHANGED <<phase, pending, request, grace, fresh, spc,
                      flight, how, ctlErr, ctlServo, link, left>>
      BY <2>13 DEF Regrab, Goto
    <3>4. QED
      BY <3>1, <3>2, <3>3
  <2>14. ASSUME NEW t \in Threads, EnterServoMode(t) PROVE TypeOK'
    <3>1. left' \in BOOLEAN /\ ctlServo' \in BOOLEAN
      BY <2>14 DEF EnterServoMode, Goto
    <3>2. pc' \in [Threads -> PcSet]
      BY <2>14 DEF EnterServoMode, Goto
    <3>3. UNCHANGED <<phase, pending, request, paused, grace,
                      fresh, spc, flight, how, ctlErr, link>>
      BY <2>14 DEF EnterServoMode, Goto
    <3>4. QED
      BY <3>1, <3>2, <3>3
  <2>15. ASSUME NEW t \in Threads, Reseed(t) PROVE TypeOK'
    <3>1. fresh' \in BOOLEAN
      BY <2>15 DEF Reseed, Goto
    <3>2. pc' \in [Threads -> PcSet]
      BY <2>15 DEF Reseed, Goto
    <3>3. UNCHANGED <<phase, pending, request, paused, grace, spc,
                      flight, how, ctlErr, ctlServo, link, left>>
      BY <2>15 DEF Reseed, Goto
    <3>4. QED
      BY <3>1, <3>2, <3>3
  <2>16. ASSUME NEW t \in Threads, Resume(t) PROVE TypeOK'
    <3>1. paused' \in BOOLEAN /\ grace' \in BOOLEAN
      BY <2>16 DEF Resume, Goto
    <3>2. pc' \in [Threads -> PcSet]
      BY <2>16 DEF Resume, Goto
    <3>3. UNCHANGED <<phase, pending, request, fresh, spc, flight,
                      how, ctlErr, ctlServo, link, left>>
      BY <2>16 DEF Resume, Goto
    <3>4. QED
      BY <3>1, <3>2, <3>3
  <2>17. ASSUME NEW t \in Threads, SetStreaming(t) PROVE TypeOK'
    BY <2>17 DEF SetStreaming, Goto, Done
  <2>18. ASSUME NEW t \in Threads, Latch(t) PROVE TypeOK'
    BY <2>18 DEF Latch, Goto
  <2>19. ASSUME NEW t \in Threads, LatchPauses(t) PROVE TypeOK'
    BY <2>19 DEF LatchPauses, Goto, Done
  <2>20. ASSUME NEW t \in Threads, Record(t) PROVE TypeOK'
    BY <2>20 DEF Record, Goto, Done
  <2>21. ASSUME NEW t \in Threads, RecoverRaises(t) PROVE TypeOK'
    BY <2>21 DEF RecoverRaises, Goto, Done, Start
  <2>22. CASE MonitorTakesRequest
    <3>1. request' \in BOOLEAN /\ paused' \in BOOLEAN
      BY <2>22 DEF MonitorTakesRequest, Goto, Start, MonitorIdle
    <3>2. pc' \in [Threads -> PcSet]
      BY <2>22 DEF MonitorTakesRequest, Goto, Start, MonitorIdle
    <3>3. how' \in [Threads -> Ways]
      BY <2>22 DEF MonitorTakesRequest, Goto, Start, MonitorIdle
    <3>4. UNCHANGED <<phase, pending, grace, fresh, spc, flight,
                      ctlErr, ctlServo, link, left>>
      BY <2>22 DEF MonitorTakesRequest, Goto, Start, MonitorIdle
    <3>5. QED
      BY <3>1, <3>2, <3>3, <3>4
  <2>23. CASE MonitorTakesFault
    BY <2>23 DEF MonitorTakesFault, Goto, Start, MonitorIdle
  <2>24. CASE MonitorSeesLinkLost
    BY <2>24 DEF MonitorSeesLinkLost, Goto, Start, MonitorIdle
  <2>25. CASE MonitorPolls
    BY <2>25 DEF MonitorPolls, Goto, Start, MonitorIdle
  <2>26. CASE MonitorFaults
    BY <2>26 DEF MonitorFaults, Goto, Funnel
  <2>27. CASE MonitorPauses
    BY <2>27 DEF MonitorPauses, Goto, Done
  <2>28. CASE MonitorCleansRail
    BY <2>28 DEF MonitorCleansRail, Goto
  <2>29. CASE MonitorChecksMode
    BY <2>29 DEF MonitorChecksMode, Goto, Done
  <2>30. ASSUME NEW c \in Callers, RequestRecovery(c) PROVE TypeOK'
    BY <2>30 DEF RequestRecovery
  <2>31. ASSUME NEW c \in Callers, StopBegin(c) PROVE TypeOK'
    BY <2>31 DEF StopBegin, Goto, Start
  <2>32. ASSUME NEW c \in Callers, StopState4(c) PROVE TypeOK'
    <3>1. ctlServo' \in BOOLEAN
      BY <2>32 DEF StopState4, Goto
    <3>2. pc' \in [Threads -> PcSet]
      BY <2>32 DEF StopState4, Goto
    <3>3. UNCHANGED <<phase, pending, request, paused, grace,
                      fresh, spc, flight, how, ctlErr, link,
                      left>>
      BY <2>32 DEF StopState4, Goto
    <3>4. QED
      BY <3>1, <3>2, <3>3
  <2>33. ASSUME NEW c \in Callers, ClearErrorsBegin(c) PROVE TypeOK'
    BY <2>33 DEF ClearErrorsBegin, Goto, Start
  <2>34. CASE BoxError
    BY <2>34 DEF BoxError
  <2>35. CASE TakenOver
    <3>1. ctlServo' \in BOOLEAN
      BY <2>35 DEF TakenOver
    <3>2. UNCHANGED <<phase, pending, request, paused, grace,
                      fresh, spc, flight, pc, how, ctlErr, link,
                      left>>
      BY <2>35 DEF TakenOver
    <3>3. QED
      BY <3>1, <3>2
  <2>36. CASE Displaced
    <3>1. fresh' \in BOOLEAN /\ flight' \in BOOLEAN
      BY <2>36 DEF Displaced
    <3>2. UNCHANGED <<phase, pending, request, paused, grace, spc,
                      pc, how, ctlErr, ctlServo, link, left>>
      BY <2>36 DEF Displaced
    <3>3. QED
      BY <3>1, <3>2
  <2>37. CASE LinkLost
    <3>1. link' \in BOOLEAN
      BY <2>37 DEF LinkLost
    <3>2. UNCHANGED <<phase, pending, request, paused, grace,
                      fresh, spc, flight, pc, how, ctlErr,
                      ctlServo, left>>
      BY <2>37 DEF LinkLost
    <3>3. QED
      BY <3>1, <3>2
  <2>38. CASE Report
    BY <2>38 DEF Report
  <2>39. CASE GraceEnds
    <3>1. grace' \in BOOLEAN
      BY <2>39 DEF GraceEnds
    <3>2. UNCHANGED <<phase, pending, request, paused, fresh, spc,
                      flight, pc, how, ctlErr, ctlServo, link,
                      left>>
      BY <2>39 DEF GraceEnds
    <3>3. QED
      BY <3>1, <3>2
  <2>40. CASE UNCHANGED vars
    BY <2>40 DEF vars, threadVars
  <2>41. QED
    BY <2>1, <2>2, <2>3, <2>4, <2>5, <2>6, <2>7, <2>8, <2>9, <2>10,
       <2>11, <2>12, <2>13, <2>14, <2>15, <2>16, <2>17, <2>18, <2>19,
       <2>20, <2>21, <2>22, <2>23, <2>24, <2>25, <2>26, <2>27, <2>28,
       <2>29, <2>30, <2>31, <2>32, <2>33, <2>34, <2>35, <2>36, <2>37,
       <2>38, <2>39, <2>40
       DEF Next, Tick, Recover, MonitorStep, Call, Box
<1>3. QED
  BY <1>1, <1>2, PTL DEF Spec

(***************************************************************************)
(* A halted arm is not streamed to: _on_fault and _latch write the phase   *)
(* before they pause, _recover resumes before it writes STREAMING, and     *)
(* under any number of callers and any hazard no order of these writes     *)
(* leaves FAULT or LATCHED behind with the streamer running and nobody     *)
(* about to pause it.                                                      *)
(***************************************************************************)
THEOREM HaltedArmIsNotStreamedTo == Spec => []HaltedMeansPaused
<1>1. Init => HaltedMeansPaused
  BY MonitorIsAThread DEF Init, HaltedMeansPaused
<1>2. TypeOK /\ HaltedMeansPaused /\ [Next]_vars => HaltedMeansPaused'
  <2> SUFFICES ASSUME TypeOK, HaltedMeansPaused, [Next]_vars PROVE HaltedMeansPaused'
    OBVIOUS
  <2> USE DriverAssumption, MonitorIsAThread
          DEF HaltedMeansPaused, driverVars, streamVars, threadVars, boxVars, PhaseSet
  <2>0. pc \in [Threads -> PcSet] /\ how \in [Threads -> Ways] /\ phase \in PhaseSet
    BY DEF TypeOK
  <2>1. CASE TickRead
    BY <2>1, <2>0 DEF TickRead
  <2>2. CASE TickSent
    BY <2>2, <2>0 DEF TickSent, Accepts
  <2>3. CASE TickCommit
    BY <2>3, <2>0 DEF TickCommit
  <2>4. CASE TickNotReady
    BY <2>4, <2>0 DEF TickNotReady
  <2>5. CASE TickRejected
    BY <2>5, <2>0 DEF TickRejected
  <2>6. CASE TickPauses
    BY <2>6, <2>0 DEF TickPauses
  <2>7. CASE TickFaults
    BY <2>7, <2>0 DEF TickFaults, Funnel
  <2>8. ASSUME NEW t \in Threads, RecoverBegin(t) PROVE HaltedMeansPaused'
    BY <2>8, <2>0 DEF RecoverBegin, Goto
  <2>9. ASSUME NEW t \in Threads, RecoverUnflag(t) PROVE HaltedMeansPaused'
    BY <2>9, <2>0 DEF RecoverUnflag, Goto
  <2>10. ASSUME NEW t \in Threads, RecoverReadError(t) PROVE HaltedMeansPaused'
    BY <2>10, <2>0 DEF RecoverReadError, Goto
  <2>11. ASSUME NEW t \in Threads, RecoverClean(t) PROVE HaltedMeansPaused'
    BY <2>11, <2>0 DEF RecoverClean, Goto
  <2>12. ASSUME NEW t \in Threads, RecoverEnable(t) PROVE HaltedMeansPaused'
    BY <2>12, <2>0 DEF RecoverEnable, Goto
  <2>13. ASSUME NEW t \in Threads, Regrab(t) PROVE HaltedMeansPaused'
    BY <2>13, <2>0 DEF Regrab, Goto
  <2>14. ASSUME NEW t \in Threads, EnterServoMode(t) PROVE HaltedMeansPaused'
    BY <2>14, <2>0 DEF EnterServoMode, Goto
  <2>15. ASSUME NEW t \in Threads, Reseed(t) PROVE HaltedMeansPaused'
    BY <2>15, <2>0 DEF Reseed, Goto
  <2>16. ASSUME NEW t \in Threads, Resume(t) PROVE HaltedMeansPaused'
    BY <2>16, <2>0 DEF Resume, Goto
  <2>17. ASSUME NEW t \in Threads, SetStreaming(t) PROVE HaltedMeansPaused'
    BY <2>17, <2>0 DEF SetStreaming, Goto, Done
  <2>18. ASSUME NEW t \in Threads, Latch(t) PROVE HaltedMeansPaused'
    BY <2>18, <2>0 DEF Latch, Goto
  <2>19. ASSUME NEW t \in Threads, LatchPauses(t) PROVE HaltedMeansPaused'
    BY <2>19, <2>0 DEF LatchPauses, Goto, Done
  <2>20. ASSUME NEW t \in Threads, Record(t) PROVE HaltedMeansPaused'
    BY <2>20, <2>0 DEF Record, Goto, Done
  <2>21. ASSUME NEW t \in Threads, RecoverRaises(t) PROVE HaltedMeansPaused'
    BY <2>21, <2>0 DEF RecoverRaises, Goto, Done, Start
  <2>22. CASE MonitorTakesRequest
    BY <2>22, <2>0 DEF MonitorTakesRequest, Goto, Start, MonitorIdle
  <2>23. CASE MonitorTakesFault
    BY <2>23, <2>0 DEF MonitorTakesFault, Goto, Start, MonitorIdle
  <2>24. CASE MonitorSeesLinkLost
    BY <2>24, <2>0 DEF MonitorSeesLinkLost, Goto, Start, MonitorIdle
  <2>25. CASE MonitorPolls
    BY <2>25, <2>0 DEF MonitorPolls, Goto, Start, MonitorIdle
  <2>26. CASE MonitorFaults
    BY <2>26, <2>0 DEF MonitorFaults, Goto, Funnel
  <2>27. CASE MonitorPauses
    BY <2>27, <2>0 DEF MonitorPauses, Goto, Done
  <2>28. CASE MonitorCleansRail
    BY <2>28, <2>0 DEF MonitorCleansRail, Goto
  <2>29. CASE MonitorChecksMode
    BY <2>29, <2>0 DEF MonitorChecksMode, Goto, Done
  <2>30. ASSUME NEW c \in Callers, RequestRecovery(c) PROVE HaltedMeansPaused'
    BY <2>30, <2>0 DEF RequestRecovery
  <2>31. ASSUME NEW c \in Callers, StopBegin(c) PROVE HaltedMeansPaused'
    BY <2>31, <2>0 DEF StopBegin, Goto, Start
  <2>32. ASSUME NEW c \in Callers, StopState4(c) PROVE HaltedMeansPaused'
    BY <2>32, <2>0 DEF StopState4, Goto
  <2>33. ASSUME NEW c \in Callers, ClearErrorsBegin(c) PROVE HaltedMeansPaused'
    BY <2>33, <2>0 DEF ClearErrorsBegin, Goto, Start
  <2>34. CASE BoxError
    BY <2>34, <2>0 DEF BoxError
  <2>35. CASE TakenOver
    BY <2>35, <2>0 DEF TakenOver
  <2>36. CASE Displaced
    BY <2>36, <2>0 DEF Displaced
  <2>37. CASE LinkLost
    BY <2>37, <2>0 DEF LinkLost
  <2>38. CASE Report
    BY <2>38, <2>0 DEF Report
  <2>39. CASE GraceEnds
    BY <2>39, <2>0 DEF GraceEnds
  <2>40. CASE UNCHANGED vars
    BY <2>40 DEF vars, threadVars
  <2>41. QED
    BY <2>1, <2>2, <2>3, <2>4, <2>5, <2>6, <2>7, <2>8, <2>9, <2>10,
       <2>11, <2>12, <2>13, <2>14, <2>15, <2>16, <2>17, <2>18, <2>19,
       <2>20, <2>21, <2>22, <2>23, <2>24, <2>25, <2>26, <2>27, <2>28,
       <2>29, <2>30, <2>31, <2>32, <2>33, <2>34, <2>35, <2>36, <2>37,
       <2>38, <2>39, <2>40
       DEF Next, Tick, Recover, MonitorStep, Call, Box
<1>3. QED
  BY <1>1, <1>2, TypeCorrect, PTL DEF Spec

\* What a latched driver's monitor thread may be doing: nothing that ends in
\* STREAMING, unless it is about to begin a recovery that the user asked for.
LatchInv ==
  /\ \A c \in Callers : pc[c] = "idle"
  /\ phase = "LATCHED" =>
       \/ how[Monitor] = "user" /\ pc[Monitor] = "lock"
       \/ pc[Monitor] \in {"idle", "latch", "hold", "record", "pause", "check",
                           "found_none", "found_rail", "found_error"}

(***************************************************************************)
(* With stop() and clear_errors() out of the way, every sequence that      *)
(* writes _phase runs on the monitor thread, one at a time: an automatic   *)
(* recovery or a re-grab that has begun ends before anything latches.      *)
(***************************************************************************)
LEMMA LatchInvariant ==
  ASSUME MonitorActsAlone PROVE Spec => []LatchInv
<1>1. Init => LatchInv
  BY MonitorIsAThread DEF Init, LatchInv
<1>2. TypeOK /\ LatchInv /\ [Next]_vars => LatchInv'
  <2> SUFFICES ASSUME TypeOK, LatchInv, [Next]_vars PROVE LatchInv'
    OBVIOUS
  <2> USE DriverAssumption, MonitorActsAlone, MonitorIsAThread
          DEF LatchInv, MonitorActsAlone, driverVars, streamVars, threadVars, boxVars, PhaseSet, Threads
  <2>0. pc \in [Threads -> PcSet] /\ how \in [Threads -> Ways] /\ phase \in PhaseSet
    BY DEF TypeOK
  <2>1. CASE TickRead
    BY <2>1, <2>0 DEF TickRead
  <2>2. CASE TickSent
    BY <2>2, <2>0 DEF TickSent, Accepts
  <2>3. CASE TickCommit
    BY <2>3, <2>0 DEF TickCommit
  <2>4. CASE TickNotReady
    BY <2>4, <2>0 DEF TickNotReady
  <2>5. CASE TickRejected
    BY <2>5, <2>0 DEF TickRejected
  <2>6. CASE TickPauses
    BY <2>6, <2>0 DEF TickPauses
  <2>7. CASE TickFaults
    BY <2>7, <2>0 DEF TickFaults, Funnel
  <2>8. ASSUME NEW t \in Threads, RecoverBegin(t) PROVE LatchInv'
    BY <2>8, <2>0 DEF RecoverBegin, Goto
  <2>9. ASSUME NEW t \in Threads, RecoverUnflag(t) PROVE LatchInv'
    BY <2>9, <2>0 DEF RecoverUnflag, Goto
  <2>10. ASSUME NEW t \in Threads, RecoverReadError(t) PROVE LatchInv'
    BY <2>10, <2>0 DEF RecoverReadError, Goto
  <2>11. ASSUME NEW t \in Threads, RecoverClean(t) PROVE LatchInv'
    BY <2>11, <2>0 DEF RecoverClean, Goto
  <2>12. ASSUME NEW t \in Threads, RecoverEnable(t) PROVE LatchInv'
    BY <2>12, <2>0 DEF RecoverEnable, Goto
  <2>13. ASSUME NEW t \in Threads, Regrab(t) PROVE LatchInv'
    BY <2>13, <2>0 DEF Regrab, Goto
  <2>14. ASSUME NEW t \in Threads, EnterServoMode(t) PROVE LatchInv'
    BY <2>14, <2>0 DEF EnterServoMode, Goto
  <2>15. ASSUME NEW t \in Threads, Reseed(t) PROVE LatchInv'
    BY <2>15, <2>0 DEF Reseed, Goto
  <2>16. ASSUME NEW t \in Threads, Resume(t) PROVE LatchInv'
    BY <2>16, <2>0 DEF Resume, Goto
  <2>17. ASSUME NEW t \in Threads, SetStreaming(t) PROVE LatchInv'
    BY <2>17, <2>0 DEF SetStreaming, Goto, Done
  <2>18. ASSUME NEW t \in Threads, Latch(t) PROVE LatchInv'
    BY <2>18, <2>0 DEF Latch, Goto
  <2>19. ASSUME NEW t \in Threads, LatchPauses(t) PROVE LatchInv'
    BY <2>19, <2>0 DEF LatchPauses, Goto, Done
  <2>20. ASSUME NEW t \in Threads, Record(t) PROVE LatchInv'
    BY <2>20, <2>0 DEF Record, Goto, Done
  <2>21. ASSUME NEW t \in Threads, RecoverRaises(t) PROVE LatchInv'
    BY <2>21, <2>0 DEF RecoverRaises, Goto, Done, Start
  <2>22. CASE MonitorTakesRequest
    BY <2>22, <2>0 DEF MonitorTakesRequest, Goto, Start, MonitorIdle
  <2>23. CASE MonitorTakesFault
    BY <2>23, <2>0 DEF MonitorTakesFault, Goto, Start, MonitorIdle
  <2>24. CASE MonitorSeesLinkLost
    BY <2>24, <2>0 DEF MonitorSeesLinkLost, Goto, Start, MonitorIdle
  <2>25. CASE MonitorPolls
    BY <2>25, <2>0 DEF MonitorPolls, Goto, Start, MonitorIdle
  <2>26. CASE MonitorFaults
    BY <2>26, <2>0 DEF MonitorFaults, Goto, Funnel
  <2>27. CASE MonitorPauses
    BY <2>27, <2>0 DEF MonitorPauses, Goto, Done
  <2>28. CASE MonitorCleansRail
    BY <2>28, <2>0 DEF MonitorCleansRail, Goto
  <2>29. CASE MonitorChecksMode
    BY <2>29, <2>0 DEF MonitorChecksMode, Goto, Done
  <2>30. ASSUME NEW c \in Callers, RequestRecovery(c) PROVE LatchInv'
    BY <2>30, <2>0 DEF RequestRecovery
  <2>31. ASSUME NEW c \in Callers, StopBegin(c) PROVE LatchInv'
    BY <2>31, <2>0 DEF StopBegin, Goto, Start
  <2>32. ASSUME NEW c \in Callers, StopState4(c) PROVE LatchInv'
    BY <2>32, <2>0 DEF StopState4, Goto
  <2>33. ASSUME NEW c \in Callers, ClearErrorsBegin(c) PROVE LatchInv'
    BY <2>33, <2>0 DEF ClearErrorsBegin, Goto, Start
  <2>34. CASE BoxError
    BY <2>34, <2>0 DEF BoxError
  <2>35. CASE TakenOver
    BY <2>35, <2>0 DEF TakenOver
  <2>36. CASE Displaced
    BY <2>36, <2>0 DEF Displaced
  <2>37. CASE LinkLost
    BY <2>37, <2>0 DEF LinkLost
  <2>38. CASE Report
    BY <2>38, <2>0 DEF Report
  <2>39. CASE GraceEnds
    BY <2>39, <2>0 DEF GraceEnds
  <2>40. CASE UNCHANGED vars
    BY <2>40 DEF vars, threadVars
  <2>41. QED
    BY <2>1, <2>2, <2>3, <2>4, <2>5, <2>6, <2>7, <2>8, <2>9, <2>10,
       <2>11, <2>12, <2>13, <2>14, <2>15, <2>16, <2>17, <2>18, <2>19,
       <2>20, <2>21, <2>22, <2>23, <2>24, <2>25, <2>26, <2>27, <2>28,
       <2>29, <2>30, <2>31, <2>32, <2>33, <2>34, <2>35, <2>36, <2>37,
       <2>38, <2>39, <2>40
       DEF Next, Tick, Recover, MonitorStep, Call, Box
<1>3. QED
  BY <1>1, <1>2, TypeCorrect, PTL DEF Spec

(***************************************************************************)
(* LATCHED is left for the user only (_latch, _recover, _handle_external), *)
(* with any tick overtaken, any servo command refused and any recovery     *)
(* raising: what breaks it is a latch written by another thread than the   *)
(* monitor.                                                                *)
(***************************************************************************)
THEOREM LatchedUntilTheUser ==
  ASSUME MonitorActsAlone PROVE Spec => LatchHeld
<1> DEFINE Held == phase = "LATCHED" /\ phase' # "LATCHED" =>
                     \E t \in Threads : pc[t] # pc'[t] /\ how[t] = "user"
<1>1. TypeOK /\ LatchInv /\ [Next]_vars => Held
  <2> SUFFICES ASSUME TypeOK, LatchInv, [Next]_vars PROVE Held
    OBVIOUS
  <2> USE DriverAssumption, MonitorActsAlone, MonitorIsAThread
          DEF LatchInv, MonitorActsAlone, driverVars, streamVars, threadVars, boxVars, PhaseSet, Threads
  <2>0. pc \in [Threads -> PcSet] /\ how \in [Threads -> Ways] /\ phase \in PhaseSet
    BY DEF TypeOK
  <2>1. CASE TickRead
    BY <2>1, <2>0 DEF TickRead
  <2>2. CASE TickSent
    BY <2>2, <2>0 DEF TickSent, Accepts
  <2>3. CASE TickCommit
    BY <2>3, <2>0 DEF TickCommit
  <2>4. CASE TickNotReady
    BY <2>4, <2>0 DEF TickNotReady
  <2>5. CASE TickRejected
    BY <2>5, <2>0 DEF TickRejected
  <2>6. CASE TickPauses
    BY <2>6, <2>0 DEF TickPauses
  <2>7. CASE TickFaults
    BY <2>7, <2>0 DEF TickFaults, Funnel
  <2>8. ASSUME NEW t \in Threads, RecoverBegin(t) PROVE Held
    BY <2>8, <2>0 DEF RecoverBegin, Goto
  <2>9. ASSUME NEW t \in Threads, RecoverUnflag(t) PROVE Held
    BY <2>9, <2>0 DEF RecoverUnflag, Goto
  <2>10. ASSUME NEW t \in Threads, RecoverReadError(t) PROVE Held
    BY <2>10, <2>0 DEF RecoverReadError, Goto
  <2>11. ASSUME NEW t \in Threads, RecoverClean(t) PROVE Held
    BY <2>11, <2>0 DEF RecoverClean, Goto
  <2>12. ASSUME NEW t \in Threads, RecoverEnable(t) PROVE Held
    BY <2>12, <2>0 DEF RecoverEnable, Goto
  <2>13. ASSUME NEW t \in Threads, Regrab(t) PROVE Held
    BY <2>13, <2>0 DEF Regrab, Goto
  <2>14. ASSUME NEW t \in Threads, EnterServoMode(t) PROVE Held
    BY <2>14, <2>0 DEF EnterServoMode, Goto
  <2>15. ASSUME NEW t \in Threads, Reseed(t) PROVE Held
    BY <2>15, <2>0 DEF Reseed, Goto
  <2>16. ASSUME NEW t \in Threads, Resume(t) PROVE Held
    BY <2>16, <2>0 DEF Resume, Goto
  <2>17. ASSUME NEW t \in Threads, SetStreaming(t) PROVE Held
    BY <2>17, <2>0 DEF SetStreaming, Goto, Done
  <2>18. ASSUME NEW t \in Threads, Latch(t) PROVE Held
    BY <2>18, <2>0 DEF Latch, Goto
  <2>19. ASSUME NEW t \in Threads, LatchPauses(t) PROVE Held
    BY <2>19, <2>0 DEF LatchPauses, Goto, Done
  <2>20. ASSUME NEW t \in Threads, Record(t) PROVE Held
    BY <2>20, <2>0 DEF Record, Goto, Done
  <2>21. ASSUME NEW t \in Threads, RecoverRaises(t) PROVE Held
    BY <2>21, <2>0 DEF RecoverRaises, Goto, Done, Start
  <2>22. CASE MonitorTakesRequest
    BY <2>22, <2>0 DEF MonitorTakesRequest, Goto, Start, MonitorIdle
  <2>23. CASE MonitorTakesFault
    BY <2>23, <2>0 DEF MonitorTakesFault, Goto, Start, MonitorIdle
  <2>24. CASE MonitorSeesLinkLost
    BY <2>24, <2>0 DEF MonitorSeesLinkLost, Goto, Start, MonitorIdle
  <2>25. CASE MonitorPolls
    BY <2>25, <2>0 DEF MonitorPolls, Goto, Start, MonitorIdle
  <2>26. CASE MonitorFaults
    BY <2>26, <2>0 DEF MonitorFaults, Goto, Funnel
  <2>27. CASE MonitorPauses
    BY <2>27, <2>0 DEF MonitorPauses, Goto, Done
  <2>28. CASE MonitorCleansRail
    BY <2>28, <2>0 DEF MonitorCleansRail, Goto
  <2>29. CASE MonitorChecksMode
    BY <2>29, <2>0 DEF MonitorChecksMode, Goto, Done
  <2>30. ASSUME NEW c \in Callers, RequestRecovery(c) PROVE Held
    BY <2>30, <2>0 DEF RequestRecovery
  <2>31. ASSUME NEW c \in Callers, StopBegin(c) PROVE Held
    BY <2>31, <2>0 DEF StopBegin, Goto, Start
  <2>32. ASSUME NEW c \in Callers, StopState4(c) PROVE Held
    BY <2>32, <2>0 DEF StopState4, Goto
  <2>33. ASSUME NEW c \in Callers, ClearErrorsBegin(c) PROVE Held
    BY <2>33, <2>0 DEF ClearErrorsBegin, Goto, Start
  <2>34. CASE BoxError
    BY <2>34, <2>0 DEF BoxError
  <2>35. CASE TakenOver
    BY <2>35, <2>0 DEF TakenOver
  <2>36. CASE Displaced
    BY <2>36, <2>0 DEF Displaced
  <2>37. CASE LinkLost
    BY <2>37, <2>0 DEF LinkLost
  <2>38. CASE Report
    BY <2>38, <2>0 DEF Report
  <2>39. CASE GraceEnds
    BY <2>39, <2>0 DEF GraceEnds
  <2>40. CASE UNCHANGED vars
    BY <2>40 DEF vars, threadVars
  <2>41. QED
    BY <2>1, <2>2, <2>3, <2>4, <2>5, <2>6, <2>7, <2>8, <2>9, <2>10,
       <2>11, <2>12, <2>13, <2>14, <2>15, <2>16, <2>17, <2>18, <2>19,
       <2>20, <2>21, <2>22, <2>23, <2>24, <2>25, <2>26, <2>27, <2>28,
       <2>29, <2>30, <2>31, <2>32, <2>33, <2>34, <2>35, <2>36, <2>37,
       <2>38, <2>39, <2>40
       DEF Next, Tick, Recover, MonitorStep, Call, Box
<1>2. QED
  BY <1>1, TypeCorrect, LatchInvariant, PTL DEF Spec, LatchHeld

(***************************************************************************)
(* The driver implements ArmService.                                       *)
(***************************************************************************)
\* A request that the monitor has taken, and whose recovery has not begun.
Waiting == how[Monitor] = "user" /\ pc[Monitor] = "lock"

\* What a step of the driver may do to the phase and to a request, in the driver's
\* variables: the steps of the service.
ServiceMove ==
  \/ /\ request' = request /\ (Waiting' <=> Waiting)
     /\ phase' \in {phase, "LATCHED"} \/ phase # "LATCHED"
  \/ request' = TRUE /\ phase' = phase /\ (Waiting' <=> Waiting)
  \/ request /\ ~request' /\ ~Waiting /\ Waiting' /\ phase' = phase
  \/ Waiting /\ ~Waiting' /\ request' = request /\ phase' = "RECOVERING"

LEMMA ServiceMoves ==
  ASSUME phase \in PhaseSet, phase' \in PhaseSet,
         request \in BOOLEAN, request' \in BOOLEAN, ServiceMove
  PROVE  [Service!Next]_(Service!serviceVars)
  BY DEF ServiceMove, Service!Next, Service!serviceVars, Service!Halt, Service!Resume,
         Service!GiveUp, Service!Ask, Service!Grant, Service!Release, Waiting, PhaseSet

\* Every step of the driver is one of these: only a recovery that begins for the user
\* takes the phase out of LATCHED, and it uses up the request that the monitor popped.
LEMMA DriverServes ==
  ASSUME MonitorActsAlone, TypeOK, LatchInv, [Next]_vars
  PROVE  ServiceMove
<1> USE DriverAssumption, MonitorActsAlone, MonitorIsAThread
        DEF ServiceMove, Waiting, LatchInv, MonitorActsAlone, driverVars, streamVars,
            threadVars, boxVars, PhaseSet, Threads
<1>0. /\ pc \in [Threads -> PcSet] /\ how \in [Threads -> Ways] /\ phase \in PhaseSet
      /\ request \in BOOLEAN
  BY DEF TypeOK
<1>1. CASE TickRead
  BY <1>1, <1>0 DEF TickRead
<1>2. CASE TickSent
  BY <1>2, <1>0 DEF TickSent, Accepts
<1>3. CASE TickCommit
  BY <1>3, <1>0 DEF TickCommit
<1>4. CASE TickNotReady
  BY <1>4, <1>0 DEF TickNotReady
<1>5. CASE TickRejected
  BY <1>5, <1>0 DEF TickRejected
<1>6. CASE TickPauses
  BY <1>6, <1>0 DEF TickPauses
<1>7. CASE TickFaults
  BY <1>7, <1>0 DEF TickFaults, Funnel
<1>8. ASSUME NEW t \in Threads, RecoverBegin(t) PROVE ServiceMove
  BY <1>8, <1>0 DEF RecoverBegin, Goto
<1>9. ASSUME NEW t \in Threads, RecoverUnflag(t) PROVE ServiceMove
  BY <1>9, <1>0 DEF RecoverUnflag, Goto
<1>10. ASSUME NEW t \in Threads, RecoverReadError(t) PROVE ServiceMove
  BY <1>10, <1>0 DEF RecoverReadError, Goto
<1>11. ASSUME NEW t \in Threads, RecoverClean(t) PROVE ServiceMove
  BY <1>11, <1>0 DEF RecoverClean, Goto
<1>12. ASSUME NEW t \in Threads, RecoverEnable(t) PROVE ServiceMove
  BY <1>12, <1>0 DEF RecoverEnable, Goto
<1>13. ASSUME NEW t \in Threads, Regrab(t) PROVE ServiceMove
  BY <1>13, <1>0 DEF Regrab, Goto
<1>14. ASSUME NEW t \in Threads, EnterServoMode(t) PROVE ServiceMove
  BY <1>14, <1>0 DEF EnterServoMode, Goto
<1>15. ASSUME NEW t \in Threads, Reseed(t) PROVE ServiceMove
  BY <1>15, <1>0 DEF Reseed, Goto
<1>16. ASSUME NEW t \in Threads, Resume(t) PROVE ServiceMove
  BY <1>16, <1>0 DEF Resume, Goto
<1>17. ASSUME NEW t \in Threads, SetStreaming(t) PROVE ServiceMove
  BY <1>17, <1>0 DEF SetStreaming, Goto, Done
<1>18. ASSUME NEW t \in Threads, Latch(t) PROVE ServiceMove
  BY <1>18, <1>0 DEF Latch, Goto
<1>19. ASSUME NEW t \in Threads, LatchPauses(t) PROVE ServiceMove
  BY <1>19, <1>0 DEF LatchPauses, Goto, Done
<1>20. ASSUME NEW t \in Threads, Record(t) PROVE ServiceMove
  BY <1>20, <1>0 DEF Record, Goto, Done
<1>21. ASSUME NEW t \in Threads, RecoverRaises(t) PROVE ServiceMove
  BY <1>21, <1>0 DEF RecoverRaises, Goto, Done, Start
<1>22. CASE MonitorTakesRequest
  BY <1>22, <1>0 DEF MonitorTakesRequest, Goto, Start, MonitorIdle
<1>23. CASE MonitorTakesFault
  BY <1>23, <1>0 DEF MonitorTakesFault, Goto, Start, MonitorIdle
<1>24. CASE MonitorSeesLinkLost
  BY <1>24, <1>0 DEF MonitorSeesLinkLost, Goto, Start, MonitorIdle
<1>25. CASE MonitorPolls
  BY <1>25, <1>0 DEF MonitorPolls, Goto, Start, MonitorIdle
<1>26. CASE MonitorFaults
  BY <1>26, <1>0 DEF MonitorFaults, Goto, Funnel
<1>27. CASE MonitorPauses
  BY <1>27, <1>0 DEF MonitorPauses, Goto, Done
<1>28. CASE MonitorCleansRail
  BY <1>28, <1>0 DEF MonitorCleansRail, Goto
<1>29. CASE MonitorChecksMode
  BY <1>29, <1>0 DEF MonitorChecksMode, Goto, Done
<1>30. ASSUME NEW c \in Callers, RequestRecovery(c) PROVE ServiceMove
  BY <1>30, <1>0 DEF RequestRecovery
<1>31. ASSUME NEW c \in Callers, StopBegin(c) PROVE ServiceMove
  BY <1>31, <1>0 DEF StopBegin, Goto, Start
<1>32. ASSUME NEW c \in Callers, StopState4(c) PROVE ServiceMove
  BY <1>32, <1>0 DEF StopState4, Goto
<1>33. ASSUME NEW c \in Callers, ClearErrorsBegin(c) PROVE ServiceMove
  BY <1>33, <1>0 DEF ClearErrorsBegin, Goto, Start
<1>34. CASE BoxError
  BY <1>34, <1>0 DEF BoxError
<1>35. CASE TakenOver
  BY <1>35, <1>0 DEF TakenOver
<1>36. CASE Displaced
  BY <1>36, <1>0 DEF Displaced
<1>37. CASE LinkLost
  BY <1>37, <1>0 DEF LinkLost
<1>38. CASE Report
  BY <1>38, <1>0 DEF Report
<1>39. CASE GraceEnds
  BY <1>39, <1>0 DEF GraceEnds
<1>40. CASE UNCHANGED vars
  BY <1>40 DEF vars
<1> QED
  BY <1>1, <1>2, <1>3, <1>4, <1>5, <1>6, <1>7, <1>8, <1>9, <1>10,
     <1>11, <1>12, <1>13, <1>14, <1>15, <1>16, <1>17, <1>18, <1>19, <1>20,
     <1>21, <1>22, <1>23, <1>24, <1>25, <1>26, <1>27, <1>28, <1>29, <1>30,
     <1>31, <1>32, <1>33, <1>34, <1>35, <1>36, <1>37, <1>38, <1>39, <1>40
     DEF Next, Tick, Recover, MonitorStep, Call, Box

\* The driver implements ArmService (the phases of driver.py, as their user sees them):
\* the arm starts live, a latch is left once for each request of the user, and
\* whatever else happens halts the arm, resumes it, or latches it.
THEOREM DriverImplementsService ==
  ASSUME MonitorActsAlone PROVE Spec => ServiceKept
<1>1. Init => Service!Init
  BY MonitorIsAThread DEF Init, Service!Init
<1>2. TypeOK /\ TypeOK' /\ LatchInv /\ [Next]_vars => [Service!Next]_(Service!serviceVars)
  BY DriverServes, ServiceMoves DEF TypeOK
<1> QED
  BY <1>1, <1>2, TypeCorrect, LatchInvariant, PTL DEF Spec, ServiceKept, Service!Spec

\* A thread at _recovery_lock, or just past it, runs _recover: the part that the
\* two properties below need to be kept by the step that writes RECOVERING.
OwnerInv == /\ RecoveringHasOwner
            /\ FaultStaysPending
            /\ \A t \in Threads : pc[t] \in {"lock", "unflag"} => how[t] \in Locked

(***************************************************************************)
(* The inductive invariant of the two theorems below: each return of       *)
(* _recover is preceded by STREAMING or by a latch, and each FAULT that    *)
(* loses its flag loses it to a thread inside _recover.                    *)
(***************************************************************************)
LEMMA OwnerInvariant ==
  ASSUME "raise" \notin Hazards PROVE Spec => []OwnerInv
<1>1. Init => OwnerInv
  BY DEF Init, OwnerInv, RecoveringHasOwner, FaultStaysPending
<1>2. TypeOK /\ OwnerInv /\ [Next]_vars => OwnerInv'
  <2> SUFFICES ASSUME TypeOK, OwnerInv, [Next]_vars PROVE OwnerInv'
    OBVIOUS
  <2> USE DriverAssumption, MonitorIsAThread
          DEF OwnerInv, RecoveringHasOwner, FaultStaysPending, Recovering, Locked,
              driverVars, streamVars, threadVars, boxVars, PhaseSet
  <2>0. pc \in [Threads -> PcSet] /\ how \in [Threads -> Ways] /\ phase \in PhaseSet
    BY DEF TypeOK
  <2>1. CASE TickRead
    BY <2>1, <2>0 DEF TickRead
  <2>2. CASE TickSent
    BY <2>2, <2>0 DEF TickSent, Accepts
  <2>3. CASE TickCommit
    BY <2>3, <2>0 DEF TickCommit
  <2>4. CASE TickNotReady
    BY <2>4, <2>0 DEF TickNotReady
  <2>5. CASE TickRejected
    BY <2>5, <2>0 DEF TickRejected
  <2>6. CASE TickPauses
    BY <2>6, <2>0 DEF TickPauses
  <2>7. CASE TickFaults
    BY <2>7, <2>0 DEF TickFaults, Funnel
  <2>8. ASSUME NEW t \in Threads, RecoverBegin(t) PROVE OwnerInv'
    BY <2>8, <2>0 DEF RecoverBegin, Goto
  <2>9. ASSUME NEW t \in Threads, RecoverUnflag(t) PROVE OwnerInv'
    BY <2>9, <2>0 DEF RecoverUnflag, Goto
  <2>10. ASSUME NEW t \in Threads, RecoverReadError(t) PROVE OwnerInv'
    BY <2>10, <2>0 DEF RecoverReadError, Goto
  <2>11. ASSUME NEW t \in Threads, RecoverClean(t) PROVE OwnerInv'
    BY <2>11, <2>0 DEF RecoverClean, Goto
  <2>12. ASSUME NEW t \in Threads, RecoverEnable(t) PROVE OwnerInv'
    BY <2>12, <2>0 DEF RecoverEnable, Goto
  <2>13. ASSUME NEW t \in Threads, Regrab(t) PROVE OwnerInv'
    BY <2>13, <2>0 DEF Regrab, Goto
  <2>14. ASSUME NEW t \in Threads, EnterServoMode(t) PROVE OwnerInv'
    BY <2>14, <2>0 DEF EnterServoMode, Goto
  <2>15. ASSUME NEW t \in Threads, Reseed(t) PROVE OwnerInv'
    BY <2>15, <2>0 DEF Reseed, Goto
  <2>16. ASSUME NEW t \in Threads, Resume(t) PROVE OwnerInv'
    BY <2>16, <2>0 DEF Resume, Goto
  <2>17. ASSUME NEW t \in Threads, SetStreaming(t) PROVE OwnerInv'
    BY <2>17, <2>0 DEF SetStreaming, Goto, Done
  <2>18. ASSUME NEW t \in Threads, Latch(t) PROVE OwnerInv'
    BY <2>18, <2>0 DEF Latch, Goto
  <2>19. ASSUME NEW t \in Threads, LatchPauses(t) PROVE OwnerInv'
    BY <2>19, <2>0 DEF LatchPauses, Goto, Done
  <2>20. ASSUME NEW t \in Threads, Record(t) PROVE OwnerInv'
    BY <2>20, <2>0 DEF Record, Goto, Done
  <2>21. ASSUME NEW t \in Threads, RecoverRaises(t) PROVE OwnerInv'
    BY <2>21, <2>0 DEF RecoverRaises, Goto, Done, Start
  <2>22. CASE MonitorTakesRequest
    BY <2>22, <2>0 DEF MonitorTakesRequest, Goto, Start, MonitorIdle
  <2>23. CASE MonitorTakesFault
    BY <2>23, <2>0 DEF MonitorTakesFault, Goto, Start, MonitorIdle
  <2>24. CASE MonitorSeesLinkLost
    BY <2>24, <2>0 DEF MonitorSeesLinkLost, Goto, Start, MonitorIdle
  <2>25. CASE MonitorPolls
    BY <2>25, <2>0 DEF MonitorPolls, Goto, Start, MonitorIdle
  <2>26. CASE MonitorFaults
    BY <2>26, <2>0 DEF MonitorFaults, Goto, Funnel
  <2>27. CASE MonitorPauses
    BY <2>27, <2>0 DEF MonitorPauses, Goto, Done
  <2>28. CASE MonitorCleansRail
    BY <2>28, <2>0 DEF MonitorCleansRail, Goto
  <2>29. CASE MonitorChecksMode
    BY <2>29, <2>0 DEF MonitorChecksMode, Goto, Done
  <2>30. ASSUME NEW c \in Callers, RequestRecovery(c) PROVE OwnerInv'
    BY <2>30, <2>0 DEF RequestRecovery
  <2>31. ASSUME NEW c \in Callers, StopBegin(c) PROVE OwnerInv'
    BY <2>31, <2>0 DEF StopBegin, Goto, Start
  <2>32. ASSUME NEW c \in Callers, StopState4(c) PROVE OwnerInv'
    BY <2>32, <2>0 DEF StopState4, Goto
  <2>33. ASSUME NEW c \in Callers, ClearErrorsBegin(c) PROVE OwnerInv'
    BY <2>33, <2>0 DEF ClearErrorsBegin, Goto, Start
  <2>34. CASE BoxError
    BY <2>34, <2>0 DEF BoxError
  <2>35. CASE TakenOver
    BY <2>35, <2>0 DEF TakenOver
  <2>36. CASE Displaced
    BY <2>36, <2>0 DEF Displaced
  <2>37. CASE LinkLost
    BY <2>37, <2>0 DEF LinkLost
  <2>38. CASE Report
    BY <2>38, <2>0 DEF Report
  <2>39. CASE GraceEnds
    BY <2>39, <2>0 DEF GraceEnds
  <2>40. CASE UNCHANGED vars
    BY <2>40 DEF vars, threadVars
  <2>41. QED
    BY <2>1, <2>2, <2>3, <2>4, <2>5, <2>6, <2>7, <2>8, <2>9, <2>10,
       <2>11, <2>12, <2>13, <2>14, <2>15, <2>16, <2>17, <2>18, <2>19,
       <2>20, <2>21, <2>22, <2>23, <2>24, <2>25, <2>26, <2>27, <2>28,
       <2>29, <2>30, <2>31, <2>32, <2>33, <2>34, <2>35, <2>36, <2>37,
       <2>38, <2>39, <2>40
       DEF Next, Tick, Recover, MonitorStep, Call, Box
<1>3. QED
  BY <1>1, <1>2, TypeCorrect, PTL DEF Spec

(***************************************************************************)
(* A driver in RECOVERING has a thread inside _recover that will leave it, *)
(* for any number of concurrent recoveries, unless an exception is not     *)
(* caught.                                                                 *)
(***************************************************************************)
THEOREM RecoveryIsOwned ==
  ASSUME "raise" \notin Hazards PROVE Spec => []RecoveringHasOwner
<1>1. OwnerInv => RecoveringHasOwner
  BY DEF OwnerInv
<1>2. QED
  BY <1>1, OwnerInvariant, PTL

(***************************************************************************)
(* The phase FAULT never loses the flag that makes the monitor recover,    *)
(* except to a recovery that will overwrite FAULT: _recover clears the     *)
(* flag without _phase_lock, and _phase is written by several threads      *)
(* meanwhile.                                                              *)
(***************************************************************************)
THEOREM FaultsAreTakenUp ==
  ASSUME "raise" \notin Hazards PROVE Spec => []FaultStaysPending
<1>1. OwnerInv => FaultStaysPending
  BY DEF OwnerInv
<1>2. QED
  BY <1>1, OwnerInvariant, PTL

\* A tick is not overtaken while it runs, and nobody calls clear_errors();
\* stop() and request_recovery() are allowed.
TicksAreWhole == "stall" \notin Hazards /\ "clear" \notin Hazards

\* A caller's thread is in stop(), or in none of the methods that take time.
CallersOnlyStop ==
  \A c \in Callers : pc[c] \in {"idle", "stop4", "latch", "hold", "record"}

\* The monitor finds a FAULT with the streamer paused.
HaltedIsPaused ==
  phase = "FAULT" => paused \/ spc = "pause2" \/ pc[Monitor] \in {"pause", "stream"}

\* The streamer is paused from the start of a recovery to its resume.
GrabbingIsPaused ==
  pc[Monitor] \in {"lock", "unflag", "readerr", "clean", "enable", "mode", "seed", "resume"}
    => paused

\* Where the streamer does not know where the arm is, the box refuses its
\* commands, or there are none until it is reseeded.
StaleIsStill ==
  /\ ~fresh \/ ~flight => ~ctlServo \/ (paused /\ spc = "idle" /\ pc[Monitor] # "resume")
  /\ spc \notin {"send", "commit"} => flight

JumpInv == CallersOnlyStop /\ HaltedIsPaused /\ GrabbingIsPaused /\ StaleIsStill

(***************************************************************************)
(* The box is taken back into servo mode by the monitor alone, between a   *)
(* pause and a resume with the reseed in between (_recover and             *)
(* _handle_external).                                                      *)
(***************************************************************************)
LEMMA JumpInvariant ==
  ASSUME TicksAreWhole PROVE Spec => []JumpInv
<1>1. Init => JumpInv
  BY MonitorIsAThread
     DEF Init, JumpInv, CallersOnlyStop, HaltedIsPaused, GrabbingIsPaused, StaleIsStill
<1>2. TypeOK /\ JumpInv /\ [Next]_vars => JumpInv'
  <2> SUFFICES ASSUME TypeOK, JumpInv, [Next]_vars PROVE JumpInv'
    OBVIOUS
  <2> USE DriverAssumption, TicksAreWhole, MonitorIsAThread
          DEF JumpInv, CallersOnlyStop, HaltedIsPaused, GrabbingIsPaused,
              StaleIsStill, TicksAreWhole, driverVars, streamVars, threadVars, boxVars,
              PhaseSet, Threads
  <2>0. /\ pc \in [Threads -> PcSet] /\ how \in [Threads -> Ways] /\ phase \in PhaseSet
        /\ fresh \in BOOLEAN /\ flight \in BOOLEAN /\ paused \in BOOLEAN
    BY DEF TypeOK
  <2>1. CASE TickRead
    BY <2>1, <2>0 DEF TickRead
  <2>2. CASE TickSent
    BY <2>2, <2>0 DEF TickSent, Accepts
  <2>3. CASE TickCommit
    BY <2>3, <2>0 DEF TickCommit
  <2>4. CASE TickNotReady
    BY <2>4, <2>0 DEF TickNotReady
  <2>5. CASE TickRejected
    BY <2>5, <2>0 DEF TickRejected
  <2>6. CASE TickPauses
    BY <2>6, <2>0 DEF TickPauses
  <2>7. CASE TickFaults
    BY <2>7, <2>0 DEF TickFaults, Funnel
  <2>8. ASSUME NEW t \in Threads, Undisturbed, RecoverBegin(t)
        PROVE  JumpInv'
    BY <2>8, <2>0 DEF Undisturbed, RecoverBegin, Goto
  <2>9. ASSUME NEW t \in Threads, Undisturbed, RecoverUnflag(t)
        PROVE  JumpInv'
    BY <2>9, <2>0 DEF Undisturbed, RecoverUnflag, Goto
  <2>10. ASSUME NEW t \in Threads, Undisturbed, RecoverReadError(t)
        PROVE  JumpInv'
    BY <2>10, <2>0 DEF Undisturbed, RecoverReadError, Goto
  <2>11. ASSUME NEW t \in Threads, Undisturbed, RecoverClean(t)
        PROVE  JumpInv'
    BY <2>11, <2>0 DEF Undisturbed, RecoverClean, Goto
  <2>12. ASSUME NEW t \in Threads, Undisturbed, RecoverEnable(t)
        PROVE  JumpInv'
    BY <2>12, <2>0 DEF Undisturbed, RecoverEnable, Goto
  <2>13. ASSUME NEW t \in Threads, Undisturbed, Regrab(t)
        PROVE  JumpInv'
    BY <2>13, <2>0 DEF Undisturbed, Regrab, Goto
  <2>14. ASSUME NEW t \in Threads, Undisturbed, EnterServoMode(t)
        PROVE  JumpInv'
    BY <2>14, <2>0 DEF Undisturbed, EnterServoMode, Goto
  <2>15. ASSUME NEW t \in Threads, Undisturbed, Reseed(t)
        PROVE  JumpInv'
    BY <2>15, <2>0 DEF Undisturbed, Reseed, Goto
  <2>16. ASSUME NEW t \in Threads, Undisturbed, Resume(t)
        PROVE  JumpInv'
    BY <2>16, <2>0 DEF Undisturbed, Resume, Goto
  <2>17. ASSUME NEW t \in Threads, Undisturbed, SetStreaming(t)
        PROVE  JumpInv'
    BY <2>17, <2>0 DEF Undisturbed, SetStreaming, Goto, Done
  <2>18. ASSUME NEW t \in Threads, Undisturbed, Latch(t)
        PROVE  JumpInv'
    BY <2>18, <2>0 DEF Undisturbed, Latch, Goto
  <2>19. ASSUME NEW t \in Threads, Undisturbed, LatchPauses(t)
        PROVE  JumpInv'
    BY <2>19, <2>0 DEF Undisturbed, LatchPauses, Goto, Done
  <2>20. ASSUME NEW t \in Threads, Undisturbed, Record(t)
        PROVE  JumpInv'
    BY <2>20, <2>0 DEF Undisturbed, Record, Goto, Done
  <2>21. ASSUME NEW t \in Threads, Undisturbed, RecoverRaises(t)
        PROVE  JumpInv'
    BY <2>21, <2>0 DEF Undisturbed, RecoverRaises, Goto, Done, Start
  <2>22. CASE Undisturbed /\ MonitorTakesRequest
    BY <2>22, <2>0 DEF Undisturbed, MonitorTakesRequest, Goto, Start, MonitorIdle
  <2>23. CASE Undisturbed /\ MonitorTakesFault
    BY <2>23, <2>0 DEF Undisturbed, MonitorTakesFault, Goto, Start, MonitorIdle
  <2>24. CASE Undisturbed /\ MonitorSeesLinkLost
    BY <2>24, <2>0 DEF Undisturbed, MonitorSeesLinkLost, Goto, Start, MonitorIdle
  <2>25. CASE Undisturbed /\ MonitorPolls
    BY <2>25, <2>0 DEF Undisturbed, MonitorPolls, Goto, Start, MonitorIdle
  <2>26. CASE Undisturbed /\ MonitorFaults
    BY <2>26, <2>0 DEF Undisturbed, MonitorFaults, Goto, Funnel
  <2>27. CASE Undisturbed /\ MonitorPauses
    BY <2>27, <2>0 DEF Undisturbed, MonitorPauses, Goto, Done
  <2>28. CASE Undisturbed /\ MonitorCleansRail
    BY <2>28, <2>0 DEF Undisturbed, MonitorCleansRail, Goto
  <2>29. CASE Undisturbed /\ MonitorChecksMode
    BY <2>29, <2>0 DEF Undisturbed, MonitorChecksMode, Goto, Done
  <2>30. ASSUME NEW c \in Callers, Undisturbed, RequestRecovery(c)
        PROVE  JumpInv'
    BY <2>30, <2>0 DEF Undisturbed, RequestRecovery
  <2>31. ASSUME NEW c \in Callers, Undisturbed, StopBegin(c)
        PROVE  JumpInv'
    BY <2>31, <2>0 DEF Undisturbed, StopBegin, Goto, Start
  <2>32. ASSUME NEW c \in Callers, Undisturbed, StopState4(c)
        PROVE  JumpInv'
    BY <2>32, <2>0 DEF Undisturbed, StopState4, Goto
  <2>33. ASSUME NEW c \in Callers, Undisturbed, ClearErrorsBegin(c)
        PROVE  JumpInv'
    BY <2>33, <2>0 DEF Undisturbed, ClearErrorsBegin, Goto, Start
  <2>34. CASE BoxError
    BY <2>34, <2>0 DEF BoxError
  <2>35. CASE TakenOver
    BY <2>35, <2>0 DEF TakenOver
  <2>36. CASE Displaced
    BY <2>36, <2>0 DEF Displaced
  <2>37. CASE LinkLost
    BY <2>37, <2>0 DEF LinkLost
  <2>38. CASE Report
    BY <2>38, <2>0 DEF Report
  <2>39. CASE GraceEnds
    BY <2>39, <2>0 DEF GraceEnds
  <2>40. CASE UNCHANGED vars
    BY <2>40 DEF vars, threadVars
  <2>41. QED
    BY <2>1, <2>2, <2>3, <2>4, <2>5, <2>6, <2>7, <2>8, <2>9, <2>10,
       <2>11, <2>12, <2>13, <2>14, <2>15, <2>16, <2>17, <2>18, <2>19,
       <2>20, <2>21, <2>22, <2>23, <2>24, <2>25, <2>26, <2>27, <2>28,
       <2>29, <2>30, <2>31, <2>32, <2>33, <2>34, <2>35, <2>36, <2>37,
       <2>38, <2>39, <2>40
       DEF Next, Tick, Recover, MonitorStep, Call, Box
<1>3. QED
  BY <1>1, <1>2, TypeCorrect, PTL DEF Spec
(***************************************************************************)
(* No command is executed that does not start where the arm is: however    *)
(* often the arm leaves servo mode, is moved by hand and is taken back,    *)
(* and with stop() at any time (the reseed of _recover, _handle_external). *)
(***************************************************************************)
THEOREM CommandsStartAtTheArm ==
  ASSUME TicksAreWhole PROVE Spec => NoJump
<1>1. JumpInv /\ [Next]_vars => [spc = "send" /\ spc' = "commit" => flight]_vars
  <2> SUFFICES ASSUME JumpInv, [Next]_vars, spc = "send", spc' = "commit" PROVE flight
    OBVIOUS
  <2>1. CASE TickSent
    BY <2>1 DEF TickSent, Accepts, JumpInv, StaleIsStill
  <2>2. CASE Tick /\ ~TickSent
    BY <2>2 DEF Tick, TickRead, TickCommit, TickNotReady, TickRejected, TickPauses, TickFaults
  <2>3. ASSUME NEW t \in Threads, Recover(t) PROVE spc' = spc
    BY <2>3 DEF Recover, RecoverBegin, RecoverUnflag, RecoverReadError, RecoverClean,
       RecoverEnable, Regrab, EnterServoMode, Reseed, Resume, SetStreaming, Latch,
       LatchPauses, Record, RecoverRaises, streamVars
  <2>4. CASE MonitorStep
    BY <2>4 DEF MonitorStep, MonitorTakesRequest, MonitorTakesFault, MonitorSeesLinkLost,
       MonitorPolls, MonitorFaults, MonitorPauses, MonitorCleansRail, MonitorChecksMode,
       streamVars
  <2>5. ASSUME NEW c \in Callers, Call(c) \/ StopState4(c) PROVE spc' = spc
    BY <2>5 DEF Call, RequestRecovery, StopBegin, ClearErrorsBegin, StopState4, streamVars
  <2>6. CASE Box \/ Report \/ GraceEnds \/ UNCHANGED vars
    BY <2>6 DEF Box, BoxError, TakenOver, Displaced, LinkLost, Report, GraceEnds, vars,
       streamVars
  <2>7. QED
    BY <2>1, <2>2, <2>3, <2>4, <2>5, <2>6 DEF Next
<1>2. QED
  BY <1>1, JumpInvariant, PTL DEF Spec, NoJump

(***************************************************************************)
(* The driver keeps to how ServoStream is driven: it tells the stream      *)
(* where the arm is while the stream is paused and no tick is under way,   *)
(* and resumes it right afterwards (_recover, _handle_external).           *)
(***************************************************************************)
StreamMove ==
  \/ UNCHANGED Stream!controlVars
  \/ Stream!Next

LEMMA DriverDrivesStream ==
  ASSUME TicksAreWhole, TypeOK, JumpInv, [Next]_vars PROVE StreamMove
<1> USE DriverAssumption, TicksAreWhole, MonitorIsAThread
        DEF JumpInv, CallersOnlyStop, GrabbingIsPaused, HaltedIsPaused, TicksAreWhole, StreamMove,
            Stream!controlVars, Stream!Next, Stream!TickBegins, Stream!TickEnds, Stream!TickFails,
            Stream!Pause, Stream!Reseed, Stream!Resume,
            driverVars, streamVars, threadVars, boxVars, PhaseSet, Threads
<1>0. /\ pc \in [Threads -> PcSet] /\ how \in [Threads -> Ways] /\ phase \in PhaseSet
      /\ fresh \in BOOLEAN /\ flight \in BOOLEAN /\ paused \in BOOLEAN
  BY DEF TypeOK
<1>1. CASE TickRead
  BY <1>1, <1>0 DEF TickRead
<1>2. CASE TickSent
  BY <1>2, <1>0 DEF TickSent, Accepts
<1>3. CASE TickCommit
  BY <1>3, <1>0 DEF TickCommit
<1>4. CASE TickNotReady
  BY <1>4, <1>0 DEF TickNotReady
<1>5. CASE TickRejected
  BY <1>5, <1>0 DEF TickRejected
<1>6. CASE TickPauses
  BY <1>6, <1>0 DEF TickPauses
<1>7. CASE TickFaults
  BY <1>7, <1>0 DEF TickFaults, Funnel
<1>8. ASSUME NEW t \in Threads, Undisturbed, RecoverBegin(t)
      PROVE  StreamMove
  BY <1>8, <1>0 DEF Undisturbed, RecoverBegin, Goto
<1>9. ASSUME NEW t \in Threads, Undisturbed, RecoverUnflag(t)
      PROVE  StreamMove
  BY <1>9, <1>0 DEF Undisturbed, RecoverUnflag, Goto
<1>10. ASSUME NEW t \in Threads, Undisturbed, RecoverReadError(t)
      PROVE  StreamMove
  BY <1>10, <1>0 DEF Undisturbed, RecoverReadError, Goto
<1>11. ASSUME NEW t \in Threads, Undisturbed, RecoverClean(t)
      PROVE  StreamMove
  BY <1>11, <1>0 DEF Undisturbed, RecoverClean, Goto
<1>12. ASSUME NEW t \in Threads, Undisturbed, RecoverEnable(t)
      PROVE  StreamMove
  BY <1>12, <1>0 DEF Undisturbed, RecoverEnable, Goto
<1>13. ASSUME NEW t \in Threads, Undisturbed, Regrab(t)
      PROVE  StreamMove
  BY <1>13, <1>0 DEF Undisturbed, Regrab, Goto
<1>14. ASSUME NEW t \in Threads, Undisturbed, EnterServoMode(t)
      PROVE  StreamMove
  BY <1>14, <1>0 DEF Undisturbed, EnterServoMode, Goto
<1>15. ASSUME NEW t \in Threads, Undisturbed, Reseed(t)
      PROVE  StreamMove
  BY <1>15, <1>0 DEF Undisturbed, Reseed, Goto
<1>16. ASSUME NEW t \in Threads, Undisturbed, Resume(t)
      PROVE  StreamMove
  BY <1>16, <1>0 DEF Undisturbed, Resume, Goto
<1>17. ASSUME NEW t \in Threads, Undisturbed, SetStreaming(t)
      PROVE  StreamMove
  BY <1>17, <1>0 DEF Undisturbed, SetStreaming, Goto, Done
<1>18. ASSUME NEW t \in Threads, Undisturbed, Latch(t)
      PROVE  StreamMove
  BY <1>18, <1>0 DEF Undisturbed, Latch, Goto
<1>19. ASSUME NEW t \in Threads, Undisturbed, LatchPauses(t)
      PROVE  StreamMove
  BY <1>19, <1>0 DEF Undisturbed, LatchPauses, Goto, Done
<1>20. ASSUME NEW t \in Threads, Undisturbed, Record(t)
      PROVE  StreamMove
  BY <1>20, <1>0 DEF Undisturbed, Record, Goto, Done
<1>21. ASSUME NEW t \in Threads, Undisturbed, RecoverRaises(t)
      PROVE  StreamMove
  BY <1>21, <1>0 DEF Undisturbed, RecoverRaises, Goto, Done, Start
<1>22. CASE Undisturbed /\ MonitorTakesRequest
  BY <1>22, <1>0 DEF Undisturbed, MonitorTakesRequest, Goto, Start, MonitorIdle
<1>23. CASE Undisturbed /\ MonitorTakesFault
  BY <1>23, <1>0 DEF Undisturbed, MonitorTakesFault, Goto, Start, MonitorIdle
<1>24. CASE Undisturbed /\ MonitorSeesLinkLost
  BY <1>24, <1>0 DEF Undisturbed, MonitorSeesLinkLost, Goto, Start, MonitorIdle
<1>25. CASE Undisturbed /\ MonitorPolls
  BY <1>25, <1>0 DEF Undisturbed, MonitorPolls, Goto, Start, MonitorIdle
<1>26. CASE Undisturbed /\ MonitorFaults
  BY <1>26, <1>0 DEF Undisturbed, MonitorFaults, Goto, Funnel
<1>27. CASE Undisturbed /\ MonitorPauses
  BY <1>27, <1>0 DEF Undisturbed, MonitorPauses, Goto, Done
<1>28. CASE Undisturbed /\ MonitorCleansRail
  BY <1>28, <1>0 DEF Undisturbed, MonitorCleansRail, Goto
<1>29. CASE Undisturbed /\ MonitorChecksMode
  BY <1>29, <1>0 DEF Undisturbed, MonitorChecksMode, Goto, Done
<1>30. ASSUME NEW c \in Callers, Undisturbed, RequestRecovery(c)
      PROVE  StreamMove
  BY <1>30, <1>0 DEF Undisturbed, RequestRecovery
<1>31. ASSUME NEW c \in Callers, Undisturbed, StopBegin(c)
      PROVE  StreamMove
  BY <1>31, <1>0 DEF Undisturbed, StopBegin, Goto, Start
<1>32. ASSUME NEW c \in Callers, Undisturbed, StopState4(c)
      PROVE  StreamMove
  BY <1>32, <1>0 DEF Undisturbed, StopState4, Goto
<1>33. ASSUME NEW c \in Callers, Undisturbed, ClearErrorsBegin(c)
      PROVE  StreamMove
  BY <1>33, <1>0 DEF Undisturbed, ClearErrorsBegin, Goto, Start
<1>34. CASE BoxError
  BY <1>34, <1>0 DEF BoxError
<1>35. CASE TakenOver
  BY <1>35, <1>0 DEF TakenOver
<1>36. CASE Displaced
  BY <1>36, <1>0 DEF Displaced
<1>37. CASE LinkLost
  BY <1>37, <1>0 DEF LinkLost
<1>38. CASE Report
  BY <1>38, <1>0 DEF Report
<1>39. CASE GraceEnds
  BY <1>39, <1>0 DEF GraceEnds
<1>40. CASE UNCHANGED vars
  BY <1>40 DEF vars, threadVars
<1>41. QED
  BY <1>1, <1>2, <1>3, <1>4, <1>5, <1>6, <1>7, <1>8, <1>9, <1>10,
     <1>11, <1>12, <1>13, <1>14, <1>15, <1>16, <1>17, <1>18, <1>19,
     <1>20, <1>21, <1>22, <1>23, <1>24, <1>25, <1>26, <1>27, <1>28,
     <1>29, <1>30, <1>31, <1>32, <1>33, <1>34, <1>35, <1>36, <1>37,
     <1>38, <1>39, <1>40
     DEF Next, Tick, Recover, MonitorStep, Call, Box

\* The driver implements StreamControl where ticks are not overtaken and users recover
\* with request_recovery: the stream of ServoStream is seeded and resumed only as that
\* module assumes, for any number of callers, with stop() at any time.
THEOREM DriverImplementsStreamControl ==
  ASSUME TicksAreWhole PROVE Spec => StreamControlled
<1>1. Init => Stream!Init
  BY MonitorIsAThread DEF Init, Stream!Init
<1>2. TypeOK /\ JumpInv /\ [Next]_vars => [Stream!Next]_(Stream!controlVars)
  BY DriverDrivesStream DEF StreamMove
<1> QED
  BY <1>1, <1>2, TypeCorrect, JumpInvariant, PTL DEF Spec, StreamControlled, Stream!Spec
=============================================================================
