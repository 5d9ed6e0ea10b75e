------------------------ MODULE RecoveryBudgetProofs ------------------------
(***************************************************************************)
(* Proofs about RecoveryBudget, for any budget, any windows, any length of *)
(* the clock, and either way for the user to recover.                      *)
(***************************************************************************)
EXTENDS RecoveryBudget, TLAPS

(***************************************************************************)
(* _reset_recovery_budget leaves the books in their type: no recovery, and *)
(* no last one.                                                            *)
(***************************************************************************)
LEMMA NothingBooked ==
  /\ <<>> \in Seq(Times)
  /\ [err |-> "none", t |-> 0] \in [err : Recoverable \cup {"none"}, t : Times]
  BY BudgetAssumption DEF Times

(***************************************************************************)
(* What popleft leaves behind: the k oldest are gone, the younger stay in  *)
(* order (_budget_ok).                                                     *)
(***************************************************************************)
LEMMA YoungerAreBooked ==
  ASSUME times \in Seq(Times), NEW k \in 0 .. Len(times)
  PROVE  LET rest == SubSeq(times, k + 1, Len(times)) IN
         /\ rest \in Seq(Times)
         /\ Len(rest) = Len(times) - k
         /\ \A i \in 1 .. Len(rest) : rest[i] = times[k + i]
  OBVIOUS

(***************************************************************************)
(* Type correctness of the recovery policy: the deque of _recovery_times   *)
(* only ever holds readings of the clock.                                  *)
(***************************************************************************)
THEOREM TypeCorrect == Spec => []TypeOK
<1>1. Init => TypeOK
  <2> SUFFICES ASSUME Init PROVE TypeOK
    OBVIOUS
  <2>1. <<>> \in Seq(Times) /\ lastAuto \in [err : Recoverable \cup {"none"}, t : Times]
    BY NothingBooked DEF Init
  <2>2. 0 \in Times /\ Never \in Int
    BY BudgetAssumption DEF Times, Never
  <2>3. QED
    BY <2>1, <2>2 DEF Init, TypeOK
<1>2. TypeOK /\ [Next]_vars => TypeOK'
  <2> SUFFICES ASSUME TypeOK, [Next]_vars PROVE TypeOK'
    OBVIOUS
  <2> USE BudgetAssumption DEF TypeOK, Times, Recoverable, Never, policy, history
  <2>1. CASE Tick
    BY <2>1 DEF Tick
  <2>2. CASE Fault
    BY <2>2 DEF Fault
  <2>3. CASE Motion
    BY <2>3 DEF Motion
  <2>4. CASE AutoWaits
    BY <2>4 DEF AutoWaits
  <2>5. CASE AutoBegin
    BY <2>5 DEF AutoBegin
  <2>6. CASE AutoDecide
    <3>1. CASE times' = times
      BY <2>6, <3>1 DEF AutoDecide
    <3>2. CASE times' # times
      <4>1. PICK k \in 0 .. Len(times) : times' = SubSeq(times, k + 1, Len(times))
        BY <2>6, <3>2 DEF AutoDecide
      <4>2. times' \in Seq(Times)
        BY <4>1, YoungerAreBooked
      <4>3. mpc' \in {"run", "latch"}
        BY <2>6 DEF AutoDecide
      <4>4. UNCHANGED <<now, phase, err, lastAuto, backoff, scale, retryAt, moved, at, cpc,
                        cat, history>>
        BY <2>6 DEF AutoDecide
      <4>5. QED
        BY <4>2, <4>3, <4>4
    <3>3. QED
      BY <3>1, <3>2
  <2>7. CASE AutoLatch
    BY <2>7 DEF AutoLatch
  <2>8. CASE AutoResume
    <3>1. backoff' \in Int /\ scale' \in {"full", "half"}
         /\ tripAt' \in Times \cup {Never}
      BY <2>8 DEF AutoResume, Trip
    <3>2. times' \in Seq(Times) /\ resumed' \in Seq(Times)
      BY <2>8 DEF AutoResume, Trip
    <3>3. lastAuto' \in [err : Recoverable \cup {"none"}, t : Times]
      BY <2>8 DEF AutoResume, Trip
    <3>4. moved' \in BOOLEAN /\ asked' \in BOOLEAN
      BY <2>8 DEF AutoResume, Trip
    <3>5. phase' \in {"STREAMING", "FAULT", "RECOVERING", "LATCHED"}
         /\ err' \in Recoverable \cup {"none"} /\ mpc' \in {"idle", "lock", "external", "decide", "run", "latch", "reset",
                      "user", "expired", "restore"}
      BY <2>8 DEF AutoResume, Trip
    <3>6. UNCHANGED <<now, retryAt, at, cpc, cat>>
      BY <2>8 DEF AutoResume, Trip
    <3>7. QED
      BY <3>1, <3>2, <3>3, <3>4, <3>5, <3>6
  <2>9. CASE External
    BY <2>9 DEF External
  <2>10. CASE ExpiryDue
    BY <2>10 DEF ExpiryDue
  <2>11. CASE ExpiryClears
    BY <2>11 DEF ExpiryClears
  <2>12. CASE ExpiryRestores
    BY <2>12 DEF ExpiryRestores
  <2>13. CASE ClearErrors
    BY <2>13 DEF ClearErrors
  <2>13a. CASE ClearErrorsResets
    <3>1. times' \in Seq(Times) /\ resumed' \in Seq(Times)
         /\ lastAuto' \in [err : Recoverable \cup {"none"}, t : Times]
      BY <2>13a, NothingBooked DEF ClearErrorsResets, Reset
    <3>2. asked' \in BOOLEAN
      BY <2>13a DEF ClearErrorsResets, Reset
    <3>3. backoff' \in Int /\ scale' \in {"full", "half"}
         /\ retryAt' \in Times \cup {Never} /\ tripAt' \in Times \cup {Never}
      BY <2>13a DEF ClearErrorsResets, Reset
    <3>4. cpc' \in {"absent", "idle", "reset", "lock", "recover"}
      BY <2>13a DEF ClearErrorsResets, Reset
    <3>5. UNCHANGED <<now, phase, err, moved, mpc, at, cat>>
      BY <2>13a DEF ClearErrorsResets, Reset
    <3>6. QED
      BY <3>1, <3>2, <3>3, <3>4, <3>5
  <2>14. CASE ClearErrorsRecovers
    BY <2>14 DEF ClearErrorsRecovers
  <2>15. CASE ClearErrorsEnds
    <3>1. backoff' \in Int /\ scale' \in {"full", "half"}
         /\ tripAt' \in Times \cup {Never}
      BY <2>15 DEF ClearErrorsEnds, UserResumes, Trip
    <3>2. moved' \in BOOLEAN
      BY <2>15 DEF ClearErrorsEnds, UserResumes, Trip
    <3>3. phase' \in {"STREAMING", "FAULT", "RECOVERING", "LATCHED"}
         /\ err' \in Recoverable \cup {"none"}
      BY <2>15 DEF ClearErrorsEnds, UserResumes, Trip
    <3>4. cpc' \in {"absent", "idle", "reset", "lock", "recover"} /\ cat' \in Times
      BY <2>15 DEF ClearErrorsEnds, UserResumes, Trip
    <3>5. UNCHANGED <<now, times, lastAuto, retryAt, mpc, at,
                      resumed, asked>>
      BY <2>15 DEF ClearErrorsEnds, UserResumes, Trip
    <3>6. QED
      BY <3>1, <3>2, <3>3, <3>4, <3>5
  <2>16. CASE UserReset
    <3>1. times' \in Seq(Times) /\ resumed' \in Seq(Times)
         /\ lastAuto' \in [err : Recoverable \cup {"none"}, t : Times]
      BY <2>16, NothingBooked DEF UserReset, Reset
    <3>2. asked' \in BOOLEAN
      BY <2>16 DEF UserReset, Reset
    <3>3. backoff' \in Int /\ scale' \in {"full", "half"}
         /\ retryAt' \in Times \cup {Never} /\ tripAt' \in Times \cup {Never}
      BY <2>16 DEF UserReset, Reset
    <3>4. mpc' \in {"idle", "lock", "external", "decide", "run", "latch", "reset",
                  "user", "expired", "restore"}
      BY <2>16 DEF UserReset, Reset
    <3>5. UNCHANGED <<now, phase, err, moved, at, cpc, cat>>
      BY <2>16 DEF UserReset, Reset
    <3>6. QED
      BY <3>1, <3>2, <3>3, <3>4, <3>5
  <2>17. CASE UserRecovers
    BY <2>17 DEF UserRecovers
  <2>18. CASE UserRecoverEnds
    <3>1. backoff' \in Int /\ scale' \in {"full", "half"}
         /\ tripAt' \in Times \cup {Never}
      BY <2>18 DEF UserRecoverEnds, UserResumes, Trip
    <3>2. moved' \in BOOLEAN
      BY <2>18 DEF UserRecoverEnds, UserResumes, Trip
    <3>3. phase' \in {"STREAMING", "FAULT", "RECOVERING", "LATCHED"}
         /\ err' \in Recoverable \cup {"none"}
      BY <2>18 DEF UserRecoverEnds, UserResumes, Trip
    <3>4. mpc' \in {"idle", "lock", "external", "decide", "run", "latch", "reset",
                  "user", "expired", "restore"}
      BY <2>18 DEF UserRecoverEnds, UserResumes, Trip
    <3>5. UNCHANGED <<now, times, lastAuto, retryAt, at, cpc, cat,
                      resumed, asked>>
      BY <2>18 DEF UserRecoverEnds, UserResumes, Trip
    <3>6. QED
      BY <3>1, <3>2, <3>3, <3>4, <3>5
  <2>19. CASE UNCHANGED vars
    BY <2>19 DEF vars
  <2>20. QED
    BY <2>1, <2>2, <2>3, <2>4, <2>5, <2>6, <2>7, <2>8, <2>9, <2>10,
       <2>11, <2>12, <2>13, <2>13a, <2>14, <2>15, <2>16, <2>17, <2>18, <2>19 DEF Next
<1>3. QED
  BY <1>1, <1>2, PTL DEF Spec

\* The deque is the tail of the history of automatic recoveries, and what was
\* popped from it is older than the window: a recovery that finds room in the
\* deque is therefore more than a window later than the one Budget before it.
BudgetInv ==
  /\ Len(times) <= Len(resumed)
  /\ \A i \in 1 .. Len(times) : times[i] = resumed[Len(resumed) - Len(times) + i]
  /\ \A i \in 1 .. Len(resumed) - Len(times) : at - resumed[i] > Window
  /\ mpc = "run" => Len(times) < Budget
  /\ at <= now
  /\ WithinBudget

(***************************************************************************)
(* The inductive invariant of WithinBudget: booking (_recover), popping    *)
(* (_budget_ok) and clearing (_reset_recovery_budget, from any thread)     *)
(* keep it.                                                                *)
(***************************************************************************)
LEMMA BudgetInvariant == Spec => []BudgetInv
<1>1. Init => BudgetInv
  BY BudgetAssumption DEF Init, BudgetInv, WithinBudget
<1>2. TypeOK /\ BudgetInv /\ [Next]_vars => BudgetInv'
  <2> SUFFICES ASSUME TypeOK, BudgetInv, [Next]_vars PROVE BudgetInv'
    OBVIOUS
  <2> USE BudgetAssumption DEF BudgetInv, WithinBudget, policy, history
  <2>0. /\ now \in Nat /\ at \in Nat /\ times \in Seq(Times) /\ resumed \in Seq(Times)
        /\ Times \subseteq Nat
    BY DEF TypeOK, Times
  <2>00. /\ Len(times) \in Nat /\ Len(resumed) \in Nat
         /\ \A i \in 1 .. Len(resumed) : resumed[i] \in Nat
    <3>1. \A i \in 1 .. Len(resumed) : resumed[i] \in Times
      BY <2>0
    <3>2. \A i \in 1 .. Len(resumed) : resumed[i] \in Nat
      BY <3>1 DEF Times
    <3>3. Len(times) \in Nat /\ Len(resumed) \in Nat
      BY <2>0
    <3>4. QED
      BY <3>2, <3>3
  <2>1. CASE Tick
    BY <2>1, <2>0 DEF Tick
  <2>2. CASE Fault
    BY <2>2, <2>0 DEF Fault
  <2>3. CASE Motion
    BY <2>3, <2>0 DEF Motion
  <2>4. CASE AutoWaits
    BY <2>4, <2>0 DEF AutoWaits
  <2>5. CASE AutoBegin
    <3>1. UNCHANGED <<times, resumed>> /\ at' = now /\ now' = now /\ mpc' # "run"
      BY <2>5 DEF AutoBegin
    <3>2. \A i \in 1 .. Len(resumed) - Len(times) : now - resumed[i] > Window
      BY <2>0, <2>00
    <3>3. QED
      BY <2>0, <3>1, <3>2
  <2>6. CASE AutoDecide
    <3>1. UNCHANGED <<now, at, resumed>> /\ mpc' \in {"run", "latch"}
      BY <2>6 DEF AutoDecide, history
    <3>2. CASE mpc' = "latch" /\ times' = times
      BY <2>0, <3>1, <3>2
    <3>3. CASE ~(mpc' = "latch" /\ times' = times)
      <4>1. PICK k \in 0 .. Len(times) :
              /\ times' = SubSeq(times, k + 1, Len(times)) /\ Expired(k)
              /\ mpc' = "run" => Len(times') < Budget
        BY <2>6, <3>3 DEF AutoDecide, BudgetLeft
      <4>2. /\ Len(times') = Len(times) - k
            /\ \A i \in 1 .. Len(times') : times'[i] = times[k + i]
        BY <4>1, <2>0, YoungerAreBooked
      <4>3. ASSUME NEW i \in 1 .. Len(resumed) - Len(times') PROVE at - resumed[i] > Window
        <5>1. CASE i <= Len(resumed) - Len(times)
          BY <5>1, <2>0
        <5>2. CASE i > Len(resumed) - Len(times)
          <6>1. i - (Len(resumed) - Len(times)) \in 1 .. k
            BY <4>2, <5>2, <2>0
          <6>2. at - times[i - (Len(resumed) - Len(times))] > Window
            BY <4>1, <6>1 DEF Expired
          <6>3. times[i - (Len(resumed) - Len(times))] = resumed[i]
            BY <6>1, <2>0
          <6>4. QED
            BY <6>2, <6>3
        <5>3. QED
          BY <5>1, <5>2, <2>0
      <4>4. \A i \in 1 .. Len(times') : times'[i] = resumed[Len(resumed) - Len(times') + i]
        BY <4>2, <2>0
      <4>5. Len(times') <= Len(resumed')
        BY <3>1, <4>2, <2>00
      <4>6. WithinBudget'
        BY <3>1
      <4>7. QED
        BY <3>1, <4>1, <4>3, <4>4, <4>5, <4>6
    <3>4. QED
      BY <3>2, <3>3
  <2>7. CASE AutoLatch
    BY <2>7, <2>0 DEF AutoLatch
  <2>8. CASE AutoResume
    <3>1. /\ UNCHANGED <<now, at>> /\ mpc = "run" /\ mpc' = "idle"
          /\ times' = Append(times, at) /\ resumed' = Append(resumed, at)
      BY <2>8 DEF AutoResume
    <3>2. /\ Len(times') = Len(times) + 1 /\ Len(resumed') = Len(resumed) + 1
          /\ \A i \in 1 .. Len(times) : times'[i] = times[i]
          /\ \A i \in 1 .. Len(resumed) : resumed'[i] = resumed[i]
          /\ times'[Len(times) + 1] = at /\ resumed'[Len(resumed) + 1] = at
      BY <3>1, <2>0
    <3>3. ASSUME NEW i \in 1 .. Len(resumed'), i + Budget <= Len(resumed')
          PROVE  resumed'[i + Budget] - resumed'[i] > Window
      <4>1. CASE i + Budget <= Len(resumed)
        BY <4>1, <3>2, <2>0
      <4>2. CASE i + Budget = Len(resumed) + 1
        <5>1. i \in 1 .. Len(resumed) - Len(times)
          BY <4>2, <3>1, <2>0
        <5>2. at - resumed[i] > Window
          BY <5>1
        <5>3. i \in 1 .. Len(resumed)
          BY <5>1, <2>0
        <5>4. QED
          BY <5>2, <5>3, <4>2, <3>2
      <4>3. i \in Nat /\ i + Budget <= Len(resumed) + 1
        BY <3>2, <3>3, <2>00
      <4>4. i + Budget <= Len(resumed) \/ i + Budget = Len(resumed) + 1
        <5> HIDE DEF WithinBudget
        <5>1. \A m, n, b \in Int : m + b <= n + 1 => m + b <= n \/ m + b = n + 1
          OBVIOUS
        <5>2. i \in Int /\ Budget \in Int /\ Len(resumed) \in Int
          BY <4>3, <2>00
        <5>3. QED
          BY <5>1, <5>2, <4>3, Zenon
      <4>5. QED
        BY <4>1, <4>2, <4>4
    <3>4. \A i \in 1 .. Len(times') : times'[i] = resumed'[Len(resumed') - Len(times') + i]
      <4>1. ASSUME NEW i \in 1 .. Len(times')
            PROVE  times'[i] = resumed'[Len(resumed') - Len(times') + i]
        <5> HIDE DEF WithinBudget
        <5> DEFINE j == Len(resumed) - Len(times) + i
        <5>0. i \in 1 .. Len(times) + 1 /\ Len(resumed') - Len(times') + i = j
          BY <3>2, <2>00
        <5>1. CASE i \in 1 .. Len(times)
          <6>1. j \in 1 .. Len(resumed) /\ times[i] = resumed[j]
            BY <5>1, <2>00
          <6>2. times'[i] = times[i] /\ resumed'[j] = resumed[j]
            BY <6>1, <5>1, <3>2
          <6>3. QED
            BY <6>1, <6>2, <5>0
        <5>2. CASE i = Len(times) + 1
          <6>1. j = Len(resumed) + 1
            BY <5>2, <2>00
          <6>2. QED
            BY <6>1, <5>2, <5>0, <3>2
        <5>3. i \in 1 .. Len(times) \/ i = Len(times) + 1
          BY <5>0, <2>00
        <5>4. QED
          BY <5>1, <5>2, <5>3
      <4>2. QED
        BY <4>1
    <3>5. ASSUME NEW i \in 1 .. Len(resumed') - Len(times') PROVE at - resumed'[i] > Window
      <4>1. i \in 1 .. Len(resumed) - Len(times) /\ i \in 1 .. Len(resumed)
        BY <3>2, <2>00
      <4>2. QED
        BY <4>1, <3>2
    <3>6. Len(times') <= Len(resumed')
      BY <3>2, <2>00
    <3>7. WithinBudget'
      BY <3>3 DEF WithinBudget
    <3>8. QED
      BY <3>1, <3>4, <3>5, <3>6, <3>7
  <2>9. CASE External
    BY <2>9, <2>0 DEF External
  <2>10. CASE ExpiryDue
    BY <2>10, <2>0 DEF ExpiryDue
  <2>11. CASE ExpiryClears
    BY <2>11, <2>0 DEF ExpiryClears
  <2>12. CASE ExpiryRestores
    BY <2>12, <2>0 DEF ExpiryRestores
  <2>13. CASE ClearErrors
    BY <2>13, <2>0 DEF ClearErrors
  <2>13a. CASE ClearErrorsResets
    BY <2>13a, <2>0 DEF ClearErrorsResets, Reset
  <2>14. CASE ClearErrorsRecovers
    BY <2>14, <2>0 DEF ClearErrorsRecovers
  <2>15. CASE ClearErrorsEnds
    BY <2>15, <2>0 DEF ClearErrorsEnds, UserResumes, Trip
  <2>16. CASE UserReset
    BY <2>16, <2>0 DEF UserReset, Reset
  <2>17. CASE UserRecovers
    <3>1. UNCHANGED <<times, resumed>> /\ at' = now /\ now' = now /\ mpc' # "run"
      BY <2>17 DEF UserRecovers
    <3>2. \A i \in 1 .. Len(resumed) - Len(times) : now - resumed[i] > Window
      BY <2>0, <2>00
    <3>3. QED
      BY <2>0, <3>1, <3>2
  <2>18. CASE UserRecoverEnds
    BY <2>18, <2>0 DEF UserRecoverEnds, UserResumes, Trip
  <2>19. CASE UNCHANGED vars
    BY <2>19 DEF vars
  <2>20. QED
    BY <2>1, <2>2, <2>3, <2>4, <2>5, <2>6, <2>7, <2>8, <2>9, <2>10,
       <2>11, <2>12, <2>13, <2>13a, <2>14, <2>15, <2>16, <2>17, <2>18, <2>19 DEF Next
<1>3. QED
  BY <1>1, <1>2, TypeCorrect, PTL DEF Spec

(***************************************************************************)
(* At most Budget automatic recoveries from controller errors in any       *)
(* Window since the user last stepped in, though a caller of               *)
(* clear_errors() may empty the deque between the check of the budget and  *)
(* the booking.                                                            *)
(***************************************************************************)
THEOREM RecoveriesStayWithinBudget == Spec => []WithinBudget
<1>1. BudgetInv => WithinBudget
  BY DEF BudgetInv
<1>2. QED
  BY <1>1, BudgetInvariant, PTL

\* Where no caller of clear_errors() is, the three statements that
\* end a backoff are not interrupted: the deadline is that of the last trip, and
\* it is gone only when its time has come.
TripInv ==
  cpc = "absent" =>
    /\ HalvedInBackoff
    /\ mpc = "expired" => backoff # Never /\ now >= backoff
    /\ mpc = "restore" => backoff = Never
    /\ tripAt # Never /\ backoff # Never => backoff = tripAt + Backoff
    /\ tripAt # Never /\ backoff = Never => now >= tripAt + Backoff
    /\ mpc = "decide" /\ tripAt # Never /\ backoff = Never => at >= tripAt + Backoff
    /\ mpc = "run" /\ err = "c24" /\ tripAt # Never => at >= tripAt + Backoff
    /\ phase = "STREAMING" => mpc \notin {"decide", "run", "latch"}

(***************************************************************************)
(* The inductive invariant of the two theorems below, for a driver whose   *)
(* users ask with request_recovery: every reader and writer of             *)
(* _c24_backoff_until is then the monitor thread.                          *)
(***************************************************************************)
LEMMA TripInvariant == Spec => []TripInv
<1>1. Init => TripInv
  BY DEF Init, TripInv, HalvedInBackoff
<1>2. TypeOK /\ TripInv /\ [Next]_vars => TripInv'
  <2> SUFFICES ASSUME TypeOK, TripInv, [Next]_vars PROVE TripInv'
    OBVIOUS
  <2> USE BudgetAssumption DEF TripInv, HalvedInBackoff, policy, history, Never
  <2>0. /\ now \in Nat /\ at \in Nat /\ backoff \in Int
        /\ tripAt \in Int /\ scale \in {"full", "half"}
    BY DEF TypeOK, Times
  <2>1. CASE Tick
    BY <2>1, <2>0 DEF Tick
  <2>2. CASE Fault
    BY <2>2, <2>0 DEF Fault
  <2>3. CASE Motion
    BY <2>3, <2>0 DEF Motion
  <2>4. CASE AutoWaits
    BY <2>4, <2>0 DEF AutoWaits
  <2>5. CASE AutoBegin
    BY <2>5, <2>0 DEF AutoBegin
  <2>6. CASE AutoDecide
    <3>1. mpc = "decide" /\ UNCHANGED <<now, phase, err, backoff, scale, tripAt, at, cpc>>
      BY <2>6 DEF AutoDecide
    <3>2. mpc' \in {"run", "latch"} /\ (mpc' = "run" => ~InBackoff)
      BY <2>6 DEF AutoDecide
    <3>3. QED
      BY <3>1, <3>2, <2>0 DEF InBackoff
  <2>7. CASE AutoLatch
    BY <2>7, <2>0 DEF AutoLatch
  <2>8. CASE AutoResume
    <3>1. /\ now' = now /\ at' = at /\ cpc' = cpc /\ mpc' = "idle"
          /\ mpc = "run" /\ err' = "none" /\ Trip(at)
      BY <2>8 DEF AutoResume
    <3>2. QED
      BY <3>1, <2>0 DEF Trip
  <2>9. CASE External
    BY <2>9, <2>0 DEF External
  <2>10. CASE ExpiryDue
    BY <2>10, <2>0 DEF ExpiryDue
  <2>11. CASE ExpiryClears
    BY <2>11, <2>0 DEF ExpiryClears
  <2>12. CASE ExpiryRestores
    BY <2>12, <2>0 DEF ExpiryRestores
  <2>13. CASE ClearErrors
    BY <2>13, <2>0 DEF ClearErrors
  <2>13a. CASE ClearErrorsResets
    BY <2>13a, <2>0 DEF ClearErrorsResets, Reset
  <2>14. CASE ClearErrorsRecovers
    BY <2>14, <2>0 DEF ClearErrorsRecovers
  <2>15. CASE ClearErrorsEnds
    BY <2>15, <2>0 DEF ClearErrorsEnds, UserResumes, Trip
  <2>16. CASE UserReset
    BY <2>16, <2>0 DEF UserReset, Reset
  <2>17. CASE UserRecovers
    BY <2>17, <2>0 DEF UserRecovers
  <2>18. CASE UserRecoverEnds
    BY <2>18, <2>0 DEF UserRecoverEnds, UserResumes, Trip
  <2>19. CASE UNCHANGED vars
    BY <2>19 DEF vars
  <2>20. QED
    BY <2>1, <2>2, <2>3, <2>4, <2>5, <2>6, <2>7, <2>8, <2>9, <2>10,
       <2>11, <2>12, <2>13, <2>13a, <2>14, <2>15, <2>16, <2>17, <2>18, <2>19 DEF Next
<1>3. QED
  BY <1>1, <1>2, TypeCorrect, PTL DEF Spec

(***************************************************************************)
(* Half speed exactly while a backoff runs: the speed is never left        *)
(* halved, and never restored early.                                       *)
(***************************************************************************)
THEOREM HalvedWhileBackingOff == Spec => []HalvedInBackoff
<1>1. TripInv => HalvedInBackoff
  BY DEF TripInv, HalvedInBackoff
<1>2. QED
  BY <1>1, TripInvariant, PTL

(***************************************************************************)
(* A C24 inside the backoff of an earlier one is not recovered             *)
(* automatically, however the expiry, the faults and the user's requests   *)
(* are ordered.                                                            *)
(***************************************************************************)
THEOREM SecondTripLatches == Spec => NoSecondTrip
<1> DEFINE Kept == cpc = "absent" /\ mpc = "run" /\ mpc' = "idle" /\ phase' = "STREAMING"
                     /\ err = "c24" => tripAt = Never \/ at >= tripAt + Backoff
<1>1. TripInv /\ [Next]_vars => Kept
  BY DEF TripInv
<1>2. QED
  BY <1>1, TripInvariant, PTL DEF Spec, NoSecondTrip


\* While the monitor thread is in a recovery it holds _recovery_lock: nobody else
\* changes the phase or the error, and what _budget_ok found stays true until the
\* recovery is booked.  _moved_since_reseed may be older than the last recovery
\* only where that recovery was forgotten.
HoldInv ==
  /\ mpc \in {"external", "decide", "run", "latch", "user"}
       => phase # "STREAMING" /\ cpc # "recover"
  /\ mpc \in {"decide", "run"} => err # "none"
  /\ moved => asked \/ lastAuto.err = "none"
  /\ mpc = "run" /\ lastAuto.err = err => asked \/ at - lastAuto.t > Refault

(***************************************************************************)
(* The inductive invariant of the theorem below, whoever recovers for the  *)
(* user: _reset_recovery_budget runs outside the lock, but it forgets the  *)
(* last recovery as well, and an error is never equal to None.             *)
(***************************************************************************)
LEMMA HoldInvariant == Spec => []HoldInv
<1>1. Init => HoldInv
  BY DEF Init, HoldInv
<1>2. TypeOK /\ HoldInv /\ [Next]_vars => HoldInv'
  <2> SUFFICES ASSUME TypeOK, HoldInv, [Next]_vars PROVE HoldInv'
    OBVIOUS
  <2> USE DEF HoldInv, policy, history
  <2>1. CASE Tick
    BY <2>1 DEF Tick
  <2>2. CASE Fault
    BY <2>2 DEF Fault
  <2>3. CASE Motion
    BY <2>3 DEF Motion
  <2>4. CASE AutoWaits
    BY <2>4 DEF AutoWaits
  <2>5. CASE AutoBegin
    BY <2>5 DEF AutoBegin
  <2>6. CASE AutoDecide
    <3>1. mpc = "decide" /\ UNCHANGED <<phase, err, lastAuto, moved, at, cpc, asked>>
      BY <2>6 DEF AutoDecide
    <3>2. mpc' \in {"run", "latch"} /\ (mpc' = "run" => ~RefaultWhileHolding)
      BY <2>6 DEF AutoDecide
    <3>3. at \in Int /\ lastAuto.t \in Int /\ Refault \in Int
      BY BudgetAssumption DEF TypeOK, Times
    <3>4. QED
      BY <3>1, <3>2, <3>3 DEF RefaultWhileHolding
  <2>7. CASE AutoLatch
    BY <2>7 DEF AutoLatch
  <2>8. CASE AutoResume
    BY <2>8 DEF AutoResume
  <2>9. CASE External
    BY <2>9 DEF External
  <2>10. CASE ExpiryDue
    BY <2>10 DEF ExpiryDue
  <2>11. CASE ExpiryClears
    BY <2>11 DEF ExpiryClears
  <2>12. CASE ExpiryRestores
    BY <2>12 DEF ExpiryRestores
  <2>13. CASE ClearErrors
    BY <2>13 DEF ClearErrors
  <2>13a. CASE ClearErrorsResets
    BY <2>13a DEF ClearErrorsResets, Reset
  <2>14. CASE ClearErrorsRecovers
    BY <2>14 DEF ClearErrorsRecovers
  <2>15. CASE ClearErrorsEnds
    BY <2>15 DEF ClearErrorsEnds, UserResumes
  <2>16. CASE UserReset
    BY <2>16 DEF UserReset, Reset
  <2>17. CASE UserRecovers
    BY <2>17 DEF UserRecovers
  <2>18. CASE UserRecoverEnds
    BY <2>18 DEF UserRecoverEnds, UserResumes
  <2>19. CASE UNCHANGED vars
    BY <2>19 DEF vars
  <2>20. QED
    BY <2>1, <2>2, <2>3, <2>4, <2>5, <2>6, <2>7, <2>8, <2>9, <2>10,
       <2>11, <2>12, <2>13, <2>13a, <2>14, <2>15, <2>16, <2>17, <2>18, <2>19 DEF Next
<1>3. QED
  BY <1>1, <1>2, TypeCorrect, PTL DEF Spec

(***************************************************************************)
(* An arm that only held its posture is not recovered twice in a row from  *)
(* the same error within Refault, whatever callers of clear_errors() do    *)
(* while _recover decides (_refault_while_holding).                        *)
(***************************************************************************)
THEOREM HoldingArmIsNotRecoveredAgain == Spec => NoHoldingLoop
<1>1. HoldInv /\ [Next]_vars =>
        [mpc = "run" /\ mpc' = "idle" /\ phase' = "STREAMING" /\ lastAuto.err = err
           => asked \/ at - lastAuto.t > Refault]_vars
  BY DEF HoldInv
<1>2. QED
  BY <1>1, HoldInvariant, PTL DEF Spec, NoHoldingLoop
=============================================================================
