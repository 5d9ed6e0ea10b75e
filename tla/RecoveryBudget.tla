--------------------------- MODULE RecoveryBudget ---------------------------
(***************************************************************************)
(* When an automatic recovery is allowed: the timed policy of driver.py    *)
(* (_refault_while_holding, _budget_ok, _handle_external, the C24 backoff  *)
(* and its expiry, _reset_recovery_budget).                                *)
(*                                                                         *)
(* now is the monotonic clock.  The monitor thread decides on a fault,     *)
(* runs the recovery sequence, and lets the backoff expire; recoveries end *)
(* later than they start, and are booked with the time they started.  The  *)
(* user's recovery runs on the monitor thread (request_recovery) or on the *)
(* caller's (clear_errors): its reset of the budget is outside             *)
(* _recovery_lock.  How a recovery talks to the box is module ArmDriver.   *)
(***************************************************************************)
EXTENDS Integers, Sequences

CONSTANTS Budget,       \* RECOVERY_BUDGET
          Window,       \* RECOVERY_WINDOW_S
          Refault,      \* REFAULT_WINDOW_S
          Backoff,      \* C24_BACKOFF_S
          Conflict,     \* two conflicts within this time latch (5 s)
          MaxTime       \* bound of the clock

ASSUME BudgetAssumption ==
  /\ Budget \in Nat \ {0} /\ MaxTime \in Nat
  /\ Window \in Nat /\ Refault \in Nat /\ Backoff \in Nat /\ Conflict \in Nat

VARIABLES now,        \* the monotonic clock
          phase,      \* _phase
          err,        \* the controller's error
          times,      \* _recovery_times, oldest first
          lastAuto,   \* _last_auto_recovery: its error and its time
          backoff,    \* _c24_backoff_until, Never when None
          scale,      \* the streamer's _scale
          moved,      \* the streamer's _moved_since_reseed
          retryAt,    \* _external_retry_at, Never when None
          mpc, at,    \* the monitor thread, and when its recovery started
          cpc, cat,   \* the caller of clear_errors(), "absent" if none does, and
                      \* when its recovery started
          resumed,    \* history: automatic recoveries since the user's last action
          tripAt,     \* history: last recovery from a C24 since then
          asked       \* history: motion was asked for since the last of resumed

policy  == <<times, lastAuto, backoff, scale, retryAt>>
history == <<resumed, tripAt, asked>>
vars == <<now, phase, err, policy, moved, mpc, at, cpc, cat, history>>

Times == 0 .. MaxTime
Never == -1                      \* None
Recoverable == {"c24", "other"}

Init ==
  /\ now = 0 /\ phase = "STREAMING" /\ err = "none"
  /\ times = <<>> /\ lastAuto = [err |-> "none", t |-> 0]
  /\ backoff = Never /\ scale = "full" /\ retryAt = Never
  /\ moved = FALSE /\ mpc = "idle" /\ at = 0
  /\ cpc \in {"absent", "idle"} /\ cat = 0
  /\ resumed = <<>> /\ tripAt = Never /\ asked = FALSE

Tick ==
  /\ now < MaxTime /\ now' = now + 1
  /\ UNCHANGED <<phase, err, policy, moved, mpc, at, cpc, cat, history>>

Fault ==                       \* _on_fault; a tick refused without an error too
  /\ phase = "STREAMING" /\ phase' = "FAULT"
  /\ err' \in Recoverable \cup {"none"}
  /\ UNCHANGED <<now, policy, moved, mpc, at, cpc, cat, history>>

\* set_target with a target away from the posture of the last reseed; only a
\* LATCHED driver refuses commands
Motion ==
  /\ phase # "LATCHED" /\ moved' = TRUE /\ asked' = TRUE
  /\ UNCHANGED <<now, phase, err, policy, mpc, at, cpc, cat, resumed, tripAt>>

(***************************************************************************)
(* The monitor thread: _recover for a fault.                               *)
(***************************************************************************)
\* (mutant) the boundary of the window is left out
RefaultStrictlyWithin ==
  lastAuto.err = err /\ at - lastAuto.t < Refault /\ ~moved

\* _refault_while_holding: the same error again, and nothing was asked for
RefaultWhileHolding ==
  lastAuto.err = err /\ at - lastAuto.t <= Refault /\ ~moved

\* (mutant) one time unit short
InShortBackoff == err = "c24" /\ backoff # Never /\ at < backoff - 1

InBackoff == err = "c24" /\ backoff # Never /\ at < backoff

\* _budget_ok pops the first k times: those, and only those, are too old
Expired(k) == /\ \A i \in 1 .. k : at - times[i] > Window
              /\ k < Len(times) => at - times[k + 1] <= Window

\* (mutant) one recovery too many
BudgetOffByOne(rest) == Len(rest) <= Budget

BudgetLeft(rest) == Len(rest) < Budget

AutoWaits ==                   \* the tick sees the fault and goes for _recovery_lock
  /\ mpc = "idle" /\ phase = "FAULT" /\ mpc' = "lock"
  /\ UNCHANGED <<now, phase, err, policy, moved, at, cpc, cat, history>>

\* _recover reads the error; a caller may have cleaned it while this one waited
AutoBegin ==
  /\ mpc = "lock" /\ cpc # "recover"
  /\ at' = now /\ phase' = "RECOVERING"
  /\ mpc' = (IF err = "none" THEN "external" ELSE "decide")
  /\ UNCHANGED <<now, err, policy, moved, cpc, cat, history>>

AutoDecide ==
  /\ mpc = "decide"
  /\ IF RefaultWhileHolding \/ InBackoff
       THEN mpc' = "latch" /\ UNCHANGED times
       ELSE \E k \in 0 .. Len(times) :
              LET rest == SubSeq(times, k + 1, Len(times)) IN
              /\ Expired(k) /\ times' = rest
              /\ mpc' = (IF BudgetLeft(rest) THEN "run" ELSE "latch")
  /\ UNCHANGED <<now, phase, err, lastAuto, backoff, scale, retryAt, moved, at, cpc, cat, history>>

AutoLatch ==                   \* not allowed, or a step of the sequence failed
  /\ mpc \in {"run", "latch"} /\ mpc' = "idle" /\ phase' = "LATCHED"
  /\ UNCHANGED <<now, err, policy, moved, at, cpc, cat, history>>

\* reseed and resume; a C24 halves the speed until the backoff expires
Trip(t) == IF err = "c24"
             THEN scale' = "half" /\ backoff' = t + Backoff /\ tripAt' = t
             ELSE UNCHANGED <<scale, backoff, tripAt>>

AutoResume ==
  /\ mpc = "run" /\ mpc' = "idle" /\ phase' = "STREAMING"
  /\ Trip(at) /\ err' = "none"
  /\ times' = Append(times, at) /\ lastAuto' = [err |-> err, t |-> at]
  /\ moved' = FALSE
  /\ resumed' = Append(resumed, at) /\ asked' = FALSE
  /\ UNCHANGED <<now, retryAt, at, cpc, cat>>

\* _handle_external: the arm left servo mode, seen in the reports or by a fault
\* without a controller error
Conflicts == retryAt # Never /\ now - retryAt < Conflict

External ==
  /\ mpc = "external" \/ (mpc = "idle" /\ phase = "STREAMING")
  /\ mpc' = "idle"
  /\ \/ Conflicts /\ phase' = "LATCHED" /\ UNCHANGED <<retryAt, moved>>
     \/ ~Conflicts /\ phase' = "STREAMING" /\ retryAt' = now /\ moved' = FALSE
  /\ UNCHANGED <<now, err, times, lastAuto, backoff, scale, at, cpc, cat, history>>

(***************************************************************************)
(* The monitor thread: the backoff expires, in three statements.           *)
(***************************************************************************)
ExpiryDue ==                   \* the tick gets here when no fault is pending
  /\ mpc = "idle" /\ phase # "FAULT"
  /\ backoff # Never /\ now >= backoff
  /\ mpc' = "expired"
  /\ UNCHANGED <<now, phase, err, policy, moved, at, cpc, cat, history>>

ExpiryClears ==
  /\ mpc = "expired" /\ mpc' = "restore" /\ backoff' = Never
  /\ UNCHANGED <<now, phase, err, times, lastAuto, scale, retryAt, moved, at, cpc, cat, history>>

\* (mutant) the speed is not restored
ExpiryForgets ==
  /\ mpc = "restore" /\ mpc' = "idle"
  /\ UNCHANGED <<now, phase, err, policy, moved, at, cpc, cat, history>>

ExpiryRestores ==
  /\ mpc = "restore" /\ mpc' = "idle" /\ scale' = "full"
  /\ UNCHANGED <<now, phase, err, times, lastAuto, backoff, retryAt, moved, at, cpc, cat, history>>

(***************************************************************************)
(* The user's recovery: _reset_recovery_budget, then _recover.             *)
(***************************************************************************)
Reset ==
  /\ times' = <<>> /\ lastAuto' = [err |-> "none", t |-> 0]
  /\ backoff' = Never /\ scale' = "full" /\ retryAt' = Never
  /\ resumed' = <<>> /\ tripAt' = Never /\ asked' = FALSE

\* clear_errors: the check, on whatever phase the monitor leaves to be read
ClearErrors ==
  /\ cpc = "idle" /\ phase \in {"LATCHED", "FAULT"} /\ cpc' = "reset"
  /\ UNCHANGED <<now, phase, err, policy, moved, mpc, at, cat, history>>

\* its reset, outside the lock: the monitor may be anywhere by now
ClearErrorsResets ==
  /\ cpc = "reset" /\ cpc' = "lock" /\ Reset
  /\ UNCHANGED <<now, phase, err, moved, mpc, at, cat>>

\* _recovery_lock is free: the monitor is not in a recovery
ClearErrorsRecovers ==
  /\ cpc = "lock" /\ mpc \notin {"external", "decide", "run", "latch", "user"}
  /\ cpc' = "recover" /\ cat' = now /\ phase' = "RECOVERING"
  /\ UNCHANGED <<now, err, policy, moved, mpc, at, history>>

\* the sequence succeeds, or one of its steps fails and latches
UserResumes(t) ==
  \/ /\ phase' = "STREAMING" /\ err' = "none" /\ moved' = FALSE /\ Trip(t)
  \/ phase' = "LATCHED" /\ UNCHANGED <<err, moved, scale, backoff, tripAt>>

ClearErrorsEnds ==
  /\ cpc = "recover" /\ cpc' = "idle" /\ cat' = 0 /\ UserResumes(cat)
  /\ UNCHANGED <<now, times, lastAuto, retryAt, mpc, at, resumed, asked>>

\* request_recovery, taken up by the monitor: _user_recover resets, then recovers
UserReset ==
  /\ mpc = "idle" /\ mpc' = "reset" /\ Reset
  /\ UNCHANGED <<now, phase, err, moved, at, cpc, cat>>

UserRecovers ==
  /\ mpc = "reset" /\ cpc # "recover" /\ mpc' = "user"
  /\ at' = now /\ phase' = "RECOVERING"
  /\ UNCHANGED <<now, err, policy, moved, cpc, cat, history>>

UserRecoverEnds ==
  /\ mpc = "user" /\ mpc' = "idle" /\ UserResumes(at)
  /\ UNCHANGED <<now, times, lastAuto, retryAt, at, cpc, cat, resumed, asked>>

Next ==
  \/ Tick \/ Fault \/ Motion
  \/ AutoWaits \/ AutoBegin \/ AutoDecide \/ AutoLatch \/ AutoResume
  \/ External
  \/ ExpiryDue \/ ExpiryClears \/ ExpiryRestores
  \/ ClearErrors \/ ClearErrorsResets \/ ClearErrorsRecovers \/ ClearErrorsEnds
  \/ UserReset \/ UserRecovers \/ UserRecoverEnds

Spec == Init /\ [][Next]_vars

(***************************************************************************)
(* Properties.                                                             *)
(***************************************************************************)
\* Every variable stays in its range.
TypeOK ==
  /\ now \in Times /\ at \in Times /\ cat \in Times
  /\ phase \in {"STREAMING", "FAULT", "RECOVERING", "LATCHED"}
  /\ err \in Recoverable \cup {"none"}
  /\ times \in Seq(Times) /\ resumed \in Seq(Times)
  /\ lastAuto \in [err : Recoverable \cup {"none"}, t : Times]
  /\ backoff \in Int /\ scale \in {"full", "half"}
  /\ retryAt \in Times \cup {Never} /\ tripAt \in Times \cup {Never}
  /\ moved \in BOOLEAN /\ asked \in BOOLEAN
  /\ mpc \in {"idle", "lock", "external", "decide", "run", "latch", "reset", "user",
              "expired", "restore"}
  /\ cpc \in {"absent", "idle", "reset", "lock", "recover"}

\* In any Window there are at most Budget automatic recoveries from controller
\* errors, counted since the user last stepped in (_budget_ok: "<= 3 recoveries
\* per rolling 30 s").
WithinBudget ==
  \A i \in 1 .. Len(resumed) :
    i + Budget <= Len(resumed) => resumed[i + Budget] - resumed[i] > Window

\* Where users recover with request_recovery, a second C24 is not recovered
\* automatically within the Backoff of the first (_budget_ok: "a second C24
\* inside the backoff window latches immediately").
NoSecondTrip ==
  [][cpc = "absent" /\ mpc = "run" /\ mpc' = "idle" /\ phase' = "STREAMING"
     /\ err = "c24" => tripAt = Never \/ at >= tripAt + Backoff]_vars

\* An arm that only held its posture is not recovered twice in a row from the
\* same error within Refault, whatever was re-grabbed or reseeded in between.
NoHoldingLoop ==
  [][mpc = "run" /\ mpc' = "idle" /\ phase' = "STREAMING" /\ lastAuto.err = err
       => asked \/ at - lastAuto.t > Refault]_vars

\* Where users recover with request_recovery, the stream runs at half speed
\* exactly while a backoff is running (_recover: "halve vel/acc for 10 s after a
\* speed-limit trip").  A caller of clear_errors() resets and trips between the
\* statements that end a backoff on the monitor thread.
HalvedInBackoff ==
  cpc = "absent" /\ mpc # "restore" => (scale = "half" <=> backoff # Never)
=============================================================================
