# Formal model of apollo-mavis-v2-hardware

TLA+ modules, TLC configurations and TLAPS proofs for the hardware layer of the robot: the
driver of an xArm with its linear track, the policy by which it recovers from faults, the
read-only monitor of a control box, the sessions of a workcell of arms and cameras, and the
set-up of the network that the arms are on.  `src/...` paths are relative to the repository;
`driver.py`, `rail.py` and the others are in `src/apollo_mavis_v2_hardware/`.

    tlc -config MCRail.cfg MCRail          # every run of the table below
    tlapm RailTrackProofs.tla              # every *Proofs module

## The system

| Component | State | Operations | Who runs them |
| --- | --- | --- | --- |
| `XArmDriver` (driver.py) | `_phase`, `_fault_pending`, `_user_recovery_pending`, `_err_code`, `_snap`, `_api`, budget bookkeeping | `connect`, `command_joints`, `_on_fault`, `_recover`, `_handle_external`, `_latch`, `stop`, `clear_errors`, `request_recovery`, `home_rail`, `disconnect` | callers, streamer, monitor |
| `_ServoStreamer` | `_target`, `_last_sent`, `_prev_dq`, `_scale`, `_paused`, grace window, `_moved_since_reseed` | `set_target`, `reseed`, `pause`, `resume`, one tick at 100 Hz | its thread; the others under its lock |
| `_MonitorThread` | none of its own | one step at 5 Hz: request, fault, link, error poll, mode check, staleness, backoff, rail, gripper | its thread |
| `RailController` (rail.py) | `_phase`, `_pos_m`, `_pos_known`, `_target_m`, `_homing`, `_last_sent_mm`, `_cleaned_once` | `detect`, `require_homed`, `observe_registers`, `set_target`, `step`, `home`, `latch_error` | monitor (`step`), any thread (`set_target`), a job (`home`) |
| Recovery policy (in driver.py) | `_recovery_times`, `_last_auto_recovery`, `_c24_backoff_until`, `_external_retry_at` | `_refault_while_holding`, `_budget_ok`, backoff expiry, `_reset_recovery_budget` | monitor; callers of `clear_errors` |
| `ArmStateMonitor` (monitor.py) | `_running`, `_gen`, `_thread`, `_api`, `_status`, `_sample`, `_requests`, `_maintenance_active` | `start`, `stop`, `disconnect`, `maintenance`; the poll thread connects, polls, executes requests, backs off | its thread, the caller of the lifecycle, operators |
| `HardwareWorkcell` (workcell.py) | drivers, cameras, `_statuses`, `_bringup_errors`, `_cameras_started`, `_stopped` | `start`/`bring_up`, `stop`/`shutdown`, `start_cameras`, `stop_cameras` | caller, one thread per arm |
| netsetup | `nic_map.json` of the system and of the user, the hold-off stamp, connection profiles | `match`, `verify`, `repair`, `reconcile`, dispatcher hook | user, root's dispatcher, NetworkManager |
| cameras | `_running`, `_thread`, `_cap` or `_pipeline`, `_reopened_once` | `start`, `stop`, capture loop with reopen | caller, capture threads |
| grippers | last command, rate limit | `command`, `poll` | monitor |
| backstops, units, config, events | none | SDK writes at connect, pure conversions, records | connect |

Interaction.  Callers talk to the driver by methods; the streamer reports a failed tick by
the callback `_on_fault`; the monitor finds work in flags (`_fault_pending`,
`_user_recovery_pending`) and in the controller's error; the SDK's report thread swaps
`_snap`.  `_phase` is shared by all of them: only `_on_fault` writes it under `_phase_lock`,
and `_recover` holds `_recovery_lock`, which `stop` and `_handle_external` (called from the
poll) do not.  The rail is shared by the monitor (`step`), a job (`home`) and any thread
(`set_target`).  The state monitor and a session share a control box that takes one client:
the monitor is stopped before a session connects.  A workcell starts one thread for each
arm, joins them until a deadline, then starts the cameras.  The dispatcher, root's process,
and a user's `match` meet in NetworkManager and in the files.

What is hard.  Plain writes of `_phase` by several threads; a tick that runs while the
phase, the pause flag or `_last_sent` change; SDK calls that fail or raise in the middle of
a sequence; state that is read, then used after an SDK call; time windows measured from the
start of something that ends later; hand-over between threads by joins with a time limit;
repairs that cause the events they answer.  `PROJECT.json`, key `hazards`, lists them at
their lines, with the properties that cover them or the reason why none does.

What makes each component correct:

- driver: a halted arm is not streamed to; a fault is neither lost nor left
  unfinished; a latch is undone only for the user; after a recovery the first
  command starts where the arm is; an unrecoverable error is not cleaned
  automatically.
- servo stream: no step of a joint or of the tool beyond its limit, no overshoot beyond the
  stopping distance, a target that stays is reached.
- policy: bounded automatic recoveries, no loop on a load that persists, half
  speed exactly during a backoff.
- rail: one user of the bus during a homing, no stale target, only a track of
  known position is commanded, a position is not known after a failed homing.
- state monitor: at most one live client of a box; a request refused has written
  nothing, one reported as done has written everything; a box handed over is free.
- session and workcell: a shutdown leaves no client and no thread, and released brakes only
  where the box refused the hand-back or a recovery crossed it; an arm refused before it is
  enabled keeps its brakes; what `start` reports is true; one arm does not keep another from
  connecting; an observer changes nothing.
- cameras: a stopped camera is released.
- netsetup: a repair leaves the arms that answer alone, comes to rest where a silent arm is
  in its place, and reaches the arms again after cables were swapped.

## Modules

    MaintenanceChannel <- StateMonitor        StateMonitorProofs
    ArmService <- ArmDriver                   ArmDriverProofs
    StreamControl <- ArmDriver, ServoStream   ServoStreamProofs
    ArmSession <- Workcell <- HardwareWorkcell   WorkcellProofs <- HardwareWorkcellProofs
                     Camera <-'
    RailTrack, RecoveryBudget, NetRepair, each with its *Proofs

The `MC*` modules and configurations give the constants values.

### RailTrack: class `RailController`

One action per piece of a method between two points where another thread can run: an SDK
call or a `with self._lock` block.  `mpc`, `hpc[h]` and `cpc` are the program counters of
the monitor thread, of each caller of `home()` and of a caller of `clear_errors()` that
reads error 111.  `cpc` is "absent" in the behaviours where nobody calls `clear_errors()`.

| Code | Model |
| --- | --- |
| `detect`, `require_homed`, `_setup_homed_track` | `DetectAbsent`, `ConnectRefused`, `ConnectUnhomed`, `ConnectHomed` (no other thread exists yet) |
| `observe_registers` | `ConnectReadonly`, `ObserveRegisters` |
| `set_target` | `SetTarget` |
| `step`, `_handle_track_error`, `_fault` | `StepBegin`, `StepReadPos`, `StepLoad`, `StepSendOk`, `StepSendFails`, `StepClean`, `StepFault`, `MonitorDropsTarget` |
| `latch_error` | `MonitorLatch` and `MonitorDropsTarget`; `CallerLatch` and `CallerDropsTarget` |
| `home`, `_home_locked` | `HomeBegin` ... `HomeEnd` |
| the track | `TrackMoves`, `TrackFails`, `HomedByOperator` |

`_io_lock` is not a variable: the monitor holds it exactly while `InStep`, and `home()` only
passes through it.  `Clamp` is the conversion `rail_m_to_mm`: every command passes through
it, and the type invariant says that none leaves the travel.  `MonitorLatch` is free to
latch a track that is faulted already: the poll of the monitor (driver.py:1552) passes over
it, its `_recover` (driver.py:1087-1089) does not. Positions are whole millimetres, and two
positions closer than `MIN_DELTA_MM` are one; the rail's event list and the texts are left
out.

### ArmDriver: fault funnel, recovery and stop

`spc` is where the streamer's tick is, `pc[t]` where the monitor or a caller is, and
`how[t]` what it runs: `_recover` for the user, for a fault, its external branch,
`_handle_external` from the poll, `stop`.  `_recovery_lock` is held by a thread that runs
one of the first three and is past "lock".  Pieces of the code that run under one lock, or
touch no shared state, are one action; the two halves of `_latch` and of `_on_fault` (the
phase, the pause) are two.

Data is abstracted to what decides: an error is its class (`classify_error`), a posture is
whether `_last_sent` is where the arm is (`fresh`; `flight` for the command of a tick under
way), a grace window is open or closed.  A failing `get_err_warn_code` counts as no error,
with the link up as well (driver.py:1073-1074).  The budget is a free choice here, and
module RecoveryBudget says which.

`Hazards` selects what a configuration lets happen besides errors: "stop", "clear" (callers
that use these methods on their own thread), "stall" (a tick that other threads overtake;
without it a tick is short compared with everything else), "reject" (a tick refused by a
healthy arm), "caught" (an exception in a recovery asked with `request_recovery`, which
catches it), "raise" (an exception in any recovery), "takeover", "displace", "link".

ArmService is the abstract specification of an arm as its user sees it: live, halted or
latched, and requests of which each is granted once and releases the arm at most once.  The
phase STREAMING maps to live, LATCHED to latched, the others to halted; a request is granted
from the step in which the monitor takes it until `_recover` begins (`Service`, in
ArmDriver).  The driver implements its safety part (`ServiceKept`) and its liveness part
(`ServiceServed`) as long as callers do not stop and clear on their own threads.

StreamControl is what ArmDriver and ServoStream have in common: the stream runs, is paused,
or is seeded (paused, and told where the arm is), and a tick is under way or not.
ServoStream's actions are built from those of StreamControl, as what it assumes of its
users; that the driver drives its streamer so is `StreamControlled`, with a stream that is
seeded while the monitor stands between `reseed` and `resume`.

### ServoStream: the arithmetic of `_ServoStreamer`

| Code | Model |
| --- | --- |
| `_run`: what is left, `_vel_step`, `_acc_step` around `_prev_dq` | `Ramped` |
| the lever arms and `max_cart_step_m` | `Reach`, `Slowed` |
| the clip to the joint limits | `Command`, `TickReads` |
| code 0; code 9 in the grace window; any other | `TickSent`, `TickNotReady`, `TickFails` |
| `set_target` after the clip of `command_joints`; `pause`, `reseed`, `resume`, `set_scale` | `SetTarget`, `Pause`, `Reseed`, `Resume`, `SetScale` |

Angles and lever arms are integers of some unit, velocities and accelerations are per tick,
and the Cartesian slow-down, a factor `MAX_CART / reach` in the code, rounds towards zero.
That `C24_BACKOFF_SCALE` is one half is kept: what is configured is twice `HalfVel` and
`HalfAcc`.  A tick is two steps, the arithmetic and what comes after the SDK call; a pause
may fall between them, as may a new target and a new scale.  A reseed may not:
`StreamControlled` says that it does not, `NoJump` what comes of it.  Whether the grace
window is over in time is open, its count of ticks is kept.  `moved` is a history variable:
the step before, through pauses, which zero `prev`.

Seen while modelling, without a run of its own: `reseed` takes the measured posture as it is
(driver.py:683, 1127, 1218), and the clip to the limits comes after those of a step.  An arm
that was left in the margin of a joint limit (0.0087 rad, a tick slews 0.006) is sent to the
limit in the first tick, though it was asked to hold, and the acceleration limit carries
that step on into the next ones; config.py:39 says of `max_joint_vel` "per-tick slew =
vel*dt".  TLC breaks `StepLimited` with a posture outside `Lo .. Hi`; the theorems assume
`SeededInside`.

### RecoveryBudget: when a recovery is automatic

The monotonic clock is an integer, `Tick` advances it, and everything else takes no time; a
recovery keeps in `at` the time at which it started, as the code does in `now`.
`AutoDecide` is `_refault_while_holding` and `_budget_ok`; the expiry of the C24 backoff is
three actions, as it is three unlocked statements; `Reset` is `_reset_recovery_budget`,
called by the monitor (`UserReset`) or by a caller of `clear_errors()`
(`ClearErrorsResets`), outside `_recovery_lock`.  Such a caller checks the phase, resets,
and recovers in three steps, and the monitor may be anywhere in between: a check that found
FAULT may be followed by a reset between the monitor's budget test and its booking.  Its
recovery keeps its own start time, `cat`.  `resumed`, `tripAt` and `asked` are history
variables for the properties.  `scale` is the streamer's speed scale.

### StateMonitor and MaintenanceChannel: class `ArmStateMonitor`

A poll thread belongs to a generation `g`; `pc[g]` is where it is and `held[g]` its local
`api`.  `lpc` is where the thread is that calls `start()`, `stop()` and `disconnect()`:
these calls are assumed to come one after the other, as the session manager makes them.
`told[r]` is what the caller of `maintenance()` got.

| Code | Model |
| --- | --- |
| `_run`, `_connect_once`, `_set`, `_release_api` | `Loop`, `Fetch`, `Dial`, `DialOk`, `DialFails`, `Adopt`, `HangUp`, `AfterPoll`, `Raises`, `Drop` |
| `_poll` | `PollReads`, `PollFails`, `Publish` |
| `_service` and the operations | `NothingToDo`, `TakeRequest`, `CheckRefuses`, `CheckPasses`, `FirstWrite`, `LastWrites`, `Judge`, `Finally` |
| `start`; `stop` and `disconnect` | `Start`, `StartJoins`, `Spawn`; `Shutdown`, `ShutdownFails`, `Join`, `InFlight`, `JoinOp`, `Forget`, `ShutdownHangsUp`, `ShutdownEnds` |
| `maintenance`, `_fail_pending` | `Ask`, `Answered`, `TimesOut`, `FailPending` |
| box and arm | `BoxLost`, `ArmMoves` |

Assumptions: a join with a time limit runs out only while the thread is inside an SDK call
(`InSdk`); `late` records that one of the long waits (15 s for an old thread, 45 s for a
homing) did.  Sleeps, the wake-up event and `_backoff_s` only delay and are left out, as are
what is only displayed and the judgement of a read-back.  `_set(error)` and `_release_api`
are one step in `Drop`, the take and the answer of a request one in `FailPending`.

MaintenanceChannel is the abstract specification of the channel: a request refused has
written nothing and never will, one reported as done made all its writes, a caller that
timed out knows nothing and its request may still be executed, once.  StateMonitor
implements it with the identity as refinement mapping (`ChannelPromise`).

Seen while modelling, without a property: the `after` sample of `home_rail` may be an old
one where `get_servo_angle` fails (monitor.py:289 says fresh), and its error code that of
the sample before; where a long wait ran out, the superseded thread shares and releases the
client of the new one and resets its `_maintenance_active`.

### ArmSession and Workcell: `connect`, `disconnect`, `bring_up`, `shutdown`

For each arm, `cpc` is where the thread that connects it is, `wpc` where its monitor thread
(or read-only poller) is, `ccp` where a caller of `clear_errors()` is, who recovers on his
own thread, `dpc` where `disconnect()` is; methods are split at their SDK calls.  Of the box
only the client and the brakes are kept.  A recovery is what it writes and whether it still
finds `self._api`; its details are ArmDriver.  `_recovery_lock` (`Locked`) keeps the
recoveries of the two threads of an arm apart.  Workcell adds the thread of `start()` and
`stop()`: the network stage, a thread for every arm, the joins with their deadline, the
reports, the disconnects in reverse order, and observers that connect an arm read-only.
`late` records that a bounded join ran out inside an SDK write, or that `bring_up` gave up
on a thread; `crashed` that a thread of the bring-up died of an SDK exception.

`disconnect()` promises an arm "stopped, brakes engaged" (driver.py:1383-1386).  The code
keeps this promise except in two cases, which `handback` records and `Excused` names.  The
box may refuse `set_mode(0)`, `set_state(4)` or `motion_enable(False)`: their codes are
ignored and their exceptions swallowed (driver.py:1395-1407), and the brakes stay as they
were (`HandBack`, "refused").  And a caller of `clear_errors()`, whom `disconnect()` does
not join, may have read `_api` and not yet called `motion_enable(True)`: it enables the arm
after the hand-back, while the client is still open ("crossed").  No bounded join has run
out in either.  `HandedBack` and `RefusedKeepsBrakes` allow released brakes in these two
cases and no other; the second, too, because the brakes that the session before has left
released are still so when the next connect is refused.  TLC breaks both properties without
the exception, and `HandedBack` with each of the two cases alone.

Bounds of the caller: `clear_errors()` is called for arms that the last `start()` has
connected (`UserClears`), for the arms of `Cleared`; and `start()` is not called while such
a caller is in a recovery of the session before, or its monitor thread waits for
`_recovery_lock` (`NoneRecovers`): either would go on in the new session, through the new
client.

Seen while modelling, without a run of their own: an exception of `match` or `verify` fails
all arms (workcell.py:267-272), though the docstring says that one arm failing never aborts
the others; `_bring_up_arm` catches `BringupError` only, so that after a bare exception of
the SDK `start()` returns with an arm that is neither connected nor in error (the properties
say `~crashed`); `connect()` starts its threads before it writes STREAMING over what they
may have written; a connect that outlives the bring-up connects its arm after `shutdown()`
as well (the properties say `~late`).

### Camera and HardwareWorkcell: `start_cameras`, `stop_cameras`, the capture threads

`kpc` is where the thread is that starts or stops the cameras, one after the other;
`tpc[k][t]` where capture thread `t` of camera `k` is.  A camera has one flag `capturing`
(`_running`) for all its threads, and `stop()` joins only the last of them, for 1 s.  An
open may succeed or fail at any time: USB, `hardware_reset()` and a busy device are not
modelled.  Frames, formats, staleness and the `failed` flag are left out, and a frameset
without colour.

| Code | Model |
| --- | --- |
| `start_cameras`, `start` of both kinds | `StartCameras`, `CameraStarts`, `CameraOpens`, `CameraSpawns`, `CamerasStarted` |
| `stop_cameras`, `stop` | `StopCameras`, `CameraStops`, `CameraJoins`, `CameraReleases`, `CamerasStopped` |
| `OpenCVCamera._capture_loop` | `CaptureLoops`, `CaptureReads`, `CaptureFails`, `CaptureReopens`, `CaptureEnds` |
| `RealSenseCamera._capture_loop`, `_reopen`, `_stop_pipeline` | the first three and `Retries`, `Stops`, `WarmsUp`, `CaptureEnds` |

HardwareWorkcell composes them with the arms: `bring_up()` ends with `start_cameras()`,
`shutdown()` begins with `stop_cameras()`, and both are also called for previews.  The flag
of a workcell without cameras is left alone.

Seen while modelling: a capture thread that outlived its `stop()` goes on in the next
session, and when it gives up it lowers the flag of that session, which is left with an open
device that nobody reads until the next stop; a V4L2 thread that reopens after `stop()`
leaks its device (the `overrun` of `CamerasReleased`); `_reopened_once` is never reset;
`shutdown()` returns early when `_stopped`, also where previews were started since.

### NetRepair: `match`, `repair`, `reconcile` and the dispatcher

Two processes, "root" (the dispatcher's worker, one at a time under its file lock) and
"user" (a `match` that takes no lock); `loc[p]` is what each remembers: what `verify` saw,
the arms still to be matched, the NICs that are frozen.  The environment is NetworkManager
(which brings profiles up by itself, and raises events), cables and boxes. A NIC and its MAC
are one; the reads of one round of nmcli, ip and ping are one step, every call that changes
something is its own.

| Code | Model |
| --- | --- |
| dispatcher hook, its worker | `LinksChange`, `Activate` and `Deactivate` queue it, `Worker` |
| `verify`, `classify`, `repair`, hold-off | `Verify`, `Probe`, `FrozenNics`, `Stamp`, `Restored`, `HoldoffExpires` |
| `match` | `Match(p)`: `List`, `MatchArm` (which unpins), `Try`, `ProbeArm`, `Down`, `NoCandidate`, `Matched`, `Save` |
| `reconcile` | `Plan`, `Apply` |
| a user's `match`, and its interruption | `UserMatches`, `Aborts` |
| a `repair` that raises: nmcli times out (nmcli.py:31), a step of the plan fails | `Raises` |
| NetworkManager, cables, boxes | `Autoconnect`, `Activate`, `Deactivate`, `Recable`, `Power`, `Boots` |

Left out: the internet's NIC and the denylist, names, permissions and the other settings a
profile is checked for, LOCK_WAIT, installation.  The hold-off (600 s) outlasts a burst of
repairs, each of which may wait 60 s, and cables are not moved within it.

Seen while modelling, without a property that forbids it: a restore
(`netsetup/__init__.py:221`) spares only the NICs frozen at the decision and may take the
NIC of an arm that the same repair has just matched; a pair that was swapped while the boxes
boot may use up the hold-off and wait for the next link event; a `match` of a user that is
interrupted after an unpin leaves a profile unpinned, and no event says so; a user's `match`
probes arms that answer.

An arm that never answers is where the code departs from what it says of itself:
match.py:276-278 has "no NM change when nothing can be gained (the dispatcher's convergence
guarantee: quiet -> no events -> no re-entry)", dispatcher.py:43-45 "no feedback loop".
`Converges` says where this holds: the map of the system has the silent arm on the NIC that
it is plugged into (`Placed`), so that it is "unreachable", which the hold-off covers.  It
does not hold in two other cases.  A silent arm without a map entry ("no-mapping") is probed
at once, without a hold-off (match.py:305-306), and its trials are the events of the next
repair.  A silent arm whose stored NIC another arm has got after a swap is
"profile-inactive", probed without a hold-off as well (match.py:322-325), and put back
afterwards on the NIC of the arm that has just been matched (netsetup/__init__.py:216-223).
TLC finds both loops when `Placed` is dropped or weakened to the existence of an entry.

## Runs

| Run | Checks | Bounds |
| --- | --- | --- |
| `rail` | `TypeOK`, `BusExclusion`, `FaultDropsTarget`, `SendOnlyWhenCommandable`, `ReadyStartsEmpty`, `TargetServed`, `HomingEnds` | one homing thread, travel 0..2, targets 0 and 3 (over-travel), a track that fails at any moment; 27,384 states |
| `driver_races` | `HaltedMeansPaused`, `RecoveringHasOwner`, `FaultStaysPending` | one caller, recoverable and hard errors, all of stop, clear, stall, reject, caught, takeover, link; 479,812 states |
| `driver_ordered` | `NoJump`, `ServiceKept`, `StreamControlled`, `ServiceServed`, `StreamingMoves` | one caller of `request_recovery`, all error classes, caught, takeover, displace, link; 106,057 states |
| `driver_stop` (violation) | `LatchHeld` | one caller, recoverable errors only, and `stop()` |
| `driver_lost` (violation) | `StreamingMoves` | a healthy arm may refuse a tick |
| `driver_raises` (violation) | `FaultHandled` | an exception in an automatic recovery |
| `driver_masked` (violation) | `OnlyRecoverableResumes` | a hard error during a recovery |
| `servo` | `StoppingDistance`, `StepLimited`, `ToolStepLimited`, `Arrives` | two joints that move, with speeds of 4 and 2 and accelerations of 2 a tick, a tool step of 5, two requests of which one is beyond a limit, one posture, a grace window of one tick; 82,760 states |
| `budget` | `WithinBudget`, `HalvedInBackoff`, `NoSecondTrip`, `NoHoldingLoop` | two recoveries per window of 3, refault window 1, backoff 2, clock to 5; one caller of `clear_errors()` at a time; 3,919,071 states |
| `monitor` | `OneClient`, `HandedOver`, `RestsSilently`, `HomingOnFreshPosture`, `ChannelPromise`, `RequestsEnd`, `Reconnects` | one request (`home_rail`), two generations of the thread, two clients, `disconnect()` as the shutdown, long waits that may run out; 378,137 states |
| `workcell` | `HandedBack`, `RefusedKeepsBrakes`, `StartTellsTheTruth`, `CamerasReleased`, `ObserverTouchesNothing`, `SiblingConnects`, `ShutdownCompletes` | five workcells: two arms of which one may fail and hang; one arm that may fail, with settings and a caller of `clear_errors()` (`Tuned`, `Cleared`); an observed arm; one RealSense; one V4L2 camera, each with two capture threads alive at a time and two reopens; 497,464 states |
| `netsetup` | `FrozenUndisturbed`, `Converges`, `Rematches` | two arms, two NICs, three profiles (one of them left over), one change of cables or power, one `match` of a user or one repair that raises, from an unmatched and a matched machine, the box of a1 silent at first and perhaps for ever; 206,013 states |

Why the bounds are enough.  The rail needs two positions to tell a target from the carriage
and one beyond the travel; the driver has two fixed threads, and one caller already meets
both in every order, as every method is short of loops; the stream needs one joint that must
brake before its target and one that meets a limit, and two so that the Cartesian slow-down
bends the step of one because of the other; the policy needs one recovery more than the
budget within the window, once more after the window has passed.  The monitor's hazards are
between an old thread and a new one, and between a request and the thread that executes it;
the inductive invariant of the proof was also checked with two requests and both shutdowns
(18.9 million states).  In a workcell an arm disturbs another one only through the joins,
for which one that hangs and one that does not are enough; what a setting or a caller of
`clear_errors()` meets is its own session, so they have a cell of one arm; cameras and arms
share no state (`ArmsAlone`), so each cell has one kind, and cameras are stopped and
restarted without limit.  Two arms and two NICs are the smallest machine on which cables are
swapped; the first match of a new machine is not disturbed.  Two boxes that are silent at
once are not in the run: there convergence also needs that the 60 s for which a repair waits
outlast NetworkManager's autoconnect, a matter of time that the model does not have (with
that as a guard TLC finds no error, 496,359 states).  The type invariants of ArmDriver,
RecoveryBudget, StateMonitor, HardwareWorkcell and NetRepair are proved and no longer part
of a run.  The theorems below have no bounds.

`CHECK_DEADLOCK FALSE` stands where the system may stop: a workcell that was shut down and a
machine that has settled stay so.

What the violations show; each is a finding in `PROJECT.json` with the line that promises
otherwise.

- `driver_stop`: `stop()` does not wait for `_recovery_lock`; a recovery past its
  checks resumes the stream and writes STREAMING over LATCHED.
- `driver_lost`: `resume()` comes before `_phase = STREAMING`; a tick that fails in
  between pauses the streamer and its fault is ignored.  The arm is STREAMING and
  does not stream.
- `driver_raises`: the automatic recovery has no handler for the SDK's exceptions;
  RECOVERING stays, `_on_fault` ignores faults and `clear_errors` returns at once.
- `driver_masked`: `clean_error` clears an unrecoverable error that came after the
  read on which the class was decided.

More disagreements bound what the passing runs say, and have no run of their own.  `_fault`
does not clear `_pos_known`: after a failed homing of a track that was READY the position
counts as known, though the carriage may have left it, and rail.py:103 and rail.py:360 say
that it stays UNKNOWN.  `NoJump` needs ticks that are not overtaken: a tick that was sent
before a displacement and commits after the reseed brings the old `_last_sent` back
(driver.py:416-420); and it needs users of `request_recovery`: `clear_errors()` may find the
FAULT that the monitor's poll has written before the pause that follows it (driver.py:1061),
and `_recover` takes the arm back into servo mode without a pause of its own.
`HalvedInBackoff` and `NoSecondTrip` speak of users of `request_recovery`: `clear_errors()`
may reset and trip between the statements of driver.py:1581-1584.  `SendOnlyWhenCommandable`
says READY only where the monitor alone latches error 111: `latch_error` on the thread of
`clear_errors()` (driver.py:1089) takes no `_io_lock`.

Fairness.  RailTrack: the monitor thread ticks, a caller inside `home()` or `latch_error`
goes on.  ArmDriver: the streamer's and the monitor's threads loop for ever (driver.py:388,
1511), a method that was called goes on, reports come at 100 Hz, the grace window is bounded
in time and in ticks; it is strong where a tick may hold a thread back again and again.
ServoStream: the streamer's thread ticks; nobody has to call, and a scale, a target or a
pause may come at any time.  StateMonitor: poll threads go on, so SDK calls return; a
shutdown that has begun goes on; an answer reaches its caller; a box that is reached again
and again is connected in the end (strong fairness of `DialOk`).  Nobody has to call, ask,
or give up.  HardwareWorkcell: the thread of `start()` and `stop()` goes on, with the
monitor or capture thread that it joins (one condition: the join is over after a few of that
thread's steps), and the connect threads of arms outside `Faulty` go on; a faulty arm may
hang in any call of its connect, while the calls of a hand-back are assumed to return.
NetRepair: the dispatcher and `match` go on, as nmcli returns; NetworkManager brings up what
it may; a box that is not in `Hung` boots.  No fairness is assumed of errors, callers, link,
cables or track; `TargetServed` counts a target that a fault dropped as served, as the code
does; its fairness is that of a monitor that reaches the rail in every turn, which it does
not while the link is lost (driver.py:1540-1544), nor in a turn that recovers or faults the
arm.

## Proofs

| Module | Theorem | States | Assumes |
| --- | --- | --- | --- |
| RailTrackProofs | `TypeCorrect` | `TypeOK` | |
| | `FaultedTargetsDropped` | `FaultDropsTarget` | |
| | `HomingHasTheBus` | `BusExclusion` | `SingleHomer` |
| | `HomedTrackStartsEmpty` | `ReadyStartsEmpty` | `SingleHomer` |
| | `OnlyReadyTrackCommanded` | `SendOnlyWhenCommandable` | `SingleHomer` |
| ArmDriverProofs | `TypeCorrect` | `TypeOK` | |
| | `HaltedArmIsNotStreamedTo` | `HaltedMeansPaused` | |
| | `LatchedUntilTheUser` | `LatchHeld` | no "stop", no "clear" |
| | `RecoveryIsOwned` | `RecoveringHasOwner` | no "raise" |
| | `FaultsAreTakenUp` | `FaultStaysPending` | no "raise" |
| | `CommandsStartAtTheArm` | `NoJump` | no "stall", no "clear" |
| | `DriverImplementsStreamControl` | `StreamControlled` (refinement) | no "stall", no "clear" |
| | `DriverImplementsService` | `ServiceKept` (refinement) | no "stop", no "clear" |
| ServoStreamProofs | `TypeCorrect` | `TypeOK` | |
| | `StepsAreLimited` | `StepLimited` | `SeededInside` |
| | `ToolStepsAreLimited` | `ToolStepLimited` | `SeededInside` |
| | `StreamStopsInTime` | `StoppingDistance` | `SeededInside` |
| RecoveryBudgetProofs | `TypeCorrect` | `TypeOK` | |
| | `RecoveriesStayWithinBudget` | `WithinBudget` | |
| | `HalvedWhileBackingOff` | `HalvedInBackoff` | |
| | `SecondTripLatches` | `NoSecondTrip` | |
| | `HoldingArmIsNotRecoveredAgain` | `NoHoldingLoop` | |
| StateMonitorProofs | `TypeCorrect` | `TypeOK` | |
| | `OneClientPerBox` | `OneClient` | |
| | `HandOverIsReal` | `HandedOver` | |
| | `SilentAtRest` | `RestsSilently` | |
| | `HomingIsChecked` | `HomingOnFreshPosture` | |
| | `ChannelKept` | `ChannelPromise` (refinement) | |
| WorkcellProofs | `TypeCorrect` | `TypeOK` of Workcell | |
| | `ArmsHandedBack` | `HandedBack` | |
| | `RefusedIsNotReleased` | `RefusedKeepsBrakes` | |
| | `StartIsTruthful` | `StartTellsTheTruth` | |
| | `ObserversTouchNothing` | `ObserverTouchesNothing` | |
| HardwareWorkcellProofs | `ArmsAlone` | `CellSpec => Spec` of Workcell (refinement) | |
| | `CellTypeCorrect` | `CellTypeOK` | |
| | `CamerasComeDown` | `CamerasReleased` | |
| | `ArmsStaySafe` | the four of WorkcellProofs, of the whole | |
| NetRepairProofs | `TypeCorrect` | `TypeOK` | |
| | `RepairSparesAnswering` | `FrozenUndisturbed` | |

The constants satisfy the `ASSUME`s of their modules, which say no more than that sets are
related as their names say; no theorem bounds the number of arms, cameras, threads,
requests, NICs or events.  `SingleHomer` (at most one thread calls `home()`, the runtime's
rail-homing job) is needed: of two callers, the first to finish lowers the latch of the
second, and TLC breaks `BusExclusion` with `Homers = {h1, h2}`.

Arguments.  `FaultDropsTarget` and `HaltedMeansPaused` are inductive, the first with the
fact that `set_target` looks at the phase under the lock, the second on its own: every write
of a halted phase is followed by a pause in the same thread, and every resume by the write
of STREAMING.  `BusInv` adds to `BusExclusion` that a homing thread keeps the latch up from
`HomeBegin` to `HomeEnd`, and that no target survives its last clear.  `SendInv` adds that
inside `step()` the position is known and the phase READY.  `LatchInv` says where the
monitor can be while the phase is LATCHED, given that it is the only thread that recovers:
it rests, latches, looks at the arm, or waits for `_recovery_lock` on behalf of the user.
With it each action of the driver is one of the four moves of `ServiceMove`, and each of
these a step of ArmService or a stutter.  `OwnerInv` adds that a thread at `_recovery_lock`
runs `_recover`.  `JumpInv` says that the streamer is paused from the start of a recovery to
its resume, and that where it does not know where the arm is, the box refuses its commands
or the streamer is paused between two ticks; the refinement of StreamControl follows from
it, action by action.  `BudgetInv` relates the deque to the history: it is its tail, and
what was popped is older than the window, also when a caller of `clear_errors()` who was
past the check of the phase empties it between the test and the booking.  `TripInv` says
that the deadline is that of the last trip, and that it is gone only once its time has come.
`HoldInv` says that in a recovery the monitor thread alone changes the phase and the error,
so what `_budget_ok` found is still true when the recovery is booked; a reset from outside
the lock forgets the last recovery as well.

ServoStream's `StreamInv` says that each joint can stop: from where it is, at the speed of
its last step, within its stopping distance (`CanStop`), in both directions; `CommandInv`
says of the tick under way that its step keeps the limits, and that it ends before the
target, or brakes, or goes back (`Lands`).  They speak of `moved`, not of `prev`: a pause
zeroes `prev`, and the tick that has read it brings the speed back.  The step itself is a
matter of arithmetic with products of variables, in lemmas of their own: a step that brakes
by at least `h` trades `2h` times its length for what it takes from the square of the speed
(`BrakingDistance`).

StateMonitor's `IInv`: the newest generation is the thread of a running monitor (`Threads`);
what a shutdown has done by which point (`Rest`); until a long wait runs out, no other
thread lives, none can dial once the shutdown has waited, and every client at the box is
published or in one hand (`LoneClient`); a sample newer than a request was taken by the
thread that executes it (`Fresh`); a request is idle, queued once, in one thread's hands or
answered, and its writes follow the thread's place (`Served`).  `OneClient` needs `Alone`,
for a thread that lives beside another may dial at any time; the refinement needs `Served`,
for the answer "done" is written long after the writes it speaks of.

Workcell's `IInv` follows a session: what it holds at which step (`Sessions`), which
connects and disconnects the thread of `start()` and `stop()` has still in front of it
(`Turns`), that no monitor thread runs before `motion_enable` (`Untouched`), whose errors
are whose (`Errs`), what was reported (`Reports`), and that a caller of `clear_errors()` is
on an arm that the last `start()` has connected (`Callers`).  `Sessions` follows him to his
`motion_enable(True)`: brakes are engaged after a hand-back unless it was refused, or
crossed by him.  `Handover` and `Reports` hold until a bounded join runs out.
HardwareWorkcell's cameras: a stopped RealSense that is open has a thread about to give it
back (`Returned`), a V4L2 camera has no thread but its session's until a join runs out
(`Joined`), and the camera in hand does not capture (`InHand`).

NetRepair's `IInv`: an entry of a map names a profile of its arm (`Entered`); a frozen NIC
is not in the pool of a repair, and an arm to which alone it belongs is not among those to
be matched or restored (`Spared`); an arm under trial has a profile and a NIC (`Tried`).

Only model-checked: the liveness properties (`ServiceServed`, `StreamingMoves`, `Arrives`,
`TargetServed`, `HomingEnds`, `RequestsEnd`, `Reconnects`, `SiblingConnects`,
`ShutdownCompletes`, `Converges`, `Rematches`), which are out of the prover's reach, with
`ENABLED` and all that is proved by induction over data.

## Plan

What is left, in this order:

1. `home_rail` and the latch as a composition of ArmDriver and RailTrack.
2. The grippers' queue in the monitor's step.
3. ArmService refined by ArmSession as well.

## Not modelled

Grippers (a rate-limited command per monitor step).  Backstops: a list of SDK writes whose
codes become warnings.  Configuration, events, unit conversions other than the rail's:
records and pure functions.  Installation of the dispatcher and of permissions
(`netsetup/install.py`), the parsing of what nmcli and sysfs print, enumeration of cameras.
Logging and texts.  The SDK, the control box, NetworkManager, cv2 and librealsense appear
only as the answers the code can get.
