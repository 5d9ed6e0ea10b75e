-------------------------------- MODULE Camera --------------------------------
(***************************************************************************)
(* The cameras of a workcell: OpenCVCamera and RealSenseCamera (cameras/), *)
(* and start_cameras() and stop_cameras() (workcell.py), which start and   *)
(* stop one after the other.  kpc is where the thread is that calls them,  *)
(* cur the camera it is at.  Each start() makes a capture thread, tpc; only*)
(* one flag of the camera, capturing, tells its threads to go on, and      *)
(* stop() waits 1 s for the last of them only: a thread that outlives the  *)
(* stop() of its session may go on in the next one.                        *)
(*                                                                         *)
(* handle is the one reference to an open device: a pipeline or a capture  *)
(* that is overwritten is closed as it is dropped.  An open may fail or    *)
(* succeed at any time, so neither USB, hardware_reset() nor a device that *)
(* is busy is modelled; frames, formats and the failed flag are left out.  *)
(***************************************************************************)
EXTENDS Naturals

CONSTANTS Cameras, RealSense,      \* the others are V4L2 cameras
          REOPEN_ATTEMPTS,
          MaxCaptures              \* bound: capture threads of a camera at the same time

ASSUME CameraAssumption == /\ RealSense \subseteq Cameras
                           /\ REOPEN_ATTEMPTS \in Nat /\ MaxCaptures \in Nat

Captures == 1 .. MaxCaptures
NoCapture == 0
NoCamera == "no camera"

VARIABLES fitted,        \* the cameras of the workcell
          kpc, todo, cur,
          started,       \* _cameras_started
          capturing,     \* _running
          handle,        \* _pipeline or _cap
          last,          \* _thread
          tpc,           \* the capture threads of each camera
          tries,         \* failed_reopens of a thread
          reopened,      \* _reopened_once, for ever
          overrun        \* V4L2: a join ran out

callVars   == <<kpc, todo, cur, started>>
captureVars == <<tpc, tries, reopened>>
cameraVars == <<fitted, callVars, capturing, handle, last, captureVars, overrun>>

KpcSet == {"idle", "start", "open", "spawn", "stop", "join", "release"}
TpcSet == {"top", "read", "lost", "retry", "release", "reset", "reopen", "warm", "regret",
           "unopened", "giveup", "fail", "dead"}
Handles == {"none", "open", "closed"}

CameraInit ==
  /\ kpc = "idle" /\ todo = {} /\ cur = NoCamera /\ started = FALSE
  /\ capturing = [k \in Cameras |-> FALSE] /\ handle = [k \in Cameras |-> "none"]
  /\ last = [k \in Cameras |-> NoCapture]
  /\ tpc = [k \in Cameras |-> [t \in Captures |-> "dead"]]
  /\ tries = [k \in Cameras |-> [t \in Captures |-> 0]]
  /\ reopened = [k \in Cameras |-> FALSE] /\ overrun = FALSE

Handle(k, h) == handle' = [handle EXCEPT ![k] = h]

(***************************************************************************)
(* start_cameras() and stop_cameras(), and in them start() and stop().     *)
(***************************************************************************)
Alive(k, t) == tpc[k][t] # "dead"

\* (bound) every camera can be given one more thread
Unspent == \A k \in fitted : \E t \in Captures : ~Alive(k, t)

\* the flag of a workcell without cameras is left alone
StartCameras ==
  /\ kpc = "idle"
  /\ IF started \/ fitted = {} THEN UNCHANGED <<kpc, todo>> ELSE kpc' = "start" /\ todo' = fitted
  /\ UNCHANGED <<fitted, cur, started, capturing, handle, last, captureVars, overrun>>

CameraStarts(k) ==                 \* a camera that captures stays as it is
  /\ kpc = "start" /\ k \in todo
  /\ todo' = todo \ {k} /\ cur' = k /\ kpc' = (IF capturing[k] THEN "start" ELSE "open")
  /\ UNCHANGED <<fitted, started, capturing, handle, last, captureVars, overrun>>

CameraOpens ==                     \* or raises: the camera is passed over
  /\ kpc = "open"
  /\ \/ kpc' = "spawn" /\ Handle(cur, "open")
     \/ kpc' = "start" /\ UNCHANGED handle
  /\ UNCHANGED <<fitted, todo, cur, started, capturing, last, captureVars, overrun>>

CameraSpawns ==                    \* after the warm-up
  /\ kpc = "spawn" /\ kpc' = "start"
  /\ capturing' = [capturing EXCEPT ![cur] = TRUE]
  /\ \E t \in Captures :
       /\ ~Alive(cur, t) /\ \A u \in 1 .. t - 1 : Alive(cur, u)
       /\ last' = [last EXCEPT ![cur] = t]
       /\ tpc' = [tpc EXCEPT ![cur][t] = "top"] /\ tries' = [tries EXCEPT ![cur][t] = 0]
  /\ UNCHANGED <<fitted, todo, cur, started, handle, reopened, overrun>>

CamerasStarted ==
  /\ kpc = "start" /\ todo = {} /\ kpc' = "idle" /\ started' = TRUE
  /\ UNCHANGED <<fitted, todo, cur, capturing, handle, last, captureVars, overrun>>

StopCameras ==
  /\ kpc = "idle"
  /\ IF fitted = {} THEN UNCHANGED <<kpc, todo>> ELSE kpc' = "stop" /\ todo' = fitted
  /\ UNCHANGED <<fitted, cur, started, capturing, handle, last, captureVars, overrun>>

CameraStops(k) ==
  /\ kpc = "stop" /\ k \in todo
  /\ todo' = todo \ {k} /\ cur' = k /\ kpc' = "join"
  /\ capturing' = [capturing EXCEPT ![k] = FALSE]
  /\ UNCHANGED <<fitted, started, handle, last, captureVars, overrun>>

InCall == {"read", "release", "reset", "reopen", "warm", "regret", "giveup"}

CameraJoins ==                     \* 1 s: ended, or in a call of cv2 or librealsense
  /\ kpc = "join" /\ kpc' = "release"
  /\ last' = [last EXCEPT ![cur] = NoCapture]
  /\ \/ (last[cur] # NoCapture => ~Alive(cur, last[cur])) /\ UNCHANGED overrun
     \/ /\ last[cur] # NoCapture /\ tpc[cur][last[cur]] \in InCall
        /\ overrun' = (overrun \/ cur \notin RealSense)
  /\ UNCHANGED <<fitted, todo, cur, started, capturing, handle, captureVars>>

CameraReleases ==
  /\ kpc = "release" /\ kpc' = "stop" /\ Handle(cur, "none")
  /\ UNCHANGED <<fitted, todo, cur, started, capturing, last, captureVars, overrun>>

CamerasStopped ==
  /\ kpc = "stop" /\ todo = {} /\ kpc' = "idle" /\ started' = FALSE
  /\ UNCHANGED <<fitted, todo, cur, capturing, handle, last, captureVars, overrun>>

CallStep ==
  \/ CameraOpens \/ CameraSpawns \/ CamerasStarted \/ CameraJoins \/ CameraReleases
  \/ CamerasStopped \/ \E k \in Cameras : CameraStarts(k) \/ CameraStops(k)

(***************************************************************************)
(* _capture_loop.                                                          *)
(***************************************************************************)
Step(k, t, from, to) == tpc[k][t] = from /\ tpc' = [tpc EXCEPT ![k][t] = to]

CaptureLoops(k, t) ==
  /\ Step(k, t, "top", IF capturing[k] THEN "read" ELSE "dead")
  /\ UNCHANGED <<fitted, callVars, capturing, handle, last, tries, reopened, overrun>>

CaptureReads(k, t) ==              \* a frame ends the burst of reopens
  /\ Step(k, t, "read", "top") /\ handle[k] = "open"
  /\ tries' = [tries EXCEPT ![k][t] = 0]
  /\ UNCHANGED <<fitted, callVars, capturing, handle, last, reopened, overrun>>

CaptureFails(k, t) ==              \* it raised, or MAX_CONSECUTIVE_FAILURES; no _cap: it dies
  /\ \/ Step(k, t, "read", "lost")
     \/ Step(k, t, "read", "dead") /\ k \notin RealSense /\ handle[k] = "none"
  /\ UNCHANGED <<fitted, callVars, capturing, handle, last, tries, reopened, overrun>>

CaptureEnds(k, t) ==               \* failed; the flag falls for every thread
  /\ Step(k, t, "fail", "dead")
  /\ capturing' = [capturing EXCEPT ![k] = FALSE]
  /\ UNCHANGED <<fitted, callVars, handle, last, tries, reopened, overrun>>

\* OpenCVCamera: released and reopened once in its life
CaptureReopens(k, t) ==
  /\ k \notin RealSense
  /\ \/ /\ Step(k, t, "lost", IF reopened[k] \/ handle[k] = "none" THEN "fail" ELSE "reopen")
        /\ reopened' = [reopened EXCEPT ![k] = TRUE]
        /\ IF reopened[k] \/ handle[k] = "none" THEN UNCHANGED handle ELSE Handle(k, "closed")
     \/ Step(k, t, "reopen", "top") /\ Handle(k, "open") /\ UNCHANGED reopened
     \/ Step(k, t, "reopen", "fail") /\ UNCHANGED <<handle, reopened>>
  /\ UNCHANGED <<fitted, callVars, capturing, last, tries, overrun>>

\* RealSenseCamera: REOPEN_ATTEMPTS times between two frames, unless it is stopped
Retries(k, t) ==
  /\ k \in RealSense
  /\ \/ Step(k, t, "lost", IF capturing[k] THEN "retry" ELSE "dead") /\ UNCHANGED tries
     \/ Step(k, t, "retry", "giveup") /\ tries[k][t] >= REOPEN_ATTEMPTS /\ UNCHANGED tries
     \/ Step(k, t, "retry", "release") /\ tries[k][t] < REOPEN_ATTEMPTS
        /\ tries' = [tries EXCEPT ![k][t] = @ + 1]
     \/ Step(k, t, "unopened", IF capturing[k] THEN "retry" ELSE "dead") /\ UNCHANGED tries
  /\ UNCHANGED <<fitted, callVars, capturing, handle, last, reopened, overrun>>

Stops(k, t) ==                     \* _stop_pipeline
  /\ k \in RealSense /\ Handle(k, "none")
  /\ Step(k, t, "release", "reset") \/ Step(k, t, "giveup", "fail") \/ Step(k, t, "regret", "unopened")
  /\ UNCHANGED <<fitted, callVars, capturing, last, tries, reopened, overrun>>

\* (mutant) does not look again whether stop() has come meanwhile
WarmsUpBlindly(k, t) ==
  /\ k \in RealSense
  /\ \/ Step(k, t, "reset", IF capturing[k] THEN "reopen" ELSE "unopened") /\ UNCHANGED handle
     \/ Step(k, t, "reopen", "warm") /\ Handle(k, "open")
     \/ Step(k, t, "reopen", "unopened") /\ UNCHANGED handle
     \/ Step(k, t, "warm", "top") /\ UNCHANGED handle
  /\ UNCHANGED <<fitted, callVars, capturing, last, tries, reopened, overrun>>

\* _reopen: stop() may come before the start of the pipeline, or during it
WarmsUp(k, t) ==
  /\ k \in RealSense
  /\ \/ Step(k, t, "reset", IF capturing[k] THEN "reopen" ELSE "unopened") /\ UNCHANGED handle
     \/ Step(k, t, "reopen", "warm") /\ Handle(k, "open")
     \/ Step(k, t, "reopen", "unopened") /\ UNCHANGED handle
     \/ Step(k, t, "warm", IF capturing[k] THEN "top" ELSE "regret") /\ UNCHANGED handle
  /\ UNCHANGED <<fitted, callVars, capturing, last, tries, reopened, overrun>>

CaptureThread(k, t) ==
  \/ CaptureLoops(k, t) \/ CaptureReads(k, t) \/ CaptureFails(k, t) \/ CaptureEnds(k, t)
  \/ CaptureReopens(k, t) \/ Retries(k, t) \/ Stops(k, t) \/ WarmsUp(k, t)

(***************************************************************************)
(* Properties                                                              *)
(***************************************************************************)
CameraTypeOK ==
  /\ fitted \subseteq Cameras /\ kpc \in KpcSet /\ todo \subseteq fitted
  /\ cur \in fitted \cup {NoCamera} /\ started \in BOOLEAN
  /\ capturing \in [Cameras -> BOOLEAN] /\ handle \in [Cameras -> Handles]
  /\ last \in [Cameras -> 0 .. MaxCaptures]
  /\ tpc \in [Cameras -> [Captures -> TpcSet]]
  /\ tries \in [Cameras -> [Captures -> 0 .. REOPEN_ATTEMPTS]]
  /\ reopened \in [Cameras -> BOOLEAN] /\ overrun \in BOOLEAN

\* A capture thread that has restarted its pipeline and is about to look at the flag.
GivesBack(k) == \E t \in Captures : tpc[k][t] \in {"warm", "regret"}

\* Once stop_cameras() has returned, a RealSense is still open only in the hands of a capture
\* thread that outlived the stop of its session and is about to give it back, however often
\* the cameras were restarted before; a V4L2 camera only where a join ran out.
CamerasReleased ==
  kpc = "idle" /\ ~started =>
    \A k \in fitted : handle[k] = "open" => IF k \in RealSense THEN GivesBack(k) ELSE overrun
=============================================================================
