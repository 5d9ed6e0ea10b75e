------------------------ MODULE HardwareWorkcellProofs ------------------------
(***************************************************************************)
(* Proofs about HardwareWorkcell.  Cameras and arms do not disturb each    *)
(* other: a behaviour of the whole is one of its arms, so that what        *)
(* WorkcellProofs shows of them holds of the whole; and its cameras are    *)
(* released, for any number of cameras, threads and attempts.              *)
(***************************************************************************)
EXTENDS HardwareWorkcell, WorkcellProofs

\* A step of the whole is a step of the arms, or leaves them alone.
LEMMA ArmsStep == [CellNext]_allVars => [Next]_vars
<1> SUFFICES ASSUME [CellNext]_allVars PROVE [Next]_vars
  OBVIOUS
<1>1. CASE StartsUp
  BY <1>1 DEF StartsUp, Next
<1>2. CASE SetsUpNetwork
  BY <1>2 DEF SetsUpNetwork, Next
<1>3. CASE BroughtUp
  BY <1>3 DEF BroughtUp, Next
<1>4. CASE ShutsDown
  BY <1>4 DEF ShutsDown, Next
<1>5. CASE DisconnectsArms
  BY <1>5 DEF DisconnectsArms, Next
<1>6. CASE Previews
  BY <1>6 DEF Previews
<1>7. ASSUME NEW a \in Arms, ArmStep(a) PROVE [Next]_vars
  BY <1>7 DEF ArmStep, Next
<1>8. CASE CameraStep
  BY <1>8 DEF CameraStep
<1>9. CASE UNCHANGED allVars
  BY <1>9 DEF allVars
<1>10. QED
  BY <1>1, <1>2, <1>3, <1>4, <1>5, <1>6, <1>7, <1>8, <1>9 DEF CellNext

\* Refinement: with its cameras hidden, the workcell is the one of WorkcellProofs.
THEOREM ArmsAlone == CellSpec => Spec
<1>1. CellInit => Init
  BY DEF CellInit
<1>2. QED
  BY <1>1, ArmsStep, PTL DEF CellSpec, Spec

\* The steps of the whole, as far as its cameras are concerned.
CamerasNext == StartCameras \/ StopCameras \/ CallStep \/ \E k \in Cameras, t \in Captures : CaptureThread(k, t)

LEMMA CamerasStep == [CellNext]_allVars => [CamerasNext]_cameraVars
<1> SUFFICES ASSUME [CellNext]_allVars PROVE [CamerasNext]_cameraVars
  OBVIOUS
<1> USE DEF CamerasNext
<1>1. CASE StartsUp
  BY <1>1 DEF StartsUp
<1>2. CASE SetsUpNetwork
  BY <1>2 DEF SetsUpNetwork
<1>3. CASE BroughtUp
  BY <1>3 DEF BroughtUp
<1>4. CASE ShutsDown
  BY <1>4 DEF ShutsDown
<1>5. CASE DisconnectsArms
  BY <1>5 DEF DisconnectsArms
<1>6. CASE Previews
  BY <1>6 DEF Previews
<1>7. ASSUME NEW a \in Arms, ArmStep(a) PROVE [CamerasNext]_cameraVars
  BY <1>7 DEF ArmStep
<1>8. CASE CameraStep
  BY <1>8 DEF CameraStep
<1>9. CASE UNCHANGED allVars
  BY <1>9 DEF allVars
<1>10. QED
  BY <1>1, <1>2, <1>3, <1>4, <1>5, <1>6, <1>7, <1>8, <1>9 DEF CellNext

\* The stop of camera k is over, and no start has reached it since.
Stopped(k) ==
  \/ kpc = "idle" /\ ~started
  \/ kpc \in {"start", "open", "spawn"} /\ k \in todo
  \/ kpc \in {"stop", "join", "release"} /\ k \notin todo /\ (kpc = "stop" \/ cur # k)

\* The camera that is being started or stopped does not capture.
InHand == kpc \in {"open", "spawn", "join", "release"} =>
            cur \in fitted /\ cur \notin todo /\ ~capturing[cur]

\* Of a stopped RealSense an open device is about to be given back.
Returned == \A k \in fitted \cap RealSense :
  Stopped(k) => ~capturing[k] /\ (handle[k] = "open" => GivesBack(k))

\* A V4L2 camera has no thread but that of its session, until a join runs out.
Joined == overrun \/ \A k \in fitted \ RealSense :
  /\ \A t \in Captures : Alive(k, t) => t = last[k] /\ (capturing[k] \/ (kpc = "join" /\ cur = k))
  /\ Stopped(k) => ~capturing[k] /\ handle[k] # "open"

CameraInv == CameraTypeOK /\ InHand /\ Returned /\ Joined

LEMMA CameraInvInit == CellInit => CameraInv
<1> SUFFICES ASSUME CellInit PROVE CameraInv
  OBVIOUS
<1> USE CameraAssumption DEF CameraInit
<1>1. fitted \subseteq Cameras
  BY FittedAssumption DEF CellInit
<1>2. CameraInit
  BY DEF CellInit
<1>3. CameraTypeOK
  <2>1. tpc \in [Cameras -> [Captures -> TpcSet]] /\ tries \in [Cameras -> [Captures -> 0 .. REOPEN_ATTEMPTS]]
    BY <1>2 DEF TpcSet
  <2>2. last \in [Cameras -> 0 .. MaxCaptures] /\ handle \in [Cameras -> Handles]
    BY <1>2 DEF Handles, NoCapture
  <2>3. QED
    BY <1>1, <1>2, <2>1, <2>2 DEF CameraTypeOK, KpcSet
<1>4. InHand /\ Returned /\ Joined
  BY <1>1, <1>2 DEF InHand, Returned, Joined, Alive
<1>5. QED
  BY <1>3, <1>4 DEF CameraInv

\* What a step of capture thread t of camera k does to the program counters.
LEMMA ThreadMoves ==
  ASSUME CameraTypeOK, NEW k \in Cameras, NEW t \in Captures, NEW from, NEW to \in TpcSet,
         Step(k, t, from, to)
  PROVE  /\ tpc' \in [Cameras -> [Captures -> TpcSet]]
         /\ tpc[k][t] = from /\ tpc'[k][t] = to
         /\ \A j \in Cameras, u \in Captures : j # k \/ u # t => tpc'[j][u] = tpc[j][u]
<1>1. tpc \in [Cameras -> [Captures -> TpcSet]] /\ tpc[k] \in [Captures -> TpcSet]
  BY DEF CameraTypeOK
<1>2. tpc[k][t] = from /\ tpc' = [tpc EXCEPT ![k] = [tpc[k] EXCEPT ![t] = to]]
  BY <1>1 DEF Step
<1>3. [tpc[k] EXCEPT ![t] = to] \in [Captures -> TpcSet]
  BY <1>1
<1>4. QED
  BY <1>1, <1>2, <1>3

\* What the other parts of the proof need of a capture thread: it moves alone, it changes
\* nothing but its own camera, it lowers the flag at its end only, and it leaves no device
\* open behind the back of a stop.
CaptureOnly(k, t) ==
  /\ \A j \in Cameras, u \in Captures : j # k \/ u # t => tpc'[j][u] = tpc[j][u]
  /\ Alive(k, t)
  /\ UNCHANGED <<fitted, callVars, last, overrun>>
  /\ \A j \in Cameras \ {k} : handle'[j] = handle[j] /\ capturing'[j] = capturing[j]
  /\ capturing'[k] = capturing[k] \/ (~capturing'[k] /\ tpc'[k][t] = "dead")
  /\ k \in RealSense /\ ~capturing[k] => \/ handle'[k] # "open" \/ tpc'[k][t] = "warm"
                                        \/ /\ handle'[k] = handle[k]
                                           /\ \/ tpc[k][t] \notin {"warm", "regret"}
                                              \/ tpc'[k][t] \in {"warm", "regret"}

LEMMA CaptureThreadSteps ==
  ASSUME CameraTypeOK, NEW k \in Cameras, NEW t \in Captures, CaptureThread(k, t)
  PROVE  CameraTypeOK' /\ CaptureOnly(k, t)
<1> USE CameraAssumption
<1>0. /\ capturing \in [Cameras -> BOOLEAN] /\ handle \in [Cameras -> Handles]
      /\ tries \in [Cameras -> [Captures -> 0 .. REOPEN_ATTEMPTS]]
      /\ reopened \in [Cameras -> BOOLEAN] /\ tpc \in [Cameras -> [Captures -> TpcSet]]
  BY DEF CameraTypeOK
<1>a. ASSUME NEW from, NEW to \in TpcSet, Step(k, t, from, to), from # "dead",
             UNCHANGED <<fitted, callVars, last, overrun>>,
             tries' \in [Cameras -> [Captures -> 0 .. REOPEN_ATTEMPTS]],
             reopened' \in [Cameras -> BOOLEAN],
             \/ UNCHANGED capturing
             \/ to = "dead" /\ capturing' = [capturing EXCEPT ![k] = FALSE],
             \/ UNCHANGED handle
             \/ \E h \in Handles : /\ Handle(k, h)
                                   /\ k \in RealSense => h # "open" \/ to = "warm",
             \/ k \in RealSense /\ from \in {"warm", "regret"} =>
                  to \in {"warm", "regret"} \/ capturing[k] \/ Handle(k, "none")
      PROVE  CameraTypeOK' /\ CaptureOnly(k, t)
  <2>1. /\ tpc' \in [Cameras -> [Captures -> TpcSet]]
        /\ tpc[k][t] = from /\ tpc'[k][t] = to
        /\ \A j \in Cameras, u \in Captures : j # k \/ u # t => tpc'[j][u] = tpc[j][u]
    BY <1>a, ThreadMoves
  <2>2. capturing' \in [Cameras -> BOOLEAN] /\ handle' \in [Cameras -> Handles]
    BY <1>0, <1>a DEF Handle
  <2>3. CameraTypeOK'
    BY <1>a, <2>1, <2>2 DEF CameraTypeOK, callVars
  <2>4. /\ \A j \in Cameras \ {k} : handle'[j] = handle[j] /\ capturing'[j] = capturing[j]
        /\ capturing'[k] = capturing[k] \/ (~capturing'[k] /\ tpc'[k][t] = "dead")
    BY <1>0, <1>a, <2>1 DEF Handle
  <2>5. k \in RealSense /\ ~capturing[k] =>
          \/ handle'[k] # "open" \/ tpc'[k][t] = "warm"
          \/ /\ handle'[k] = handle[k]
             /\ tpc[k][t] \notin {"warm", "regret"} \/ tpc'[k][t] \in {"warm", "regret"}
    BY <1>0, <1>a, <2>1 DEF Handle, Handles
  <2>6. Alive(k, t)
    BY <1>a, <2>1 DEF Alive
  <2>7. QED
    BY <1>a, <2>1, <2>3, <2>4, <2>5, <2>6 DEF CaptureOnly
<1>1. CASE CaptureLoops(k, t)
  BY <1>0, <1>1, <1>a DEF CaptureLoops, TpcSet
<1>2. CASE CaptureReads(k, t)
  BY <1>0, <1>2, <1>a DEF CaptureReads, TpcSet
<1>3. CASE CaptureFails(k, t)
  BY <1>0, <1>3, <1>a DEF CaptureFails, TpcSet
<1>4. CASE CaptureEnds(k, t)
  BY <1>0, <1>4, <1>a DEF CaptureEnds, TpcSet
<1>5. CASE CaptureReopens(k, t)
  BY <1>0, <1>5, <1>a DEF CaptureReopens, TpcSet, Handles
<1>6. CASE Retries(k, t)
  <2>1. CASE UNCHANGED tries
    BY <1>0, <1>6, <1>a, <2>1 DEF Retries, TpcSet
  <2>2. CASE Step(k, t, "retry", "release") /\ tries[k][t] < REOPEN_ATTEMPTS
             /\ tries' = [tries EXCEPT ![k][t] = @ + 1]
    <3>1. tries[k] \in [Captures -> 0 .. REOPEN_ATTEMPTS] /\ tries[k][t] + 1 \in 0 .. REOPEN_ATTEMPTS
      BY <1>0, <2>2
    <3>2. [tries[k] EXCEPT ![t] = tries[k][t] + 1] \in [Captures -> 0 .. REOPEN_ATTEMPTS]
      BY <3>1
    <3>3. tries' = [tries EXCEPT ![k] = [tries[k] EXCEPT ![t] = tries[k][t] + 1]]
      BY <2>2
    <3>4. tries' \in [Cameras -> [Captures -> 0 .. REOPEN_ATTEMPTS]]
      BY <1>0, <3>2, <3>3
    <3>5. UNCHANGED <<fitted, callVars, capturing, handle, last, reopened, overrun>>
      BY <1>6 DEF Retries
    <3>6. QED
      BY <1>0, <1>a, <2>2, <3>4, <3>5 DEF TpcSet
  <2>3. QED
    BY <1>6, <2>1, <2>2 DEF Retries
<1>7. CASE Stops(k, t)
  BY <1>0, <1>7, <1>a DEF Stops, TpcSet, Handles
<1>8. CASE WarmsUp(k, t)
  BY <1>0, <1>8, <1>a DEF WarmsUp, TpcSet, Handles
<1>9. QED
  BY <1>1, <1>2, <1>3, <1>4, <1>5, <1>6, <1>7, <1>8 DEF CaptureThread

\* The invariant survives the steps of a capture thread.
LEMMA CaptureInv ==
  ASSUME CameraInv, NEW k \in Cameras, NEW t \in Captures, CaptureThread(k, t)
  PROVE  CameraInv'
<1>1. CameraTypeOK /\ InHand /\ Returned /\ Joined
  BY DEF CameraInv
<1>2. CameraTypeOK' /\ CaptureOnly(k, t)
  BY <1>1, CaptureThreadSteps
<1>3. /\ capturing \in [Cameras -> BOOLEAN] /\ capturing' \in [Cameras -> BOOLEAN]
      /\ fitted' = fitted /\ kpc' = kpc /\ todo' = todo /\ cur' = cur /\ started' = started
      /\ last' = last /\ overrun' = overrun /\ fitted \subseteq Cameras
  BY <1>1, <1>2 DEF CameraTypeOK, CaptureOnly, callVars
<1>4. \A j \in Cameras : Stopped(j)' = Stopped(j) /\ (capturing'[j] => capturing[j])
  BY <1>2, <1>3 DEF Stopped, CaptureOnly
<1>5. InHand'
  BY <1>1, <1>3, <1>4 DEF InHand
<1>6. Returned'
  <2> SUFFICES ASSUME NEW j \in fitted \cap RealSense, Stopped(j)
               PROVE  ~capturing'[j] /\ (handle'[j] = "open" => GivesBack(j)')
    BY <1>3, <1>4 DEF Returned
  <2>1. ~capturing[j] /\ ~capturing'[j] /\ (handle[j] = "open" => GivesBack(j))
    BY <1>1, <1>3, <1>4 DEF Returned
  <2>2. CASE j # k
    BY <1>2, <1>3, <2>1, <2>2 DEF CaptureOnly, GivesBack
  <2>3. CASE j = k
    <3> SUFFICES ASSUME handle'[k] = "open" PROVE GivesBack(k)'
      BY <2>1, <2>3
    <3>1. CASE tpc'[k][t] \in {"warm", "regret"}
      BY <3>1 DEF GivesBack
    <3>2. CASE tpc'[k][t] \notin {"warm", "regret"}
      <4>1. handle[k] = "open" /\ tpc[k][t] \notin {"warm", "regret"}
        BY <1>2, <2>1, <2>3, <3>2 DEF CaptureOnly
      <4>2. PICK u \in Captures : tpc[k][u] \in {"warm", "regret"}
        BY <2>1, <2>3, <4>1 DEF GivesBack
      <4>3. tpc'[k][u] = tpc[k][u]
        BY <1>2, <4>1, <4>2 DEF CaptureOnly
      <4>4. QED
        BY <4>2, <4>3 DEF GivesBack
    <3>3. QED
      BY <3>1, <3>2
  <2>4. QED
    BY <2>2, <2>3
<1>7. Joined'
  <2> SUFFICES ASSUME ~overrun, NEW j \in fitted \ RealSense
               PROVE  /\ \A u \in Captures : tpc'[j][u] # "dead" =>
                           u = last[j] /\ (capturing'[j] \/ (kpc = "join" /\ cur = j))
                      /\ Stopped(j) => ~capturing'[j] /\ handle'[j] # "open"
    BY <1>3, <1>4 DEF Joined, Alive
  <2>1. /\ \A u \in Captures : tpc[j][u] # "dead" =>
             u = last[j] /\ (capturing[j] \/ (kpc = "join" /\ cur = j))
        /\ Stopped(j) => ~capturing[j] /\ handle[j] # "open"
    BY <1>1 DEF Joined, Alive
  <2>2. CASE j # k
    BY <1>2, <1>3, <2>1, <2>2 DEF CaptureOnly
  <2>3. CASE j = k
    <3>1. tpc[k][t] # "dead" /\ \A u \in Captures : u # t => tpc'[k][u] = tpc[k][u]
      BY <1>2 DEF CaptureOnly, Alive
    <3>2. \A u \in Captures : u # t => tpc'[k][u] = "dead"
      BY <2>1, <2>3, <3>1
    <3>3. ~Stopped(k)
      BY <2>1, <2>3, <3>1 DEF Stopped
    <3>4. capturing'[k] = capturing[k] \/ tpc'[k][t] = "dead"
      BY <1>2 DEF CaptureOnly
    <3>5. QED
      BY <2>1, <2>3, <3>1, <3>2, <3>3, <3>4
  <2>4. QED
    BY <2>2, <2>3
<1>8. QED
  BY <1>2, <1>5, <1>6, <1>7 DEF CameraInv

\* The invariant survives the steps of start_cameras() and stop_cameras().
LEMMA CameraInvStep == CameraInv /\ [CamerasNext]_cameraVars => CameraInv'
<1> SUFFICES ASSUME CameraInv, [CamerasNext]_cameraVars PROVE CameraInv'
  OBVIOUS
<1> USE CameraAssumption
<1>0. CameraTypeOK /\ InHand /\ Returned /\ Joined
  BY DEF CameraInv
<1>a. /\ fitted \subseteq Cameras /\ kpc \in KpcSet /\ todo \subseteq fitted
      /\ cur \in fitted \cup {NoCamera} /\ started \in BOOLEAN
      /\ capturing \in [Cameras -> BOOLEAN] /\ handle \in [Cameras -> Handles]
      /\ last \in [Cameras -> 0 .. MaxCaptures]
      /\ tpc \in [Cameras -> [Captures -> TpcSet]]
      /\ tries \in [Cameras -> [Captures -> 0 .. REOPEN_ATTEMPTS]]
  BY <1>0 DEF CameraTypeOK
<1> DEFINE Quiet == UNCHANGED <<fitted, capturing, handle, last, tpc, tries, reopened, overrun>>
<1>b. ASSUME Quiet, kpc' \in KpcSet, todo' \subseteq fitted, cur' \in fitted \cup {NoCamera},
             started' \in BOOLEAN, \A k \in fitted : Stopped(k)' => Stopped(k),
             kpc = "join" => kpc' = "join" /\ cur' = cur,
             kpc' \in {"open", "spawn", "join", "release"} =>
               cur' \in fitted /\ cur' \notin todo' /\ ~capturing[cur']
      PROVE  CameraInv'
  <2>1. CameraTypeOK'
    BY <1>0, <1>b DEF CameraTypeOK
  <2>2. InHand'
    BY <1>b DEF InHand
  <2>3. Returned'
    BY <1>0, <1>b DEF Returned, GivesBack
  <2>4. Joined'
    BY <1>0, <1>b DEF Joined, Alive
  <2>5. QED
    BY <2>1, <2>2, <2>3, <2>4 DEF CameraInv
<1>1. CASE StartCameras
  <2>1. Quiet /\ \A k \in fitted : Stopped(k)' => Stopped(k)
    BY <1>1 DEF StartCameras, captureVars, Stopped
  <2>2. kpc' \in {"idle", "start"} /\ kpc = "idle" /\ todo' \subseteq fitted /\ UNCHANGED <<cur, started>>
    BY <1>1, <1>a DEF StartCameras
  <2>3. QED
    BY <1>a, <1>b, <2>1, <2>2 DEF KpcSet
<1>2. CASE StopCameras
  <2>1. Quiet /\ \A k \in fitted : Stopped(k)' => Stopped(k)
    BY <1>2 DEF StopCameras, captureVars, Stopped
  <2>2. kpc' \in {"idle", "stop"} /\ kpc = "idle" /\ todo' \subseteq fitted /\ UNCHANGED <<cur, started>>
    BY <1>2, <1>a DEF StopCameras
  <2>3. QED
    BY <1>a, <1>b, <2>1, <2>2 DEF KpcSet
<1>3. ASSUME NEW k \in Cameras, CameraStarts(k) PROVE CameraInv'
  <2>1. Quiet /\ \A j \in fitted : Stopped(j)' => Stopped(j)
    BY <1>3 DEF CameraStarts, captureVars, Stopped
  <2>2. /\ kpc = "start" /\ kpc' \in {"start", "open"} /\ (kpc' = "open" => ~capturing[k])
        /\ cur' = k /\ k \in todo /\ todo' = todo \ {k} /\ started' = started
    BY <1>3 DEF CameraStarts
  <2>3. QED
    BY <1>a, <1>b, <2>1, <2>2 DEF KpcSet
<1>4. CASE CameraOpens
  <2>0. cur \in fitted /\ cur \notin todo /\ ~capturing[cur] /\ cur \in Cameras
    BY <1>4, <1>0, <1>a DEF CameraOpens, InHand
  <2>1. CASE kpc' = "start" /\ UNCHANGED handle
    <3>1. Quiet /\ UNCHANGED <<cur, todo, started>> /\ kpc = "open"
      BY <1>4, <2>1 DEF CameraOpens, captureVars
    <3>2. QED
      BY <1>a, <1>b, <2>1, <3>1 DEF KpcSet, Stopped
  <2>2. CASE kpc' = "spawn" /\ Handle(cur, "open")
    <3>1. /\ UNCHANGED <<fitted, todo, cur, started, capturing, last, tpc, tries, reopened, overrun>>
          /\ kpc = "open"
      BY <1>4 DEF CameraOpens, captureVars
    <3>2. handle' \in [Cameras -> Handles] /\ \A k \in Cameras \ {cur} : handle'[k] = handle[k]
      BY <1>a, <2>0, <2>2 DEF Handle, Handles
    <3>3. CameraTypeOK'
      BY <1>0, <2>2, <3>1, <3>2 DEF CameraTypeOK, KpcSet
    <3>4. ~Stopped(cur)' /\ \A k \in fitted : Stopped(k)' = Stopped(k)
      BY <2>0, <2>2, <3>1 DEF Stopped
    <3>5. InHand' /\ Returned'
      BY <1>0, <1>a, <2>0, <3>1, <3>2, <3>4 DEF InHand, Returned, GivesBack
    <3>6. Joined'
      BY <1>0, <1>a, <2>0, <2>2, <3>1, <3>2, <3>4 DEF Joined, Alive
    <3>7. QED
      BY <3>3, <3>5, <3>6 DEF CameraInv
  <2>3. QED
    BY <1>4, <2>1, <2>2 DEF CameraOpens
<1>5. CASE CameraSpawns
  <2>0. cur \in fitted /\ cur \notin todo /\ ~capturing[cur] /\ cur \in Cameras
    BY <1>5, <1>0, <1>a DEF CameraSpawns, InHand
  <2>1. PICK t \in Captures : /\ ~Alive(cur, t) /\ last' = [last EXCEPT ![cur] = t]
                              /\ tpc' = [tpc EXCEPT ![cur][t] = "top"]
                              /\ tries' = [tries EXCEPT ![cur][t] = 0]
    BY <1>5 DEF CameraSpawns
  <2>2. /\ kpc = "spawn" /\ kpc' = "start" /\ capturing' = [capturing EXCEPT ![cur] = TRUE]
        /\ UNCHANGED <<fitted, todo, cur, started, handle, reopened, overrun>>
    BY <1>5 DEF CameraSpawns
  <2>3. /\ tpc[cur] \in [Captures -> TpcSet] /\ tries[cur] \in [Captures -> 0 .. REOPEN_ATTEMPTS]
        /\ tpc' = [tpc EXCEPT ![cur] = [tpc[cur] EXCEPT ![t] = "top"]]
        /\ tries' = [tries EXCEPT ![cur] = [tries[cur] EXCEPT ![t] = 0]]
    BY <1>a, <2>0, <2>1
  <2>4. /\ [tpc[cur] EXCEPT ![t] = "top"] \in [Captures -> TpcSet]
        /\ [tries[cur] EXCEPT ![t] = 0] \in [Captures -> 0 .. REOPEN_ATTEMPTS]
    BY <2>3 DEF TpcSet
  <2>5. /\ tpc' \in [Cameras -> [Captures -> TpcSet]]
        /\ tries' \in [Cameras -> [Captures -> 0 .. REOPEN_ATTEMPTS]]
    BY <1>a, <2>3, <2>4
  <2>6. /\ last' \in [Cameras -> 0 .. MaxCaptures] /\ last'[cur] = t
        /\ capturing' \in [Cameras -> BOOLEAN] /\ capturing'[cur]
        /\ \A k \in Cameras \ {cur} : tpc'[k] = tpc[k] /\ last'[k] = last[k] /\ capturing'[k] = capturing[k]
        /\ \A u \in Captures : u # t => tpc'[cur][u] = tpc[cur][u]
    BY <1>a, <2>0, <2>1, <2>2, <2>3 DEF Captures
  <2>7. CameraTypeOK'
    BY <1>0, <2>2, <2>5, <2>6 DEF CameraTypeOK, KpcSet
  <2>8. ~Stopped(cur)' /\ \A k \in fitted : Stopped(k)' = Stopped(k)
    BY <2>0, <2>2 DEF Stopped
  <2>9. InHand'
    BY <2>2 DEF InHand
  <2>10. Returned'
    BY <1>0, <1>a, <2>2, <2>6, <2>8 DEF Returned, GivesBack
  <2>11. Joined'
    <3> SUFFICES ASSUME ~overrun, NEW k \in fitted \ RealSense
                 PROVE  /\ \A u \in Captures : tpc'[k][u] # "dead" => u = last'[k] /\ capturing'[k]
                        /\ Stopped(k)' => ~capturing'[k] /\ handle'[k] # "open"
      BY <2>2 DEF Joined, Alive
    <3>1. /\ \A u \in Captures : tpc[k][u] # "dead" => u = last[k] /\ capturing[k]
          /\ Stopped(k) => ~capturing[k] /\ handle[k] # "open"
      BY <1>0, <2>2 DEF Joined, Alive
    <3>2. CASE k # cur
      BY <1>a, <2>2, <2>6, <2>8, <3>1, <3>2
    <3>3. CASE k = cur
      <4>1. \A u \in Captures : tpc[cur][u] = "dead"
        BY <2>0, <3>1, <3>3
      <4>2. \A u \in Captures : tpc'[cur][u] # "dead" => u = t
        BY <2>6, <4>1
      <4>3. ~Stopped(k)'
        BY <2>0, <2>2, <3>3 DEF Stopped
      <4>4. QED
        BY <2>6, <3>3, <4>2, <4>3
    <3>4. QED
      BY <3>2, <3>3
  <2>12. QED
    BY <2>7, <2>9, <2>10, <2>11 DEF CameraInv
<1>6. CASE CamerasStarted
  <2>1. Quiet /\ \A k \in fitted : Stopped(k)' => Stopped(k)
    BY <1>6 DEF CamerasStarted, captureVars, Stopped
  <2>2. kpc = "start" /\ kpc' = "idle" /\ started' = TRUE /\ UNCHANGED <<todo, cur>>
    BY <1>6 DEF CamerasStarted
  <2>3. QED
    BY <1>a, <1>b, <2>1, <2>2 DEF KpcSet
<1>7. ASSUME NEW k \in Cameras, CameraStops(k) PROVE CameraInv'
  <2>1. /\ kpc = "stop" /\ kpc' = "join" /\ k \in todo /\ todo' = todo \ {k} /\ cur' = k
        /\ capturing' = [capturing EXCEPT ![k] = FALSE]
        /\ UNCHANGED <<fitted, started, handle, last, tpc, tries, reopened, overrun>>
    BY <1>7 DEF CameraStops, captureVars
  <2>2. capturing' \in [Cameras -> BOOLEAN] /\ ~capturing'[k] /\ \A j \in Cameras \ {k} : capturing'[j] = capturing[j]
    BY <1>a, <2>1
  <2>3. CameraTypeOK'
    BY <1>0, <2>1, <2>2 DEF CameraTypeOK, KpcSet
  <2>4. ~Stopped(k)' /\ \A j \in fitted : Stopped(j)' => Stopped(j)
    BY <2>1 DEF Stopped
  <2>5. InHand'
    BY <1>a, <2>1, <2>2 DEF InHand
  <2>6. Returned'
    BY <1>0, <1>a, <2>1, <2>2, <2>4 DEF Returned, GivesBack
  <2>7. Joined'
    BY <1>0, <1>a, <2>1, <2>2, <2>4 DEF Joined, Alive
  <2>8. QED
    BY <2>3, <2>5, <2>6, <2>7 DEF CameraInv
<1>8. CASE CameraJoins
  <2>0. cur \in fitted /\ cur \notin todo /\ ~capturing[cur] /\ cur \in Cameras
    BY <1>8, <1>0, <1>a DEF CameraJoins, InHand
  <2>1. /\ kpc = "join" /\ kpc' = "release" /\ last' = [last EXCEPT ![cur] = NoCapture]
        /\ UNCHANGED <<fitted, todo, cur, started, capturing, handle, tpc, tries, reopened>>
    BY <1>8 DEF CameraJoins, captureVars
  <2>2. /\ last' \in [Cameras -> 0 .. MaxCaptures] /\ \A k \in Cameras \ {cur} : last'[k] = last[k]
        /\ overrun' \in BOOLEAN /\ (overrun => overrun')
        /\ ~overrun' /\ cur \notin RealSense /\ last[cur] # NoCapture => ~Alive(cur, last[cur])
    <3>1. last' \in [Cameras -> 0 .. MaxCaptures] /\ \A k \in Cameras \ {cur} : last'[k] = last[k]
      <4>1. NoCapture \in 0 .. MaxCaptures
        BY DEF NoCapture
      <4>2. last \in [Cameras -> 0 .. MaxCaptures] /\ last' = [last EXCEPT ![cur] = NoCapture]
        BY <1>a, <2>1
      <4>3. QED
        BY <4>1, <4>2
    <3>2. CASE (last[cur] # NoCapture => ~Alive(cur, last[cur])) /\ UNCHANGED overrun
      BY <1>0, <3>1, <3>2 DEF CameraTypeOK
    <3>3. CASE overrun' = (overrun \/ cur \notin RealSense)
      <4>1. overrun \in BOOLEAN /\ (cur \notin RealSense) \in BOOLEAN
        BY <1>0 DEF CameraTypeOK
      <4>2. overrun' \in BOOLEAN /\ (overrun => overrun') /\ (~overrun' => cur \in RealSense)
        BY <3>3, <4>1
      <4>3. QED
        BY <3>1, <4>2
    <3>4. QED
      BY <1>8, <3>2, <3>3 DEF CameraJoins
  <2>3. CameraTypeOK'
    BY <1>0, <2>1, <2>2 DEF CameraTypeOK, KpcSet
  <2>4. \A k \in fitted : Stopped(k)' = Stopped(k)
    BY <2>1 DEF Stopped
  <2>5. InHand' /\ Returned'
    BY <1>0, <2>0, <2>1, <2>4 DEF InHand, Returned, GivesBack
  <2>6. Joined'
    <3> SUFFICES ASSUME ~overrun', NEW k \in fitted \ RealSense
                 PROVE  /\ \A u \in Captures : tpc[k][u] # "dead" => u = last'[k] /\ capturing[k]
                        /\ Stopped(k)' => ~capturing[k] /\ handle[k] # "open"
      BY <2>1 DEF Joined, Alive
    <3>1. /\ \A u \in Captures : tpc[k][u] # "dead" => u = last[k] /\ (capturing[k] \/ cur = k)
          /\ Stopped(k) => ~capturing[k] /\ handle[k] # "open"
      BY <1>0, <2>1, <2>2 DEF Joined, Alive
    <3>2. CASE k # cur
      BY <1>a, <2>2, <2>4, <3>1, <3>2
    <3>3. CASE k = cur
      <4>1. \A u \in Captures : tpc[k][u] = "dead"
        BY <2>2, <3>1, <3>3 DEF Captures, NoCapture, Alive
      <4>2. QED
        BY <2>4, <3>1, <4>1
    <3>4. QED
      BY <3>2, <3>3
  <2>7. QED
    BY <2>3, <2>5, <2>6 DEF CameraInv
<1>9. CASE CameraReleases
  <2>0. cur \in fitted /\ cur \notin todo /\ ~capturing[cur] /\ cur \in Cameras
    BY <1>9, <1>0, <1>a DEF CameraReleases, InHand
  <2>1. /\ kpc = "release" /\ kpc' = "stop" /\ handle' = [handle EXCEPT ![cur] = "none"]
        /\ UNCHANGED <<fitted, todo, cur, started, capturing, last, tpc, tries, reopened, overrun>>
    BY <1>9 DEF CameraReleases, captureVars, Handle
  <2>2. handle' \in [Cameras -> Handles] /\ handle'[cur] = "none" /\ \A k \in Cameras \ {cur} : handle'[k] = handle[k]
    BY <1>a, <2>0, <2>1 DEF Handles
  <2>3. CameraTypeOK'
    BY <1>0, <2>1, <2>2 DEF CameraTypeOK, KpcSet
  <2>4. \A k \in fitted \ {cur} : Stopped(k)' => Stopped(k)
    BY <2>1 DEF Stopped
  <2>5. InHand'
    BY <2>1 DEF InHand
  <2>6. Returned'
    BY <1>0, <1>a, <2>0, <2>1, <2>2, <2>4 DEF Returned, GivesBack
  <2>7. Joined'
    BY <1>0, <1>a, <2>0, <2>1, <2>2, <2>4 DEF Joined, Alive
  <2>8. QED
    BY <2>3, <2>5, <2>6, <2>7 DEF CameraInv
<1>10. CASE CamerasStopped
  <2>1. Quiet /\ \A k \in fitted : Stopped(k)' => Stopped(k)
    BY <1>10 DEF CamerasStopped, captureVars, Stopped
  <2>2. kpc = "stop" /\ kpc' = "idle" /\ started' = FALSE /\ UNCHANGED <<todo, cur>>
    BY <1>10 DEF CamerasStopped
  <2>3. QED
    BY <1>a, <1>b, <2>1, <2>2 DEF KpcSet
<1>11. ASSUME NEW k \in Cameras, NEW t \in Captures, CaptureThread(k, t) PROVE CameraInv'
  BY <1>11, CaptureInv
<1>12. CASE UNCHANGED cameraVars
  <2>1. Quiet /\ UNCHANGED <<kpc, todo, cur, started>>
    BY <1>12 DEF cameraVars, callVars, captureVars
  <2>2. \A k \in fitted : Stopped(k)' = Stopped(k)
    BY <2>1 DEF Stopped
  <2>3. QED
    BY <1>0, <1>a, <1>b, <2>1, <2>2 DEF InHand
<1>13. QED
  BY <1>1, <1>2, <1>3, <1>4, <1>5, <1>6, <1>7, <1>8, <1>9, <1>10, <1>11, <1>12
     DEF CamerasNext, CallStep

\* The invariant of the cameras.
LEMMA CamerasCorrect == CellSpec => []CameraInv
<1>1. CameraInv /\ [CellNext]_allVars => CameraInv'
  BY CamerasStep, CameraInvStep
<1>2. QED
  BY <1>1, CameraInvInit, PTL DEF CellSpec

\* Type correctness of the whole: of the arms by refinement, of the cameras by their invariant.
THEOREM CellTypeCorrect == CellSpec => []CellTypeOK
<1>1. CameraInv => CameraTypeOK
  BY DEF CameraInv
<1>2. QED
  BY <1>1, ArmsAlone, TypeCorrect, CamerasCorrect, PTL DEF CellTypeOK

\* stop_cameras() leaves no camera open that nobody closes: for any cameras, restarts and
\* capture threads.
THEOREM CamerasComeDown == CellSpec => []CamerasReleased
<1>1. CameraInv => CamerasReleased
  BY DEF CameraInv, CamerasReleased, Returned, Joined, Stopped
<1>2. QED
  BY <1>1, CamerasCorrect, PTL

\* What WorkcellProofs shows of the arms holds of them beside any cameras: what a shutdown and
\* a refused bring-up leave (with the two exceptions of Excused), what start() reports, and that
\* an observer changes nothing.
THEOREM ArmsStaySafe ==
  CellSpec => [](HandedBack /\ RefusedKeepsBrakes /\ StartTellsTheTruth) /\ ObserverTouchesNothing
BY ArmsAlone, ArmsHandedBack, RefusedIsNotReleased, StartIsTruthful, ObserversTouchNothing, PTL

=============================================================================
