--------------------------- MODULE HardwareWorkcell ---------------------------
(***************************************************************************)
(* HardwareWorkcell (workcell.py) as a whole: its arms (Workcell) and its  *)
(* cameras (Camera).  bring_up() ends with start_cameras(), shutdown()     *)
(* begins with stop_cameras(), and both are also called on their own, for  *)
(* the previews before a session; calls come one after the other.          *)
(***************************************************************************)
EXTENDS Workcell, Camera

ASSUME FittedAssumption == \A c \in Cells : c.cameras \subseteq Cameras

allVars == <<vars, cameraVars>>

CellInit == /\ Init /\ CameraInit
            /\ \E c \in Cells : order = c.arms /\ watched = c.watched /\ fitted = c.cameras

StartsUp == kpc = "idle" /\ Unspent /\ BringUp /\ UNCHANGED cameraVars
SetsUpNetwork == (NetworkStage \/ NetworkRaises) /\ UNCHANGED cameraVars
BroughtUp == JoinBringUp /\ StartCameras

ShutsDown == Shutdown /\ StopCameras
DisconnectsArms == kpc = "idle" /\ (ShutdownDisconnects \/ ShutdownEnds) /\ UNCHANGED cameraVars

Previews ==
  /\ mpc \in {"idle", "up"} /\ ((StartCameras /\ Unspent) \/ StopCameras)
  /\ UNCHANGED vars

ArmStep(a) ==
  /\ \/ Boot(a) \/ ArmConnects(a) \/ FreshReport(a) \/ Session(a)
     \/ ObserverConnects(a) \/ ObserverLeaves(a)
  /\ UNCHANGED cameraVars

CameraStep == (CallStep \/ \E k \in Cameras, t \in Captures : CaptureThread(k, t)) /\ UNCHANGED vars

CellNext == \/ StartsUp \/ SetsUpNetwork \/ BroughtUp \/ ShutsDown \/ DisconnectsArms \/ Previews
            \/ (\E a \in Arms : ArmStep(a)) \/ CameraStep

\* the thread of start() and stop() runs, and so does a thread that it waits for, where that
\* is outside SDK calls
Main == \/ SetsUpNetwork \/ BroughtUp \/ DisconnectsArms \/ (CallStep /\ UNCHANGED vars)
        \/ \E a \in Members : /\ \/ Disconnecting(a)
                                \/ (dpc[a] = "join" /\ wpc[a] = "resume" /\ RecoverResumes(a))
                             /\ UNCHANGED <<cellVars, cameraVars>>
        \/ /\ kpc = "join" /\ last[cur] # NoCapture /\ CaptureThread(cur, last[cur])
           /\ UNCHANGED vars

\* and so do the threads that connect: nothing is assumed of an arm in Faulty
Fairness ==
  /\ WF_allVars(Main)
  /\ \A a \in Arms \ Faulty : WF_vars(Boot(a) \/ ArmConnects(a) \/ FreshReport(a))

CellSpec == CellInit /\ [][CellNext]_allVars
FairCellSpec == CellSpec /\ Fairness

\* Every variable of arms and cameras keeps its range.
CellTypeOK == TypeOK /\ CameraTypeOK
=============================================================================
