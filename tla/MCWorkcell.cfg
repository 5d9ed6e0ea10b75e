SPECIFICATION FairCellSpec
CONSTANTS
  a1 = a1
  a2 = a2
  a3 = a3
  a4 = a4
  Arms = {a1, a2, a3, a4}
  Faulty = {a1, a3, a4}
  Observed = {a3}
  Tuned = {a4}
  Cleared = {a4}
  Cells <- MCCells
  k1 = k1
  k2 = k2
  Cameras = {k1, k2}
  RealSense = {k1}
  REOPEN_ATTEMPTS = 2
  MaxCaptures = 2
INVARIANTS
  HandedBack
  RefusedKeepsBrakes
  StartTellsTheTruth
  CamerasReleased
PROPERTIES
  ObserverTouchesNothing
  SiblingConnects
  ShutdownCompletes
CHECK_DEADLOCK FALSE
