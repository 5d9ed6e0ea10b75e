SPECIFICATION FairSpec
CONSTANTS
  HalfVel <- MCHalfVel
  HalfAcc <- MCHalfAcc
  Lever <- MCLever
  MaxCart = 5
  Lo <- MCLo
  Hi <- MCHi
  Requests <- MCRequests
  Postures <- MCPostures
  Grace = 1
INVARIANT
  StoppingDistance
PROPERTY StepLimited
PROPERTY ToolStepLimited
PROPERTY Arrives
