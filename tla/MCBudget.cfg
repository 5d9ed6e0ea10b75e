SPECIFICATION Spec
CONSTANTS
  Budget = 2
  Window = 3
  Refault = 1
  Backoff = 2
  Conflict = 2
  MaxTime = 5
INVARIANTS
  WithinBudget
  HalvedInBackoff
PROPERTIES
  NoSecondTrip
  NoHoldingLoop
