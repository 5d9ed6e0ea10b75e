SPECIFICATION Spec
CONSTANTS
  Monitor = monitor
  Callers = {c1}
  Errors = {"recoverable", "hard"}
  Hazards = {"stop", "clear", "stall", "reject", "caught", "takeover", "link"}
INVARIANTS
  HaltedMeansPaused
  RecoveringHasOwner
  FaultStaysPending
