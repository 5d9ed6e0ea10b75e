SPECIFICATION FairSpec
CONSTANTS
  Monitor = monitor
  Callers = {c1}
  Errors = {"recoverable"}
  Hazards = {"reject"}
PROPERTY StreamingMoves
