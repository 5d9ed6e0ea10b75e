SPECIFICATION Spec
CONSTANTS
  Monitor = monitor
  Callers = {c1}
  Errors = {"recoverable"}
  Hazards = {"stop"}
PROPERTY LatchHeld
