SPECIFICATION Spec
CONSTANTS
  Monitor = monitor
  Callers = {c1}
  Errors = {"recoverable", "hard"}
  Hazards = {}
PROPERTY OnlyRecoverableResumes
