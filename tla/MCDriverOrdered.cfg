SPECIFICATION FairSpec
CONSTANTS
  Monitor = monitor
  Callers = {c1}
  Errors = {"recoverable", "rail", "hard"}
  Hazards = {"caught", "takeover", "displace", "link"}
PROPERTY NoJump
PROPERTY StreamControlled
PROPERTY ServiceKept
PROPERTY ServiceServed
PROPERTY StreamingMoves
