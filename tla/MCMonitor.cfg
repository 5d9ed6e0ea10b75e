SPECIFICATION FairSpec
CONSTANTS
  Requests = {r1}
  Homing = {r1}
  MaxGen = 2
  MaxClients = 2
  Ends = {"paused"}
  Slow = TRUE
INVARIANTS
  OneClient
  HandedOver
  RestsSilently
PROPERTIES
  HomingOnFreshPosture
  ChannelPromise
  RequestsEnd
  Reconnects
