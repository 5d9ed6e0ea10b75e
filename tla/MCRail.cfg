SPECIFICATION FairSpec
CONSTANTS
  Homers = {h1}
  RailMax <- MCRailMax
  Requests <- MCRequests
INVARIANTS
  TypeOK
  BusExclusion
  FaultDropsTarget
  SendOnlyWhenCommandable
PROPERTIES
  ReadyStartsEmpty
  TargetServed
  HomingEnds
