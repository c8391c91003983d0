SPECIFICATION FairSpec
CONSTANTS
  Conns = {c1}
  Budget = 2
  OutLen = 1
  SnapLen = 2
  StatusLen = 2
  ExitLen = 1
  MaxChunk = 2
  MaxReg = 1
  Faults = {"snapshotFails", "weakOrder", "clientGone", "respawn"}
  c1 = c1
PROPERTIES
  LagResolves
  CatchesUp
CHECK_DEADLOCK FALSE
