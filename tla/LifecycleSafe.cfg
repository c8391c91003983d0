CONSTANTS
  Clients = {k1, k2}
  Handler = h
  None = None
  Ops = {"Spawn", "Kill", "Input"}
  Env = {"exits", "handoff", "killFails", "ioError"}
  MaxInc = 3
  MaxCmds = 3
SYMMETRY MCSymmetry
SPECIFICATION Spec
INVARIANTS OneExit  ExitBeforeReplacement
PROPERTIES NoEviction SnapshotFenced
CHECK_DEADLOCK FALSE
