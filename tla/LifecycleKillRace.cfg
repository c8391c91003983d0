CONSTANTS
  Clients = {k1, k2}
  Handler = h
  None = None
  Ops = {"Spawn", "Kill"}
  Env = {"exits"}
  MaxInc = 2
  MaxCmds = 2
SPECIFICATION FairSpec
PROPERTIES KillAnswered
CHECK_DEADLOCK FALSE
