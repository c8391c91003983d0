CONSTANTS
  Transfers = {t1}
  NoTransfer = NoTransfer
  Pushes = {p1}
  MaxAttempts = 2
  MaxReservations = 1
  MaxFaults = 2
  Faults = {"rpcFails", "rpcLost", "serverCrash", "sidecarRestart", "localFails", "controlFails", "reject"}
SPECIFICATION FairSpec
INVARIANTS TypedOnce  ConclusionHonest
PROPERTIES TaskMoved 
CHECK_DEADLOCK FALSE
