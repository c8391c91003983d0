CONSTANTS
  Sessions = {s1}
  Saved = {}
  MaxWorkers = 2
  QueueCap = 1
  MaxChunks = 2
  MaxStarts = 1
  MaxViews = 1
  Faults = {"crash", "slow"}
SPECIFICATION Spec
INVARIANTS OneSidecar NobodyStranded FlushSaves InOrder
CHECK_DEADLOCK FALSE
