CONSTANTS
  Sessions = {s1}
  Saved = {}
  MaxWorkers = 2
  QueueCap = 1
  MaxChunks = 2
  MaxStarts = 1
  MaxViews = 1
  Faults = {"disk"}
SPECIFICATION Spec
INVARIANTS RepliesMatch
CHECK_DEADLOCK FALSE
