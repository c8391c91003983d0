CONSTANTS
  Clients = {c1, c2}
  NoClient = NoClient
  Sizes <- mcSizes
  SpawnSize <- mcSpawn
  MaxGeneration = 0
  Faults = {}
SPECIFICATION Spec
INVARIANT RecordSurvives
CHECK_DEADLOCK FALSE
