CONSTANTS
  Clients = {c1, c2}
  NoClient = NoClient
  Sizes <- mcSizes
  SpawnSize <- mcSpawn
  MaxGeneration = 1
  Faults = {"resizeFails", "rollbackFails"}
SPECIFICATION Spec
SYMMETRY symmClients
INVARIANTS ElectionSound Settled  RecordTrue
CHECK_DEADLOCK FALSE
