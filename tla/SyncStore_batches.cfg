SPECIFICATION Spec
CONSTANTS
  d1 = d1
  d2 = d2
  Device = {d1}
  Record = {1, 2}
  Shapes <- WitnessShapes
  IdRank <- DrawnInOrder
  Managers = {}
  MaxCursor = 7
  MaxCounter = 4
  MaxEnvelopes = 0
  MaxCollections = 2
  MaxUptime = 0
  MaxElapsed = 0
  MinRetention = 0
  MaxDevices = 2
  MaxSiblings = 2
  MaxMutations = 2
  PageSize = 8
  PageTrims = {0}
  RecordBatch = 2
  CandidateBatch = 1
  MaxSnapshots = 1
INVARIANTS
  RestartAccepted
  ValidFrontier
  
