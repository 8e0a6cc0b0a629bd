SPECIFICATION Spec
CONSTANTS
  d1 = d1
  d2 = d2
  Device = {d1}
  Record = {1}
  Shapes <- WitnessShapes
  IdRank <- DrawnInReverse
  Managers = {}
  MaxCursor = 6
  MaxCounter = 3
  MaxEnvelopes = 0
  MaxCollections = 2
  MaxUptime = 1
  MaxElapsed = 1
  MinRetention = 1
  MaxDevices = 2
  MaxSiblings = 2
  MaxMutations = 2
  PageSize = 8
  PageTrims = {0}
  RecordBatch = 1
  CandidateBatch = 2
  MaxSnapshots = 1
INVARIANTS
  ValidFrontier
