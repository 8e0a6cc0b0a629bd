SPECIFICATION Spec
CONSTANTS
  d1 = d1
  d2 = d2
  Device = {d1}
  Record = {1}
  Shapes <- WitnessShapes
  IdRank <- DrawnInOrder
  Managers = {}
  MaxCursor = 7
  MaxCounter = 4
  MaxEnvelopes = 0
  MaxCollections = 3
  MaxUptime = 2
  MaxElapsed = 1
  MinRetention = 1
  MaxDevices = 2
  MaxSiblings = 2
  MaxMutations = 1
  PageSize = 8
  PageTrims = {0}
  RecordBatch = 1
  CandidateBatch = 8
  MaxSnapshots = 1
INVARIANTS
  TypeOK
  MarkersAdvance
  CollectedIsCovered
  AgedBeforeCollected
