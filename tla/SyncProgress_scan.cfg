SPECIFICATION ProgressSpec
CONSTANTS
  d1 = d1
  d2 = d2
  Device = {d1}
  Record = {1, 2}
  Shapes <- EditOrDelete
  IdRank <- DrawnInOrder
  Managers = {}
  MaxCursor = 8
  MaxCounter = 3
  MaxEnvelopes = 1
  MaxCollections = 3
  MaxUptime = 0
  MaxElapsed = 0
  MinRetention = 0
  MaxDevices = 2
  MaxSiblings = 2
  MaxMutations = 1
  PageSize = 8
  PageTrims = {0}
  RecordBatch = 1
  CandidateBatch = 8
  MaxSnapshots = 1
PROPERTIES
  GarbageCollected
