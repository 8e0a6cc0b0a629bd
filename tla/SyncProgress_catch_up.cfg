SPECIFICATION ProgressSpec
CONSTANTS
  d1 = d1
  d2 = d2
  Device = {d1, d2}
  Record = {1}
  Shapes <- EditOrDelete
  IdRank <- DrawnInOrder
  Managers = {}
  MaxCursor = 7
  MaxCounter = 1
  MaxEnvelopes = 1
  MaxCollections = 2
  MaxUptime = 0
  MaxElapsed = 0
  MinRetention = 0
  MaxDevices = 2
  MaxSiblings = 2
  MaxMutations = 1
  PageSize = 2
  PageTrims = {0, 1}
  RecordBatch = 1
  CandidateBatch = 8
  MaxSnapshots = 1
PROPERTIES
  DevicesCatchUp
