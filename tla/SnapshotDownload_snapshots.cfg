SPECIFICATION DownloadSpec
CONSTANTS
  d1 = d1
  Device = {d1}
  Record = {1, 2}
  Shapes <- WitnessShapes
  IdRank <- DrawnInOrder
  Managers = {d1}
  MaxCursor = 6
  MaxCounter = 2
  MaxEnvelopes = 1
  MaxCollections = 2
  MaxUptime = 0
  MaxElapsed = 0
  MinRetention = 0
  MaxDevices = 2
  MaxSiblings = 2
  MaxMutations = 1
  PageSize = 8
  PageTrims = {0}
  RecordBatch = 2
  CandidateBatch = 8
  MaxSnapshots = 1
  PageItems = 2
  BodyLimit = 2
  LiveSize = 2
INVARIANTS
  SnapshotReadable
  SnapshotsAccepted
  DownloadMissesNothing
  
