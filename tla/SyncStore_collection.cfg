SPECIFICATION Spec
CONSTANTS
  d1 = d1
  d2 = d2
  Device = {d1, d2}
  Record = {1}
  Shapes <- WitnessShapes
  IdRank <- DrawnInOrder
  Managers = {}
  MaxCursor = 5
  MaxCounter = 2
  MaxEnvelopes = 0
  MaxCollections = 2
  MaxUptime = 0
  MaxElapsed = 0
  MinRetention = 0
  MaxDevices = 2
  MaxSiblings = 2
  MaxMutations = 1
  PageSize = 8
  PageTrims = {0}
  RecordBatch = 1
  CandidateBatch = 8
  MaxSnapshots = 1
SYMMETRY Symmetric
INVARIANTS
  
  NoResurrection
  LiveDataKept
  RestartAccepted
