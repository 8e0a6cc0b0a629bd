SPECIFICATION Spec
CONSTANTS
  None = None
  r1 = r1
  r2 = r2
  r3 = r3
  Releases = {r1, r2, r3}
  Schema <- OneSchema
  Unhealthy = {r3}
  Platform = "linux"
  MaxGeneration = 3
  Interruptible <- ServiceRechecked
INVARIANTS TypeOK ServiceMatches InstalledFilesKept ApplyAsPlanned LeaseOnCommitted SavedIsFinishable
PROPERTY SwitchesAtomically
