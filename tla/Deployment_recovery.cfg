SPECIFICATION FairSpec
CONSTANTS
  None = None
  r1 = r1
  r2 = r2
  r3 = r3
  Releases = {r1, r2}
  Schema <- OneSchema
  Unhealthy = {r2}
  Platform = "darwin"
  MaxGeneration = 3
  Interruptible <- ServiceRechecked
PROPERTY RecoveryEnds
