SPECIFICATION Spec
CONSTANTS
  None = None
  r1 = r1
  r2 = r2
  r3 = r3
  Releases = {r1, r2}
  Schema <- OneSchema
  Unhealthy = {}
  Platform = "linux"
  MaxGeneration = 3
  Interruptible <- AllPhases
INVARIANT ServiceMatches
