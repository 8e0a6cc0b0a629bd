SPECIFICATION Spec
CONSTANTS
  None = None
  Absent = Absent
  p1 = p1
  p2 = p2
  i1 = i1
  i2 = i2
  s1 = s1
  s2 = s2
  g1 = g1
  g2 = g2
  d1 = d1
  d2 = d2
  e1 = e1
  e2 = e2
  Processes = {p1, p2}
  Identities = {i1, i2}
  Secrets = {s1, s2}
  Listeners = {"loopback", "custom"}
  Default = "loopback"
  Devices = {d1, d2}
  Tokens = {1, 2}
  Grants = {g1, g2}
  EnrollmentIds = {e1, e2}
  RotationIds = {"x1"}
  RequestIds = {"q1"}
  Payloads = {"payload"}
  Callers = {d1}
  Applicants <- TwoApplicants
  GrantLifetime = 1
  AttemptWindow = 1
  AttemptLimit = 1
  DeviceLimit = 2
  CursorLimit = 4
  RetainCount = 1
  MinimumAge = 1
  PruneBatch = 1
  MaxDelay = 1
  MaxTime = 1
  MaxBoot = 2
SYMMETRY Symmetric
CHECK_DEADLOCK FALSE
INVARIANTS TypeOK ReadyIsComplete InitResumable OneServer GrantSpentOnce GrantHonoured RevokedRefused RetriesAnswered ReceiptKeysFit UptimeNotInflated
PROPERTIES IdentityKept RevocationKept ReceiptsKept
