SPECIFICATION FairSpec
CONSTANTS
  A = A
  B = B
  x = x
  y = y
  z = z
  a1 = a1
  b1 = b1
  b2 = b2
  gn = gn
  None = None
  Stations = {A, B}
  Tickets = {a1, b1, b2}
  Authorities = {x, y, z}
  Owner <- MCOwner
  Issuer <- MCIssuer
  Provisioned <- MCProvisioned
  Traffics <- MCTraffics
  Generic = {gn}
  HalfSecond = 1
  RequestLimit = 2
  CacheLimit = 1
  LearnedLimit = 1
  MaxDisruptions = 2
INVARIANTS
  TypeOK
  DigestIsExplained
PROPERTIES
  SignersGetResolved
CHECK_DEADLOCK FALSE
