SPECIFICATION MCSpec
CONSTANTS
  None = None
  Authorities <- MCAuthorities
  Issuer <- MCIssuer
  Content <- MCContent
  Second = 2
  Year = 2
  CalendarYear = 1
  Time32 = 8
  Aids = {"CAM", "DENM"}
  Messages <- MCMessages
  Here <- MCHere
  Bundles <- MCBundles
  RevocationLists <- MCRevocationLists
  CacheLimit = 1
  ChainCapacity = 1
  LearnedLimit = 1
  ReplayWindow = 1
  MaxAge = 1
  Tolerance = 0
  MaxTime = 2
  MaxEvents = 3
  MaxAccepted = 3
  Psids = {"CAM", "DENM"}
  Ssps <- MCSsps
  Issues <- MCIssues
  Regions <- MCRegions
  Places <- MCPlaces
  MaxChain = 4
INVARIANTS
  TypeOK
  AcceptedIsAuthorised
  ReplaysAreApart
  TicketsComeWithChain
  PermissionsNest
  RegionsNest
CHECK_DEADLOCK FALSE
