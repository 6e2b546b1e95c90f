SPECIFICATION FairSpec
CONSTANTS
  p1 = p1
  p2 = p2
  p3 = p3
  Ids = {p1, p2, p3}
  Lengths = {1, 3}
  Lifetimes = {3}
  Capacity = 2
  Timeouts = {0, 2}
  MaxTime = 2
  Algorithm = "ADVANCED"
  Inside = {TRUE, FALSE}
  Fading = FALSE
  CounterLifetime = 0
  MaxCounter = 2
  Quantum = 3
  MaxJump = 1
  Off = Off
INVARIANTS
  TypeOK
  Consistent
  FlushIsComing
  RoundingIsBounded
PROPERTIES
  ContentionEnds
