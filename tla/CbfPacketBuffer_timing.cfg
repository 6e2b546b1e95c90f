SPECIFICATION Spec
CONSTANTS
  p1 = p1
  p2 = p2
  p3 = p3
  Ids = {p1, p2, p3}
  Lengths = {1}
  Lifetimes = {6}
  Capacity = 9
  Timeouts = {1, 2}
  MaxTime = 2
  Algorithm = "CBF"
  Inside = {TRUE}
  Fading = TRUE
  CounterLifetime = 4
  MaxCounter = 1
  Quantum = 3
  MaxJump = 1
  Off = Off
INVARIANTS
  NothingOverdue
PROPERTIES
  RepeatsAreApart
SYMMETRY PacketSymmetry
