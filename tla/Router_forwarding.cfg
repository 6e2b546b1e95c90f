SPECIFICATION Spec
CONSTANTS
  a = a
  b = b
  x = x
  y = y
  Peers = {a, b}
  Addresses = {x, y}
  Inputs <- MCInputs
  Distances = {0, 2}
  Requests <- MCRequests
  Algorithms <- MCAlgorithms
  LocTeLifetime = 1
  NeighbourExpiry = 0
  DplLength = 1
  BufferSize = 2
  Retransmit = 1
  MaxJitter = 1
  MaxRequests = 1
  Quantum = 1
  None = None
INVARIANTS
  TypeOK
  ForwardedOnce
  FlushLeavesOnlyGreedy
  SilenceIsBounded
PROPERTIES
  OwnFramesAreCurrent
  BeaconsAreSpaced
SYMMETRY AddressSymmetry
