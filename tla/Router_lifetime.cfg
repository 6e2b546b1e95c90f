SPECIFICATION Spec
CONSTANTS
  a = a
  b = b
  x = x
  y = y
  Peers = {a, b}
  Addresses = {x, y}
  Inputs <- StoredInputs
  Distances = {0, 2}
  Requests <- StoredRequests
  Algorithms <- MCAlgorithms
  LocTeLifetime = 1
  NeighbourExpiry = 0
  DplLength = 1
  BufferSize = 2
  Retransmit = 1
  MaxJitter = 1
  MaxRequests = 1
  Quantum = 2
  None = None
INVARIANTS
  NothingExpiredIsSent
