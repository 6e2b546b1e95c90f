SPECIFICATION Spec
CONSTANTS
  Tickets = {1, 2}
  InitialTickets = {1, 2}
  Changing = {}
  MaxSubscriptions = 1
  MaxLocks = 0
  MaxHandles <- MCHandles
  MaxRounds = 2
  LockDurations = {}
  ResponseTimeout = 1
  MaxJump = 2
  Off = Off
  Allowed = {}
INVARIANTS
  NoLostTrigger
CHECK_DEADLOCK FALSE
