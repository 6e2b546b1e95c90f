SPECIFICATION Spec
CONSTANTS
  Tickets = {1, 2}
  InitialTickets = {1, 2}
  Changing = {}
  MaxSubscriptions = 1
  MaxLocks = 0
  MaxHandles <- MCHandles
  MaxRounds = 1
  LockDurations = {}
  ResponseTimeout = 1
  MaxJump = 1
  Off = Off
  Allowed = {}
INVARIANTS
  SecondAnswerIsIgnored
CHECK_DEADLOCK FALSE
