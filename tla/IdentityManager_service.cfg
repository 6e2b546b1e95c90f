SPECIFICATION FairSpec
CONSTANTS
  Tickets = {1, 2}
  InitialTickets = {1, 2}
  Changing = {2}
  MaxSubscriptions = 2
  MaxLocks = 2
  MaxHandles <- MCHandles
  MaxRounds = 2
  LockDurations = {0, 1, 2}
  ResponseTimeout = 1
  MaxJump = 2
  Off = Off
  Allowed = {}
INVARIANTS
  TypeOK
  OpenRoundIsTimed
  CommitNeedsAllYes
  PendingFlagsMatch
  RoundsAccountedFor
  NoTimerAfterDestroy
  SubscribersAgree
  LockTimerCoversLocks
PROPERTIES
  ChangesAreAtomic
  LockKeepsIdentifier
  RoundEnds
  QueuedTriggerRuns
CHECK_DEADLOCK FALSE
