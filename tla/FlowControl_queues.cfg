SPECIFICATION FairSpec
CONSTANTS
  Burst = 2
  BurstDuration = 1
  BurstPeriod = 3
  OffTimes <- TwoStates
  Never = Never
  UsedProfiles = {0, 2}
  Lifetimes = {1, 3}
  Limits = {1, 2}
  MaxRequests = 4
  MaxJump = 1
INVARIANTS
  TypeOK
  TriggerIsComing
  NothingStaleIsSent
PROPERTIES
  SentInOrder
  QueuesAreBounded
  QueuedPacketLeaves
CHECK_DEADLOCK FALSE
