SPECIFICATION FairSpec
CONSTANTS
  NoJob = NoJob
  Job = {"a", "b"}
  Backups = {"b"}
  MaxAttempts <- MCMaxAttempts
  MaxCrashes = 2
  MaxFaults = 2
INVARIANTS
  TypeOK
  QueuedIsClaimable
  RunningIsAccounted
  AuditAgrees
  NoLostWakeup
PROPERTIES
  InOrder
  Implements
  SettlesUnlessLost
CHECK_DEADLOCK FALSE
