\* No attempt, one or three; stragglers; a crash or a power loss; every choice of selected blocks.
SPECIFICATION FairSpec
CONSTANTS
  Entity = Entity
  LastBlock = 2
  MaxCrashes = 1
  Request <- Requests
  RetryConfigs <- Configs
  MaxStragglers = 1
INVARIANTS TypeOK BackoffIsCapped BlockIsDone DaemonInv
PROPERTIES ShutdownStops Recovers
