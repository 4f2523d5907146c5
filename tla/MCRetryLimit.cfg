\* Two lost SYNs with one retry allowed.
SPECIFICATION Spec
CONSTANTS
  Unit = 12
  ManagerConfig <- BaseConfig
  Configs <- OneConfig
  InitialSeq <- MCInitialSeq
  Delays = {1, 3}
  MessageLengths = {3}
  MaxMessages = 1
  MaxUpdates = 0
  MaxLosses = 2
  MaxTransmissions = 4
CHECK_DEADLOCK FALSE
INVARIANTS RetryLimit
