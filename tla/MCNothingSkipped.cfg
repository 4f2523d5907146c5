\* A FIN that arrives before the data it follows.
SPECIFICATION Spec
CONSTANTS
  Unit = 12
  ManagerConfig <- BaseConfig
  Configs <- OneConfig
  InitialSeq <- MCInitialSeq
  Delays = {1, 3}
  MessageLengths = {3}
  MaxMessages = 1
  MaxUpdates = 0
  MaxLosses = 1
  MaxTransmissions = 12
CHECK_DEADLOCK FALSE
INVARIANTS NothingSkipped
