\* A configuration update before the first packet.
SPECIFICATION Spec
CONSTANTS
  Unit = 12
  ManagerConfig <- BaseConfig
  Configs <- TwoConfigs
  InitialSeq <- MCInitialSeq
  Delays = {1, 3}
  MessageLengths = {3}
  MaxMessages = 1
  MaxUpdates = 1
  MaxLosses = 1
  MaxTransmissions = 4
CHECK_DEADLOCK FALSE
PROPERTIES RtoFollowsConfig
