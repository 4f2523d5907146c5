\* Two messages and a configuration update at any moment, one loss.
SPECIFICATION Spec
CONSTANTS
  Unit = 12
  ManagerConfig <- BaseConfig
  Configs <- TwoConfigs
  InitialSeq <- MCInitialSeq
  Delays = {1, 3}
  MessageLengths = {2}
  MaxMessages = 2
  MaxUpdates = 1
  MaxLosses = 1
  MaxTransmissions = 10
CHECK_DEADLOCK FALSE
INVARIANTS TimersCoverInFlight StreamIntact TimeWaitEnds
