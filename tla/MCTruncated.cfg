\* An event budget that runs out during the transfer.
SPECIFICATION RunnerSpec
CONSTANTS
  Unit = 12
  ManagerConfig <- MCConfig
  Configs <- MCConfigs
  InitialSeq <- MCInitialSeq
  Delays = {1}
  MessageLengths = {7}
  MaxMessages = 1
  MaxUpdates = 0
  MaxLosses = 0
  MaxTransmissions = 40
  Budget <- TightBudget
  MaxVirtualTime = 100
CHECK_DEADLOCK FALSE
INVARIANTS TruncatedIsIncomplete
