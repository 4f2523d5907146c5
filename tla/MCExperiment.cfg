\* A two-segment experiment with one loss anywhere; the slowest runs exceed the
\* virtual-time cap.
SPECIFICATION RunnerSpec
CONSTANTS
  Unit = 12
  ManagerConfig <- MCConfig
  Configs <- MCConfigs
  InitialSeq <- MCInitialSeq
  Delays = {1, 3}
  MessageLengths = {3}
  MaxMessages = 1
  MaxUpdates = 0
  MaxLosses = 1
  MaxTransmissions = 40
  Budget <- AmpleBudget
  MaxVirtualTime = 25
CHECK_DEADLOCK FALSE
INVARIANTS ClosesAfterDelivery CompletedIsTrue FinsAreAcked CountersAgree GoodputBounded
PROPERTIES ExperimentEnds
