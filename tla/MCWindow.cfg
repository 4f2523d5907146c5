\* A window of three segments and a message of more than it holds: fast retransmit.
SPECIFICATION Spec
CONSTANTS
  Unit = 12
  ManagerConfig <- WideConfig
  Configs <- WideOnly
  InitialSeq <- MCInitialSeq
  Delays = {1, 3}
  MessageLengths = {5}
  MaxMessages = 1
  MaxUpdates = 0
  MaxLosses = 1
  MaxTransmissions = 12
CHECK_DEADLOCK FALSE
INVARIANTS UnackedTiled NoStall PhaseMatchesWindow
PROPERTIES WindowRespected
