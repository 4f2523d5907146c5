\* Close right after the handshake, the FIN faster than its last ACK.
SPECIFICATION Spec
CONSTANTS
  Unit = 12
  ManagerConfig <- BaseConfig
  Configs <- OneConfig
  InitialSeq <- MCInitialSeq
  Delays = {1, 3}
  MessageLengths = {3}
  MaxMessages = 0
  MaxUpdates = 0
  MaxLosses = 0
  MaxTransmissions = 12
CHECK_DEADLOCK FALSE
INVARIANTS FinAnswered
