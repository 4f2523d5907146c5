-------------------------- MODULE MCExperimentRunner --------------------------
(***************************************************************************)
(* Values of ExperimentRunner's constants for TLC.                         *)
(***************************************************************************)
EXTENDS ExperimentRunner

MCInitialSeq == [client |-> 10, server |-> 30]

\* See MCTcpSession: the timeout lies between the slowest round trip and the
\* others.
MCConfig ==
  [mss |-> 2, initialCwnd |-> 2, rto |-> 5, maxRetries |-> 1,
   dupAckThreshold |-> 1, initialSsthresh |-> 3, timeWait |-> 4]
MCConfigs == {MCConfig}

\* More than any run of the model needs, as the code's budgets are meant to be.
AmpleBudget == [s \in Stages |-> 60]

\* A transfer budget of a few events: what 50 000 events are to a message of
\* more than some 16 000 segments, each taking a delivery, an ACK and an
\* rto_check.
TightBudget == [s \in Stages |-> IF s = "transfer" THEN 2 ELSE 60]
=============================================================================
