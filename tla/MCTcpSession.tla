----------------------------- MODULE MCTcpSession -----------------------------
(***************************************************************************)
(* Values of TcpSession's constants for TLC.                               *)
(***************************************************************************)
EXTENDS StreamRefinement

MCInitialSeq == [client |-> 10, server |-> 30]

\* A retransmission timeout of 5 with delays of 1 and 3: a round trip takes
\* 2, 4 or 6, so a timeout may be spurious and packets overtake each other.
BaseConfig ==
  [mss |-> 2, initialCwnd |-> 2, rto |-> 5, maxRetries |-> 1,
   dupAckThreshold |-> 1, initialSsthresh |-> 3, timeWait |-> 4]

WideConfig == [BaseConfig EXCEPT !.initialCwnd = 3]

FasterConfig == [BaseConfig EXCEPT !.rto = 4, !.mss = 1, !.timeWait = 1]

OneConfig  == {BaseConfig}
WideOnly   == {WideConfig}
TwoConfigs == {BaseConfig, FasterConfig}
=============================================================================
