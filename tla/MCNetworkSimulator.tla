--------------------------- MODULE MCNetworkSimulator ---------------------------
(***************************************************************************)
(* Values of NetworkSimulator's constants for TLC.                         *)
(***************************************************************************)
EXTENDS NetworkSimulator

\* A calm path, and a small buffer with a lossy one on which jitter exceeds
\* the latency.
Calm  == [loss |-> "never", latency |-> 1, jitter |-> 0, bandwidth |-> 40000,
          bufferKb |-> 2, reorder |-> "sometimes"]
Rough == [loss |-> "sometimes", latency |-> 0, jitter |-> 1, bandwidth |-> 40000,
          bufferKb |-> 1, reorder |-> "never"]
CalmAndRough == {Calm, Rough}

MCChaos == [latencyMultiplier |-> 2, burstSize |-> 2, burstTrigger |-> "sometimes",
            reorderMultiplier |-> 3, bandwidthCap |-> 20000]
\* None, as in a new session, or two kept by a reset.
MCSwitches == {{}, {"burst_loss", "buffer_overflow"}}
=============================================================================
