-------------------------- MODULE CongestionControl --------------------------
(***************************************************************************)
(* The Reno-style congestion controller of                                 *)
(* app/simulation/congestion_controller.py, as operators on its record     *)
(* [cwnd, ssthresh, phase]: one operator per method.                       *)
(*                                                                         *)
(* The code keeps the window as a float number of segments.  Here it is a  *)
(* whole number of 1/Unit segments, so that cwnd = k * Unit stands for k   *)
(* segments; 1/cwnd and cwnd/2 round down to that grid.                    *)
(***************************************************************************)
EXTENDS Integers

CONSTANT Unit          \* grid points per segment

ASSUME UnitAssumption == Unit \in Nat \ {0}

Phases == {"SLOW_START", "CONGESTION_AVOIDANCE", "FAST_RECOVERY"}

MinCwnd     == Unit
MinSsthresh == 2 * Unit

\* Reachable controller states: the window never falls under one segment,
\* nor the threshold under two.
Congestion == [cwnd     : {c \in Nat : c >= MinCwnd},
               ssthresh : {s \in Nat : s >= MinSsthresh},
               phase    : Phases]

Larger(a, b)  == IF a >= b THEN a ELSE b
Smaller(a, b) == IF a <= b THEN a ELSE b

InitCongestion(cwndSegments, ssthreshSegments) ==
  [cwnd |-> cwndSegments * Unit, ssthresh |-> ssthreshSegments * Unit,
   phase |-> "SLOW_START"]

\* cwnd += 1 / max(cwnd, 1), in grid points.
AdditiveStep(cwnd) == (Unit * Unit) \div Larger(cwnd, Unit)

\* An ACK in fast recovery: it ends recovery only when it is the one that
\* acknowledges the retransmitted segment.
OnAckInRecovery(c, isRecoveryAck) ==
  IF isRecoveryAck
  THEN [cwnd |-> c.ssthresh, ssthresh |-> c.ssthresh, phase |-> "CONGESTION_AVOIDANCE"]
  ELSE [c EXCEPT !.cwnd = @ + Unit]

\* Mutant of OnAckInSlowStart: slow start never ends.
OnAckInSlowStartForever(c) == [c EXCEPT !.cwnd = @ + Unit]

OnAckInSlowStart(c) ==
  [cwnd |-> c.cwnd + Unit, ssthresh |-> c.ssthresh,
   phase |-> IF c.cwnd + Unit >= c.ssthresh THEN "CONGESTION_AVOIDANCE" ELSE c.phase]

OnNewAck(c, isRecoveryAck) ==
  CASE c.phase = "FAST_RECOVERY" -> OnAckInRecovery(c, isRecoveryAck)
    [] c.phase = "SLOW_START"    -> OnAckInSlowStart(c)
    [] OTHER                     -> [c EXCEPT !.cwnd = @ + AdditiveStep(@)]

OnDuplicateAckDuringRecovery(c) ==
  IF c.phase = "FAST_RECOVERY" THEN [c EXCEPT !.cwnd = @ + Unit] ELSE c

HalfWindow(c) == Larger(c.cwnd \div 2, MinSsthresh)

OnFastRetransmit(c) ==
  [cwnd |-> HalfWindow(c) + 3 * Unit, ssthresh |-> HalfWindow(c),
   phase |-> "FAST_RECOVERY"]

OnTimeout(c) ==
  [cwnd |-> MinCwnd, ssthresh |-> HalfWindow(c), phase |-> "SLOW_START"]

\* Python's round(): to the nearest whole segment, ties to the even one.
RoundHalfEven(c) ==
  LET whole == c \div Unit
      twice == 2 * (c % Unit)
  IN  IF twice > Unit \/ (twice = Unit /\ whole % 2 = 1) THEN whole + 1 ELSE whole

\* How many segments may be in flight: max(1, round(cwnd_segments)).
Window(c) == Larger(1, RoundHalfEven(c.cwnd))

\* Where the window stands in each phase, for a controller configured with
\* this window and threshold: under the threshold in slow start (unless it has
\* not moved from a configured start, which may lie above), at or above it in
\* congestion avoidance, and inflated by the three duplicate ACKs in recovery.
PhaseFits(c, cwndSegments, ssthreshSegments) ==
  CASE c.phase = "SLOW_START" ->
         c.cwnd < c.ssthresh \/ c = InitCongestion(cwndSegments, ssthreshSegments)
    [] c.phase = "CONGESTION_AVOIDANCE" -> c.cwnd >= c.ssthresh
    [] c.phase = "FAST_RECOVERY"        -> c.cwnd >= c.ssthresh + 3 * Unit

=============================================================================
