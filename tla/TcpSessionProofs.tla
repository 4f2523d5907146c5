--------------------------- MODULE TcpSessionProofs ---------------------------
(***************************************************************************)
(* What every method of the congestion controller and the retransmission   *)
(* manager preserves, whatever the grid; and from it the type correctness  *)
(* of the session, and with that the phase of every controller and the     *)
(* timer of every packet in flight, for all configurations, delays,        *)
(* message lengths and bounds.                                             *)
(***************************************************************************)
EXTENDS TcpSession, FiniteSetTheorems, SequenceTheorems, TLAPS

-----------------------------------------------------------------------------
(* The congestion controller.                                               *)

\* A quotient of naturals is a natural.
LEMMA QuotientIsNat ==
  ASSUME NEW a \in Nat, NEW b \in Nat \ {0}
  PROVE  a \div b \in Nat
  OBVIOUS

\* The controller a session starts with, from a configuration within bounds.
LEMMA InitCongestionType ==
  ASSUME NEW w \in Nat \ {0}, NEW s \in Nat \ {0, 1}
  PROVE  InitCongestion(w, s) \in Congestion
  <1>1. w * Unit \in Nat /\ w * Unit >= Unit
    BY UnitAssumption
  <1>2. s * Unit \in Nat /\ s * Unit >= 2 * Unit
    BY UnitAssumption
  <1> QED
    BY <1>1, <1>2 DEF InitCongestion, Congestion, Phases, MinCwnd, MinSsthresh

\* Half a window, but never under two segments.
LEMMA HalfWindowType ==
  ASSUME NEW c \in Congestion
  PROVE  HalfWindow(c) \in Nat /\ HalfWindow(c) >= MinSsthresh
  <1>1. c.cwnd \div 2 \in Nat
    BY QuotientIsNat DEF Congestion
  <1> QED
    BY <1>1, UnitAssumption DEF HalfWindow, Larger, MinSsthresh

\* The additive increase is a natural number of grid points.
LEMMA AdditiveStepType ==
  ASSUME NEW w \in Nat
  PROVE  AdditiveStep(w) \in Nat
  <1>1. Unit * Unit \in Nat /\ Larger(w, Unit) \in Nat \ {0}
    BY UnitAssumption DEF Larger
  <1> QED
    BY <1>1, QuotientIsNat DEF AdditiveStep

\* on_new_ack keeps the controller within its type.
LEMMA OnNewAckType ==
  ASSUME NEW c \in Congestion, NEW b \in BOOLEAN
  PROVE  OnNewAck(c, b) \in Congestion
  <1>1. c.cwnd \in Nat /\ c.cwnd >= Unit /\ c.ssthresh \in Nat /\ c.ssthresh >= 2 * Unit
    BY DEF Congestion, MinCwnd, MinSsthresh
  <1>2. OnAckInRecovery(c, b) \in Congestion
    <2>1. [cwnd |-> c.ssthresh, ssthresh |-> c.ssthresh,
           phase |-> "CONGESTION_AVOIDANCE"] \in Congestion
      BY <1>1, UnitAssumption DEF Congestion, Phases, MinCwnd, MinSsthresh
    <2>2. [c EXCEPT !.cwnd = @ + Unit] \in Congestion
      BY <1>1, UnitAssumption DEF Congestion, Phases, MinCwnd, MinSsthresh
    <2> QED
      BY <2>1, <2>2 DEF OnAckInRecovery
  <1>3. OnAckInSlowStart(c) \in Congestion
    <2>1. ASSUME NEW p \in Phases
          PROVE  [cwnd |-> c.cwnd + Unit, ssthresh |-> c.ssthresh, phase |-> p] \in Congestion
      BY <1>1, UnitAssumption DEF Congestion, MinCwnd, MinSsthresh
    <2>2. (IF c.cwnd + Unit >= c.ssthresh THEN "CONGESTION_AVOIDANCE" ELSE c.phase) \in Phases
      BY DEF Congestion, Phases
    <2> QED
      BY <2>1, <2>2 DEF OnAckInSlowStart
  <1>4. [c EXCEPT !.cwnd = @ + AdditiveStep(@)] \in Congestion
    <2>1. AdditiveStep(c.cwnd) \in Nat
      BY <1>1, AdditiveStepType
    <2> QED
      BY <1>1, <2>1, UnitAssumption DEF Congestion, MinCwnd, MinSsthresh
  <1> QED
    BY <1>2, <1>3, <1>4 DEF OnNewAck

\* So do window inflation, fast retransmit and timeout.
LEMMA OnDuplicateAckType ==
  ASSUME NEW c \in Congestion
  PROVE  OnDuplicateAckDuringRecovery(c) \in Congestion
  BY UnitAssumption DEF OnDuplicateAckDuringRecovery, Congestion, MinCwnd

LEMMA OnFastRetransmitType ==
  ASSUME NEW c \in Congestion
  PROVE  OnFastRetransmit(c) \in Congestion
  BY HalfWindowType, UnitAssumption
  DEF OnFastRetransmit, Congestion, Phases, MinCwnd, MinSsthresh

LEMMA OnTimeoutType ==
  ASSUME NEW c \in Congestion
  PROVE  OnTimeout(c) \in Congestion
  BY HalfWindowType, UnitAssumption
  DEF OnTimeout, Congestion, Phases, MinCwnd, MinSsthresh

\* The window in segments is at least one: a sender with nothing in flight
\* may always send.
LEMMA WindowType ==
  ASSUME NEW c \in Congestion
  PROVE  Window(c) \in Nat /\ Window(c) >= 1
  <1>1. c.cwnd \div Unit \in Nat
    BY QuotientIsNat, UnitAssumption DEF Congestion
  <1>2. RoundHalfEven(c.cwnd) \in Nat
    BY <1>1 DEF RoundHalfEven
  <1> QED
    BY <1>2 DEF Window, Larger

-----------------------------------------------------------------------------
\* PhaseFits holds at the start and survives every method.
LEMMA InitPhaseFits ==
  ASSUME NEW w, NEW s
  PROVE  PhaseFits(InitCongestion(w, s), w, s)
  BY DEF PhaseFits, InitCongestion

LEMMA OnNewAckPhase ==
  ASSUME NEW c \in Congestion, NEW b \in BOOLEAN, NEW w, NEW s, PhaseFits(c, w, s)
  PROVE  PhaseFits(OnNewAck(c, b), w, s)
  <1>1. c.cwnd \in Nat /\ c.ssthresh \in Nat
    BY DEF Congestion
  <1>2. CASE c.phase = "FAST_RECOVERY"
    <2>1. OnNewAck(c, b) = OnAckInRecovery(c, b)
      BY <1>2 DEF OnNewAck
    <2>2. CASE b
      <3>1. OnNewAck(c, b).phase = "CONGESTION_AVOIDANCE"
            /\ OnNewAck(c, b).cwnd = OnNewAck(c, b).ssthresh
            /\ OnNewAck(c, b).ssthresh = c.ssthresh
        BY <2>1, <2>2 DEF OnAckInRecovery, Congestion
      <3> QED
        BY <1>1, <3>1 DEF PhaseFits
    <2>3. CASE ~b
      <3>1. OnNewAck(c, b).phase = "FAST_RECOVERY"
            /\ OnNewAck(c, b).cwnd = c.cwnd + Unit
            /\ OnNewAck(c, b).ssthresh = c.ssthresh
        BY <2>1, <2>3, <1>2 DEF OnAckInRecovery, Congestion
      <3> QED
        BY <1>1, <1>2, <3>1, UnitAssumption DEF PhaseFits
    <2> QED
      BY <2>2, <2>3
  <1>3. CASE c.phase = "SLOW_START"
    <2>1. OnNewAck(c, b) = OnAckInSlowStart(c)
      BY <1>3 DEF OnNewAck
    <2>2. OnNewAck(c, b).cwnd = c.cwnd + Unit /\ OnNewAck(c, b).ssthresh = c.ssthresh
          /\ OnNewAck(c, b).phase = IF c.cwnd + Unit >= c.ssthresh
                                    THEN "CONGESTION_AVOIDANCE" ELSE "SLOW_START"
      BY <2>1, <1>3 DEF OnAckInSlowStart, Congestion
    <2>3. CASE c.cwnd + Unit >= c.ssthresh
      BY <1>1, <2>2, <2>3, UnitAssumption DEF PhaseFits
    <2>4. CASE ~(c.cwnd + Unit >= c.ssthresh)
      <3>1. OnNewAck(c, b).cwnd < OnNewAck(c, b).ssthresh
        BY <1>1, <2>2, <2>4, UnitAssumption
      <3> QED
        BY <2>2, <2>4, <3>1 DEF PhaseFits
    <2> QED
      BY <2>3, <2>4
  <1>4. CASE c.phase = "CONGESTION_AVOIDANCE"
    <2>1. AdditiveStep(c.cwnd) \in Nat
      BY AdditiveStepType, <1>1
    <2>2. OnNewAck(c, b).cwnd = c.cwnd + AdditiveStep(c.cwnd)
          /\ OnNewAck(c, b).ssthresh = c.ssthresh
          /\ OnNewAck(c, b).phase = "CONGESTION_AVOIDANCE"
      BY <1>4 DEF OnNewAck, Congestion
    <2> QED
      BY <1>1, <1>4, <2>1, <2>2 DEF PhaseFits
  <1> QED
    BY <1>2, <1>3, <1>4 DEF Congestion, Phases

LEMMA OnDuplicateAckPhase ==
  ASSUME NEW c \in Congestion, NEW w, NEW s, PhaseFits(c, w, s)
  PROVE  PhaseFits(OnDuplicateAckDuringRecovery(c), w, s)
  <1>1. CASE c.phase = "FAST_RECOVERY"
    <2>1. c.cwnd \in Nat /\ c.ssthresh \in Nat
      BY DEF Congestion
    <2>2. OnDuplicateAckDuringRecovery(c).cwnd = c.cwnd + Unit
          /\ OnDuplicateAckDuringRecovery(c).ssthresh = c.ssthresh
          /\ OnDuplicateAckDuringRecovery(c).phase = "FAST_RECOVERY"
      BY <1>1 DEF OnDuplicateAckDuringRecovery, Congestion
    <2> QED
      BY <1>1, <2>1, <2>2, UnitAssumption DEF PhaseFits
  <1>2. CASE c.phase # "FAST_RECOVERY"
    BY <1>2 DEF OnDuplicateAckDuringRecovery
  <1> QED
    BY <1>1, <1>2

LEMMA OnFastRetransmitPhase ==
  ASSUME NEW c \in Congestion, NEW w, NEW s
  PROVE  PhaseFits(OnFastRetransmit(c), w, s)
  BY HalfWindowType, UnitAssumption DEF OnFastRetransmit, PhaseFits

LEMMA OnTimeoutPhase ==
  ASSUME NEW c \in Congestion, NEW w, NEW s
  PROVE  PhaseFits(OnTimeout(c), w, s)
  BY HalfWindowType, UnitAssumption DEF OnTimeout, PhaseFits, MinCwnd, MinSsthresh

-----------------------------------------------------------------------------
(* The retransmission manager.                                              *)

\* The image of a finite set under a function is finite.
LEMMA FiniteImage ==
  ASSUME NEW S, IsFiniteSet(S), NEW f
  PROVE  IsFiniteSet({f[x] : x \in S})
  <1> DEFINE T == {f[x] : x \in S}
             g == [x \in S |-> f[x]]
  <1>1. g \in Surjection(S, T)
    BY DEF Surjection
  <1> QED
    BY <1>1, FS_Surjection

\* The packets of finitely many entries are finitely many.
LEMMA FinitePackets ==
  ASSUME NEW E, IsFiniteSet(E)
  PROVE  IsFiniteSet({e.pkt : e \in E})
  <1> DEFINE f == [e \in E |-> e.pkt]
  <1>1. IsFiniteSet({f[e] : e \in E})
    BY FiniteImage
  <1> QED
    BY <1>1

-----------------------------------------------------------------------------
\* register_sent keeps the manager within its type, and finite.
LEMMA RegisterSentType ==
  ASSUME NEW m \in Manager, NEW P \in SUBSET Packet, NEW t \in Nat
  PROVE  RegisterSent(m, P, t) \in Manager
  <1> DEFINE new == {[pkt |-> p, deadline |-> t + ManagerConfig.rto, retries |-> 0] : p \in P}
  <1>1. t + ManagerConfig.rto \in Nat
    BY ManagerConfigAssumption DEF TcpConfigs
  <1>2. new \subseteq Entry
    BY <1>1 DEF Entry
  <1> HIDE DEF new
  <1>3. RegisterSent(m, P, t) = [m EXCEPT !.inFlight = @ \cup new]
    BY DEF RegisterSent, new
  <1> QED
    BY <1>2, <1>3 DEF Manager

LEMMA RegisterSentFinite ==
  ASSUME NEW m \in Manager, NEW P, NEW t, IsFiniteSet(m.inFlight), IsFiniteSet(P)
  PROVE  IsFiniteSet(RegisterSent(m, P, t).inFlight)
  <1> DEFINE f == [p \in P |-> [pkt |-> p, deadline |-> t + ManagerConfig.rto, retries |-> 0]]
  <1>1. IsFiniteSet({f[p] : p \in P})
    BY FiniteImage
  <1>2. RegisterSent(m, P, t).inFlight = m.inFlight \cup {f[p] : p \in P}
    BY DEF RegisterSent, Manager
  <1> HIDE DEF f
  <1> QED
    BY <1>1, <1>2, FS_Union

\* cancel only takes entries away.
LEMMA CancelProperties ==
  ASSUME NEW m \in Manager, NEW ids
  PROVE  /\ Cancel(m, ids) \in Manager
         /\ Cancel(m, ids).inFlight = {e \in m.inFlight : e.pkt.id \notin ids}
         /\ Cancel(m, ids).lastAck = m.lastAck
         /\ IsFiniteSet(m.inFlight) => IsFiniteSet(Cancel(m, ids).inFlight)
  <1>1. Cancel(m, ids).inFlight = {e \in m.inFlight : e.pkt.id \notin ids}
    BY DEF Cancel, Manager
  <1>2. Cancel(m, ids) \in Manager /\ Cancel(m, ids).lastAck = m.lastAck
    BY DEF Cancel, Manager
  <1> QED
    BY <1>1, <1>2, FS_Subset

\* The packet chosen for a fast retransmit is a tracked one.
LEMMA FastRetransmitTargetProperties ==
  ASSUME NEW m \in Manager, NEW a
  PROVE  /\ FastRetransmitTarget(m, a) \subseteq {e.pkt : e \in m.inFlight}
         /\ FastRetransmitTarget(m, a) \in SUBSET Packet
         /\ IsFiniteSet(m.inFlight) => IsFiniteSet(FastRetransmitTarget(m, a))
  <1>1. FastRetransmitTarget(m, a) \subseteq {e.pkt : e \in m.inFlight}
    BY DEF FastRetransmitTarget, OldestUnacked
  <1>2. {e.pkt : e \in m.inFlight} \subseteq Packet
    BY DEF Manager, Entry
  <1> QED
    BY <1>1, <1>2, FinitePackets, FS_Subset

\* on_ack keeps the type and tracks nothing new.
LEMMA OnAckProperties ==
  ASSUME NEW m \in Manager, NEW a \in Nat \cup {NoAck}
  PROVE  /\ OnAck(m, a) \in Manager
         /\ OnAck(m, a).inFlight \subseteq m.inFlight
         /\ IsFiniteSet(m.inFlight) => IsFiniteSet(OnAck(m, a).inFlight)
  <1>1. CASE IsNewProgress(m, a)
    <2>1. OnAck(m, a) = [inFlight   |-> m.inFlight \ Acked(m, a),
                         lastAck    |-> a,
                         dupAcks    |-> 0,
                         recovering |-> IF IsRecoveryAck(m, a) THEN {} ELSE m.recovering]
      BY <1>1 DEF OnAck, IsDuplicateAck
    <2>2. m.inFlight \ Acked(m, a) \in SUBSET Entry
      <3>1. m.inFlight \in SUBSET Entry
        BY DEF Manager
      <3> QED
        BY <3>1
    <2>3. (IF IsRecoveryAck(m, a) THEN {} ELSE m.recovering) \in SUBSET Nat
      BY DEF Manager
    <2>4. OnAck(m, a).inFlight \subseteq m.inFlight
      BY <2>1
    <2>5. OnAck(m, a) \in Manager
      BY <2>1, <2>2, <2>3 DEF Manager
    <2> QED
      BY <2>4, <2>5, FS_Subset
  <1>2. CASE ~IsNewProgress(m, a) /\ IsDuplicateAck(m, a)
    <2> DEFINE rec == IF TriggersFastRetransmit(m, a)
                      THEN Ids(OldestUnacked(m)) ELSE m.recovering
    <2>1. OnAck(m, a) = [m EXCEPT !.dupAcks = @ + 1, !.recovering = rec]
      BY <1>2 DEF OnAck
    <2>2. rec \in SUBSET Nat
      BY DEF Ids, OldestUnacked, Manager, Entry, Packet
    <2> HIDE DEF rec
    <2>3. OnAck(m, a) = [inFlight |-> m.inFlight, lastAck |-> m.lastAck,
                         dupAcks |-> m.dupAcks + 1, recovering |-> rec]
      BY <2>1 DEF Manager
    <2> QED
      BY <2>2, <2>3 DEF Manager
  <1>3. CASE ~IsNewProgress(m, a) /\ ~IsDuplicateAck(m, a)
    BY <1>3 DEF OnAck
  <1> QED
    BY <1>1, <1>2, <1>3

\* check_timeouts keeps the type; what it hands back is tracked and finite.
LEMMA TimedOutPacketsProperties ==
  ASSUME NEW m \in Manager, NEW t
  PROVE  /\ TimedOutPackets(m, t) \in SUBSET Packet
         /\ IsFiniteSet(m.inFlight) => IsFiniteSet(TimedOutPackets(m, t))
  <1>1. {f \in Expired(m, t) : ~Exceeded(f)} \subseteq m.inFlight
    BY DEF Expired
  <1>2. TimedOutPackets(m, t) \in SUBSET Packet
    BY <1>1 DEF TimedOutPackets, Manager, Entry
  <1>3. IsFiniteSet(m.inFlight) => IsFiniteSet(TimedOutPackets(m, t))
    BY <1>1, FS_Subset, FinitePackets DEF TimedOutPackets
  <1> QED
    BY <1>2, <1>3

LEMMA CheckTimeoutsProperties ==
  ASSUME NEW m \in Manager, NEW t \in Nat
  PROVE  /\ CheckTimeouts(m, t) \in Manager
         /\ IsFiniteSet(m.inFlight) => IsFiniteSet(CheckTimeouts(m, t).inFlight)
  <1> DEFINE late == {f \in Expired(m, t) : ~Exceeded(f)}
             bump == [e \in late |->
                        [e EXCEPT !.retries = @ + 1, !.deadline = t + ManagerConfig.rto]]
             kept == {e \in m.inFlight : e \notin Expired(m, t)}
  <1>1. t + ManagerConfig.rto \in Nat
    BY ManagerConfigAssumption DEF TcpConfigs
  <1>2. late \subseteq m.inFlight /\ kept \subseteq m.inFlight /\ m.inFlight \subseteq Entry
    BY DEF Expired, Manager
  <1>3. {bump[e] : e \in late} \subseteq Entry
    <2> SUFFICES ASSUME NEW e \in late PROVE bump[e] \in Entry
      OBVIOUS
    <2>1. e \in Entry
      BY <1>2
    <2>2. bump[e] = [pkt |-> e.pkt, deadline |-> t + ManagerConfig.rto, retries |-> e.retries + 1]
      BY <2>1 DEF Entry
    <2> QED
      BY <1>1, <2>1, <2>2 DEF Entry
  <1>4. CheckTimeouts(m, t) = [m EXCEPT !.inFlight = kept \cup {bump[e] : e \in late}]
    BY DEF CheckTimeouts
  <1>5. IsFiniteSet(m.inFlight) => IsFiniteSet({bump[e] : e \in late})
    <2>1. IsFiniteSet(m.inFlight) => IsFiniteSet(late)
      BY <1>2, FS_Subset
    <2> HIDE DEF late, bump
    <2> QED
      BY <2>1, FiniteImage
  <1> HIDE DEF late, bump, kept
  <1>6. CheckTimeouts(m, t) \in Manager
    BY <1>2, <1>3, <1>4 DEF Manager
  <1>7. CheckTimeouts(m, t).inFlight = kept \cup {bump[e] : e \in late}
    BY <1>4 DEF Manager
  <1>8. IsFiniteSet(m.inFlight) => IsFiniteSet(kept)
    BY <1>2, FS_Subset
  <1>9. ASSUME IsFiniteSet(m.inFlight)
        PROVE  IsFiniteSet(CheckTimeouts(m, t).inFlight)
    <2>1. IsFiniteSet({bump[e] : e \in late}) /\ IsFiniteSet(kept)
      BY <1>5, <1>8, <1>9
    <2> HIDE DEF late, bump, kept
    <2> QED
      BY <1>7, <2>1, FS_Union
  <1> QED
    BY <1>6, <1>9

-----------------------------------------------------------------------------
\* What on_ack and check_timeouts do to the congestion controller keeps its
\* type and its phase in step with its window.
LEMMA OnAckCongestionProperties ==
  ASSUME NEW m \in Manager, NEW c \in Congestion, NEW a, NEW w, NEW s
  PROVE  /\ OnAckCongestion(m, c, a) \in Congestion
         /\ PhaseFits(c, w, s) => PhaseFits(OnAckCongestion(m, c, a), w, s)
  <1>1. IsRecoveryAck(m, a) \in BOOLEAN
    BY DEF IsRecoveryAck
  <1>2. /\ OnNewAck(c, IsRecoveryAck(m, a)) \in Congestion
        /\ PhaseFits(c, w, s) => PhaseFits(OnNewAck(c, IsRecoveryAck(m, a)), w, s)
    BY <1>1, OnNewAckType, OnNewAckPhase
  <1>3. /\ OnFastRetransmit(c) \in Congestion
        /\ PhaseFits(OnFastRetransmit(c), w, s)
    BY OnFastRetransmitType, OnFastRetransmitPhase
  <1>4. /\ OnDuplicateAckDuringRecovery(c) \in Congestion
        /\ PhaseFits(c, w, s) => PhaseFits(OnDuplicateAckDuringRecovery(c), w, s)
    BY OnDuplicateAckType, OnDuplicateAckPhase
  <1> QED
    BY <1>2, <1>3, <1>4 DEF OnAckCongestion

LEMMA TimeoutsCongestionProperties ==
  ASSUME NEW m, NEW c \in Congestion, NEW t, NEW w, NEW s
  PROVE  /\ TimeoutsCongestion(m, c, t) \in Congestion
         /\ PhaseFits(c, w, s) => PhaseFits(TimeoutsCongestion(m, c, t), w, s)
  <1>1. OnTimeout(c) \in Congestion /\ PhaseFits(OnTimeout(c), w, s)
    BY OnTimeoutType, OnTimeoutPhase
  <1>2. OnTimeout(OnTimeout(c)) \in Congestion /\ PhaseFits(OnTimeout(OnTimeout(c)), w, s)
    BY <1>1, OnTimeoutType, OnTimeoutPhase
  <1> QED
    BY <1>1, <1>2 DEF TimeoutsCongestion

-----------------------------------------------------------------------------
(* The session.                                                             *)

SegmentRecords == [offset : Nat, len : Nat \ {0}]

\* Offsets never go back along a message: what keeps the sequence numbers of
\* new data, computed as differences of offsets, from becoming negative.
Ordered(segs) ==
  \A i, j \in 1 .. Len(segs) : i <= j => segs[i].offset <= segs[j].offset

\* The inductive invariant behind TypeOK: nothing opens before start, and
\* the segments of the current message are in order.
TypeInv ==
  /\ TypeOK
  /\ Ordered(segments)
  /\ ~started => \A r \in Roles : state[r] = "CLOSED"

-----------------------------------------------------------------------------
(* Segmentation.                                                            *)

LEMMA ProductMonotone ==
  ASSUME NEW a \in Int, NEW b \in Int, NEW c \in Nat, a <= b
  PROVE  a * c <= b * c
  OBVIOUS

LEMMA QuotientBound ==
  ASSUME NEW a \in Nat, NEW b \in Nat \ {0}
  PROVE  (a \div b) * b <= a
  OBVIOUS

LEMMA QuotientCovers ==
  ASSUME NEW a \in Nat, NEW b \in Nat \ {0}
  PROVE  a <= ((a + b - 1) \div b) * b
  OBVIOUS

\* segment_message yields non-empty segments at growing offsets.
LEMMA SegmentProperties ==
  ASSUME NEW length \in Nat, NEW mss \in Nat \ {0}
  PROVE  /\ Segment(length, mss) \in Seq(SegmentRecords)
         /\ Ordered(Segment(length, mss))
  <1> DEFINE n == (length + mss - 1) \div mss
  <1>1. n \in Nat
    BY QuotientIsNat
  <1>2. n * mss <= length + mss - 1
    BY QuotientBound
  <1> HIDE DEF n
  <1>3. ASSUME NEW i \in 1 .. n
        PROVE  /\ (i - 1) * mss \in Nat
               /\ length - (i - 1) * mss \in Nat \ {0}
    <2>1. i * mss <= n * mss
      BY <1>1, ProductMonotone
    <2>2. (i - 1) * mss = i * mss - mss
      OBVIOUS
    <2>3. 0 * mss <= (i - 1) * mss
      BY ProductMonotone
    <2> QED
      BY <1>1, <1>2, <2>1, <2>2, <2>3
  <1>4. ASSUME NEW i \in 1 .. n
        PROVE  [offset |-> (i - 1) * mss,
                len |-> Smaller(mss, length - (i - 1) * mss)] \in SegmentRecords
    BY <1>3 DEF SegmentRecords, Smaller
  <1>5. Segment(length, mss) =
          [i \in 1 .. n |-> [offset |-> (i - 1) * mss,
                             len |-> Smaller(mss, length - (i - 1) * mss)]]
    BY DEF Segment, n
  <1>6. Segment(length, mss) \in [1 .. n -> SegmentRecords]
    BY <1>4, <1>5
  <1>7. Segment(length, mss) \in Seq(SegmentRecords) /\ Len(Segment(length, mss)) = n
    BY <1>1, <1>6
  <1>8. ASSUME NEW i \in 1 .. n, NEW j \in 1 .. n, i <= j
        PROVE  Segment(length, mss)[i].offset <= Segment(length, mss)[j].offset
    <2>1. (i - 1) * mss <= (j - 1) * mss
      BY <1>1, <1>8, ProductMonotone
    <2>2. \A k \in 1 .. n : Segment(length, mss)[k].offset = (k - 1) * mss
      BY <1>5
    <2> QED
      BY <2>1, <2>2
  <1> QED
    BY <1>7, <1>8 DEF Ordered

-----------------------------------------------------------------------------
(* What a handler may send.                                                 *)

\* Copies of finitely many packets are finitely many packets, whose fields
\* but the id are those of the originals.
LEMMA CopiesProperties ==
  ASSUME txCount \in Nat, NEW P \in SUBSET Packet, IsFiniteSet(P)
  PROVE  Copies(P) \in SUBSET Packet /\ IsFiniteSet(Copies(P))
  <1> DEFINE f == [p \in P |-> [p EXCEPT !.id = txCount + Cardinality({q \in P : q.id < p.id})]]
  <1>1. Copies(P) = {f[p] : p \in P}
    BY DEF Copies
  <1>2. ASSUME NEW p \in P PROVE f[p] \in Packet
    <2>1. Cardinality({q \in P : q.id < p.id}) \in Nat
      BY FS_Subset, FS_CardinalityType
    <2> QED
      BY <2>1 DEF Packet
  <1> HIDE DEF f
  <1> QED
    BY <1>1, <1>2, FiniteImage

\* The types of what _try_send_more_data reads.
SendTypes(m, c, segs, next) ==
  /\ m \in Manager /\ IsFiniteSet(m.inFlight) /\ c \in Congestion
  /\ segs \in Seq(SegmentRecords) /\ Ordered(segs)
  /\ next \in 1 .. Len(segs) + 1

\* It sends no more segments than are left.
LEMMA SendCountProperties ==
  ASSUME NEW m, NEW c, NEW segs, NEW next, SendTypes(m, c, segs, next)
  PROVE  SendCount(m, c, segs, next) \in 0 .. Len(segs) - next + 1
  <1>1. Window(c) \in Nat
    BY WindowType DEF SendTypes
  <1>2. Cardinality(m.inFlight) \in Nat
    BY FS_CardinalityType DEF SendTypes
  <1>3. Room(m, c) \in Nat
    BY <1>1, <1>2 DEF Room, Larger
  <1>4. Len(segs) \in Nat /\ next \in 1 .. Len(segs) + 1
    BY DEF SendTypes
  <1> QED
    BY <1>3, <1>4 DEF SendCount, Smaller

LEMMA DataPacketsProperties ==
  ASSUME txCount \in Nat, sndNxt["client"] \in Nat,
         NEW m, NEW c, NEW segs, NEW next, SendTypes(m, c, segs, next)
  PROVE  /\ DataPackets(m, c, segs, next) \in SUBSET Packet
         /\ IsFiniteSet(DataPackets(m, c, segs, next))
         /\ DataBytes(m, c, segs, next) \in Nat
  <1> DEFINE n == SendCount(m, c, segs, next)
             f == [k \in 0 .. n - 1 |->
                     NewPacket(txCount + k, "DATA",
                               sndNxt["client"] + segs[next + k].offset - segs[next].offset,
                               NoAck, segs[next + k].len, "client")]
  <1>1. n \in 0 .. Len(segs) - next + 1 /\ next \in 1 .. Len(segs) + 1 /\ Len(segs) \in Nat
    BY SendCountProperties DEF SendTypes
  <1>2. ASSUME NEW k \in 0 .. n - 1
        PROVE  /\ segs[next + k].offset - segs[next].offset \in Nat
               /\ segs[next + k].len \in Nat \ {0}
               /\ segs[next].offset \in Nat /\ segs[next + k].offset \in Nat
    <2>1. next + k \in 1 .. Len(segs) /\ next \in 1 .. Len(segs) /\ next <= next + k
      BY <1>1
    <2>2. segs[next] \in SegmentRecords /\ segs[next + k] \in SegmentRecords
      BY <2>1, ElementOfSeq DEF SendTypes
    <2>3. segs[next].offset <= segs[next + k].offset
      BY <2>1 DEF SendTypes, Ordered
    <2> QED
      BY <2>2, <2>3 DEF SegmentRecords
  <1>3. DataPackets(m, c, segs, next) = {f[k] : k \in 0 .. n - 1}
    BY DEF DataPackets
  <1>4. ASSUME NEW k \in 0 .. n - 1 PROVE f[k] \in Packet
    <2>1. sndNxt["client"] + segs[next + k].offset - segs[next].offset \in Nat
      BY <1>2
    <2>2. txCount + k \in Nat
      BY <1>1
    <2> QED
      BY <1>2, <2>1, <2>2 DEF NewPacket, Packet, Kinds, Roles
  <1>5. DataBytes(m, c, segs, next) \in Nat
    <2>1. CASE n = 0
      BY <2>1 DEF DataBytes
    <2>2. CASE n # 0
      <3>1. n - 1 \in 0 .. n - 1 /\ next + (n - 1) = next + n - 1
        BY <1>1, <2>2
      <3>2. segs[next + n - 1].offset - segs[next].offset \in Nat
            /\ segs[next + n - 1].len \in Nat /\ segs[next].offset \in Nat
            /\ segs[next + n - 1].offset \in Nat
        BY <1>2, <3>1
      <3>3. DataBytes(m, c, segs, next)
              = segs[next + n - 1].offset + segs[next + n - 1].len - segs[next].offset
        BY <2>2 DEF DataBytes
      <3> QED
        BY <3>2, <3>3
    <2> QED
      BY <2>1, <2>2
  <1>6. IsFiniteSet(0 .. n - 1)
    BY <1>1, FS_Interval
  <1> HIDE DEF f, n
  <1>7. IsFiniteSet({f[k] : k \in 0 .. n - 1})
    BY <1>6, FiniteImage
  <1>8. {f[k] : k \in 0 .. n - 1} \subseteq Packet
    BY <1>4
  <1> QED
    BY <1>3, <1>5, <1>7, <1>8

\* _transmit leaves the managers, the pending events and the counters typed.
LEMMA TransmitProperties ==
  ASSUME TypeOK, NEW r \in Roles, NEW m \in Manager, IsFiniteSet(m.inFlight),
         NEW out \in SUBSET Packet, IsFiniteSet(out),
         NEW onWire \in SUBSET Deliveries,
         NEW armed \in SUBSET (RtoTimers \cup TimeWaitTimers),
         NEW t \in Nat, Transmit(r, m, out, onWire, armed, t)
  PROVE  /\ mgr' \in [Roles -> Manager]
         /\ \A q \in Roles : IsFiniteSet(mgr'[q].inFlight)
         /\ wire' \subseteq Deliveries
         /\ timers' \subseteq RtoTimers \cup TimeWaitTimers
         /\ txCount' \in Nat /\ losses' \in Nat
  <1> DEFINE tracked == {p \in out : NeedsAckTracking(p)}
  <1>1. PICK fate \in [out -> Delays \cup {Lost}] :
          /\ mgr' = [mgr EXCEPT ![r] = RegisterSent(m, tracked, t)]
          /\ timers' = armed \cup {RtoEvent(p, t + ManagerConfig.rto) : p \in tracked}
          /\ wire' = onWire \cup {DeliveryEvent(p, t + fate[p]) :
                                    p \in out \ {p \in out : fate[p] = Lost}}
          /\ txCount' = txCount + Cardinality(out)
          /\ losses' = losses + Cardinality({p \in out : fate[p] = Lost})
    BY DEF Transmit
  <1>2. t + ManagerConfig.rto \in Nat
    BY ManagerConfigAssumption DEF TcpConfigs
  <1>3. tracked \in SUBSET Packet /\ IsFiniteSet(tracked)
    BY FS_Subset
  <1>4. RegisterSent(m, tracked, t) \in Manager
        /\ IsFiniteSet(RegisterSent(m, tracked, t).inFlight)
    BY <1>3, RegisterSentType, RegisterSentFinite
  <1>5. mgr' \in [Roles -> Manager] /\ \A q \in Roles : IsFiniteSet(mgr'[q].inFlight)
    BY <1>1, <1>4 DEF TypeOK
  <1>6. timers' \subseteq RtoTimers \cup TimeWaitTimers
    <2>1. {RtoEvent(p, t + ManagerConfig.rto) : p \in tracked} \subseteq RtoTimers
      BY <1>2, <1>3 DEF RtoEvent, RtoTimers, Packet
    <2> QED
      BY <1>1, <2>1
  <1>7. wire' \subseteq Deliveries
    <2>1. ASSUME NEW p \in out, fate[p] # Lost
          PROVE  DeliveryEvent(p, t + fate[p]) \in Deliveries
      <3>1. t + fate[p] \in Nat
        <4>1. fate[p] \in Delays \cup {Lost}
          OBVIOUS
        <4>2. Delays \cup {Lost} \subseteq Nat
          BY SessionAssumption DEF Lost
        <4> QED
          BY <4>1, <4>2
      <3> QED
        BY <3>1 DEF DeliveryEvent, Deliveries, Packet
    <2> QED
      BY <1>1, <2>1
  <1>8. txCount' \in Nat /\ losses' \in Nat
    <2>1. Cardinality(out) \in Nat /\ Cardinality({p \in out : fate[p] = Lost}) \in Nat
      BY FS_Subset, FS_CardinalityType
    <2> QED
      BY <1>1, <2>1 DEF TypeOK
  <1> QED
    BY <1>5, <1>6, <1>7, <1>8

\* The counter alone, for events whose place in the queue depends on it.
LEMMA TransmitCount ==
  ASSUME TypeOK, NEW r, NEW m, NEW out, IsFiniteSet(out), NEW onWire, NEW armed, NEW t,
         Transmit(r, m, out, onWire, armed, t)
  PROVE  txCount' \in Nat
  BY FS_CardinalityType DEF Transmit, TypeOK

-----------------------------------------------------------------------------
(* ACK bookkeeping.                                                         *)

\* The manager, the controller and the output of an ACK's bookkeeping.
LEMMA AckStepProperties ==
  ASSUME TypeInv, NEW r \in Roles, NEW p \in Packet
  PROVE  /\ SendTypes(AckedManager(r, p), AckedCongestion(r, p), segments, nextSeg)
         /\ AckedOutput(r, p) \in SUBSET Packet
         /\ IsFiniteSet(AckedOutput(r, p))
  <1>1. /\ mgr[r] \in Manager /\ IsFiniteSet(mgr[r].inFlight) /\ cong[r] \in Congestion
        /\ p.ack \in Nat \cup {NoAck}
    BY DEF TypeInv, TypeOK, Packet
  <1>2. OnAck(mgr[r], p.ack) \in Manager /\ IsFiniteSet(OnAck(mgr[r], p.ack).inFlight)
    BY <1>1, OnAckProperties
  <1>3. AckedManager(r, p) \in Manager /\ IsFiniteSet(AckedManager(r, p).inFlight)
    BY <1>2, CancelProperties DEF AckedManager
  <1>4. AckedCongestion(r, p) \in Congestion
    BY <1>1, OnAckCongestionProperties DEF AckedCongestion
  <1>5. SendTypes(AckedManager(r, p), AckedCongestion(r, p), segments, nextSeg)
    BY <1>3, <1>4 DEF SendTypes, TypeInv, TypeOK, SegmentRecords
  <1>6. txCount \in Nat /\ sndNxt["client"] \in Nat
    BY DEF TypeInv, TypeOK, Roles
  <1>7. CASE Resumes(r, p)
    BY <1>5, <1>6, <1>7, DataPacketsProperties DEF AckedOutput
  <1>8. CASE ~Resumes(r, p)
    <2>1. FastRetransmitTarget(mgr[r], p.ack) \in SUBSET Packet
          /\ IsFiniteSet(FastRetransmitTarget(mgr[r], p.ack))
      BY <1>1, FastRetransmitTargetProperties
    <2> QED
      BY <1>5, <1>6, <1>8, <2>1, CopiesProperties DEF AckedOutput
  <1> QED
    BY <1>7, <1>8

\* The variables the bookkeeping sets.
LEMMA AckBookkeepingProperties ==
  ASSUME TypeInv, NEW r \in Roles, NEW p \in Packet, AckBookkeeping(r, p)
  PROVE  /\ cong' \in [Roles -> Congestion]
         /\ sndUna' \in [Roles -> Nat] /\ sndNxt' \in [Roles -> Nat]
         /\ nextSeg' \in 1 .. Len(segments) + 1
  <1> DEFINE m == AckedManager(r, p)
             c == AckedCongestion(r, p)
  <1>1. SendTypes(m, c, segments, nextSeg)
    BY AckStepProperties
  <1>2. /\ SendCount(m, c, segments, nextSeg) \in 0 .. Len(segments) - nextSeg + 1
        /\ Len(segments) \in Nat /\ nextSeg \in 1 .. Len(segments) + 1
    BY <1>1, SendCountProperties DEF SendTypes
  <1>3. txCount \in Nat /\ sndNxt \in [Roles -> Nat] /\ "client" \in Roles
    BY DEF TypeInv, TypeOK, Roles
  <1>4. DataBytes(m, c, segments, nextSeg) \in Nat
    BY <1>1, <1>3, DataPacketsProperties
  <1>5. c \in Congestion
    BY <1>1 DEF SendTypes
  <1>6. cong' = [cong EXCEPT ![r] = c]
        /\ sndUna' = (IF Acked(mgr[r], p.ack) # {}
                      THEN [sndUna EXCEPT ![r] = Larger(@, p.ack)] ELSE sndUna)
        /\ nextSeg' = (IF Resumes(r, p)
                       THEN nextSeg + SendCount(m, c, segments, nextSeg) ELSE nextSeg)
        /\ sndNxt' = (IF Resumes(r, p)
                      THEN [sndNxt EXCEPT ![r] = @ + DataBytes(m, c, segments, nextSeg)]
                      ELSE sndNxt)
    BY DEF AckBookkeeping
  <1> HIDE DEF m, c
  <1>7. cong' \in [Roles -> Congestion]
    BY <1>5, <1>6 DEF TypeInv, TypeOK
  <1>8. sndUna' \in [Roles -> Nat]
    <2>1. sndUna \in [Roles -> Nat] /\ p.ack \in Nat \cup {NoAck}
      BY DEF TypeInv, TypeOK, Packet
    <2>2. Larger(sndUna[r], p.ack) \in Nat
      BY <2>1 DEF Larger, NoAck
    <2> QED
      BY <1>6, <2>1, <2>2
  <1>9. sndNxt' \in [Roles -> Nat]
    BY <1>3, <1>4, <1>6
  <1>10. nextSeg' \in 1 .. Len(segments) + 1
    BY <1>2, <1>6
  <1> QED
    BY <1>7, <1>8, <1>9, <1>10

-----------------------------------------------------------------------------
(* Type correctness.                                                        *)

\* A transition that can_apply allows leads to a state.
LEMMA ApplyType ==
  ASSUME NEW s, NEW t, CanApply(s, t)
  PROVE  Apply(s, t) \in States
  BY DEF CanApply, Apply, Transition, States

\* A function stays in its type when one value is replaced by one of it.
LEMMA UpdateType ==
  ASSUME NEW S, NEW T, NEW f \in [S -> T], NEW x, NEW v \in T
  PROVE  [f EXCEPT ![x] = v] \in [S -> T]
  OBVIOUS

\* The types of one pending delivery and of one timer.
LEMMA DeliveryType ==
  ASSUME TypeOK, NEW w \in wire
  PROVE  /\ w.due \in Nat /\ w.pkt \in Packet
         /\ Peer(w.pkt.src) \in Roles /\ wire \ {w} \in SUBSET Deliveries
         /\ w.pkt.seq \in Nat /\ w.pkt.len \in Nat
  <1>1. w \in Deliveries
    BY DEF TypeOK
  <1> QED
    BY <1>1 DEF TypeOK, Deliveries, Packet, Peer, Roles

LEMMA TimerType ==
  ASSUME TypeOK, NEW e \in timers
  PROVE  /\ e.due \in Nat /\ e.role \in Roles
         /\ timers \ {e} \in SUBSET (RtoTimers \cup TimeWaitTimers)
  <1>1. e \in RtoTimers \cup TimeWaitTimers
    BY DEF TypeOK
  <1> QED
    BY <1>1 DEF TypeOK, RtoTimers, TimeWaitTimers

LEMMA TimeWaitEventType ==
  ASSUME TypeOK, txCount' \in Nat, NEW r \in Roles, NEW t \in Nat
  PROVE  TimeWaitEvent(r, t + tcpConfig.timeWait) \in TimeWaitTimers
  <1>1. tcpConfig \in TcpConfigs
    BY SessionAssumption DEF TypeOK
  <1>2. t + tcpConfig.timeWait \in Nat
    BY <1>1 DEF TcpConfigs
  <1> QED
    BY <1>2 DEF TimeWaitEvent, TimeWaitTimers

LEMMA InitTypeInv == Init => TypeInv
  <1> SUFFICES ASSUME Init PROVE TypeInv
    OBVIOUS
  <1>1. InitManager \in Manager /\ InitManager.inFlight = {}
    BY DEF InitManager, Manager
  <1>2. InitCongestion(ManagerConfig.initialCwnd, ManagerConfig.initialSsthresh) \in Congestion
    BY InitCongestionType, ManagerConfigAssumption DEF TcpConfigs
  <1>3. mgr \in [Roles -> Manager] /\ \A r \in Roles : IsFiniteSet(mgr[r].inFlight)
    BY <1>1, FS_EmptySet DEF Init
  <1>4. cong \in [Roles -> Congestion]
    BY <1>2 DEF Init
  <1>5. segments \in Seq(SegmentRecords) /\ nextSeg \in 1 .. Len(segments) + 1
        /\ Ordered(segments)
    BY DEF Init, Ordered
  <1>6. accepted \in Seq([seq : Nat, len : Nat])
    BY DEF Init
  <1>7. state \in [Roles -> States] /\ (\A r \in Roles : state[r] = "CLOSED")
        /\ tcpConfig \in Configs
    BY SessionAssumption DEF Init, States
  <1> QED
    BY <1>3, <1>4, <1>5, <1>6, <1>7 DEF Init, TypeInv, TypeOK, SegmentRecords

LEMMA StepTypeInv == TypeInv /\ [Next]_vars => TypeInv'
  <1> SUFFICES ASSUME TypeInv, [Next]_vars PROVE TypeInv'
    OBVIOUS
  <1> USE DEF TypeInv
  <1>roles. "client" \in Roles /\ "server" \in Roles /\ (\A r \in Roles : r = "client" \/ r = "server")
    BY DEF Roles
  <1>mgrs. \A r \in Roles : mgr[r] \in Manager /\ IsFiniteSet(mgr[r].inFlight)
    BY DEF TypeOK
  <1>seqs. /\ InitialSeq["client"] \in Nat /\ InitialSeq["server"] \in Nat
           /\ sndNxt \in [Roles -> Nat] /\ rcvNxt \in [Roles -> Nat] /\ txCount \in Nat
    BY SessionAssumption, <1>roles DEF TypeOK
  <1>pending. wire \in SUBSET Deliveries /\ timers \in SUBSET (RtoTimers \cup TimeWaitTimers)
              /\ now \in Nat
    BY DEF TypeOK
  <1>empty. {} \in SUBSET Packet /\ IsFiniteSet({})
    BY FS_EmptySet
  <1>one. \A p : IsFiniteSet({p})
    BY FS_Singleton
  <1>1. CASE Start
    <2> DEFINE syn == NewPacket(txCount, "SYN", InitialSeq["client"], NoAck, 0, "client")
    <2>1. {syn} \in SUBSET Packet
      BY <1>seqs, <1>roles DEF NewPacket, Packet, Kinds
    <2>2. Transmit("client", mgr["client"], {syn}, wire, timers, now)
      BY <1>1 DEF Start
    <2> HIDE DEF syn
    <2>3. /\ mgr' \in [Roles -> Manager] /\ \A q \in Roles : IsFiniteSet(mgr'[q].inFlight)
          /\ wire' \subseteq Deliveries /\ timers' \subseteq RtoTimers \cup TimeWaitTimers
          /\ txCount' \in Nat /\ losses' \in Nat
      BY <2>1, <2>2, <1>one, <1>mgrs, <1>roles, <1>pending, TransmitProperties
    <2>4. state' \in [Roles -> States] /\ started' = TRUE
      BY <1>1, <1>roles DEF Start, Apply, Transition, States, Roles
    <2>5. sndNxt' \in [Roles -> Nat] /\ sndUna' \in [Roles -> Nat]
      <3>1. sndUna \in [Roles -> Nat]
        BY DEF TypeOK
      <3>2. /\ sndNxt' = [sndNxt EXCEPT !["client"] = InitialSeq["client"] + 1]
            /\ sndUna' = [sndUna EXCEPT !["client"] = InitialSeq["client"]]
        BY <1>1 DEF Start
      <3>3. InitialSeq["client"] + 1 \in Nat
        BY <1>seqs
      <3> QED
        BY <3>1, <3>2, <3>3, <1>seqs, UpdateType
    <2> QED
      BY <1>1, <2>3, <2>4, <2>5 DEF Start, TypeOK, sending
  <1>2. ASSUME NEW length \in MessageLengths, Send(length)
        PROVE  TypeInv'
    <2> DEFINE segs == Segment(length, tcpConfig.mss)
               m == mgr["client"]
               c == cong["client"]
    <2>1. segs \in Seq(SegmentRecords) /\ Ordered(segs)
      <3>1. length \in Nat /\ tcpConfig \in TcpConfigs
        BY SessionAssumption DEF TypeOK
      <3>2. tcpConfig.mss \in Nat \ {0}
        BY <3>1 DEF TcpConfigs
      <3> QED
        BY <3>1, <3>2, SegmentProperties
    <2>2. SendTypes(m, c, segs, 1)
      BY <2>1, <1>mgrs, <1>roles DEF SendTypes, TypeOK
    <2>3. SendCount(m, c, segs, 1) \in 0 .. Len(segs)
      BY <2>1, <2>2, SendCountProperties
    <2>4. /\ DataPackets(m, c, segs, 1) \in SUBSET Packet
          /\ IsFiniteSet(DataPackets(m, c, segs, 1))
          /\ DataBytes(m, c, segs, 1) \in Nat
      BY <2>2, <1>seqs, <1>roles, DataPacketsProperties
    <2>5. /\ Transmit("client", m, DataPackets(m, c, segs, 1), wire, timers, now)
          /\ segments' = segs /\ nextSeg' = 1 + SendCount(m, c, segs, 1)
          /\ sndNxt' = [sndNxt EXCEPT !["client"] = @ + DataBytes(m, c, segs, 1)]
          /\ messages' = messages + 1
          /\ UNCHANGED <<started, state, sndUna, rcvNxt, accepted, announced,
                         cong, now, tcpConfig, updates>>
      BY <1>2 DEF Send
    <2> HIDE DEF segs, m, c
    <2>6. /\ mgr' \in [Roles -> Manager] /\ \A q \in Roles : IsFiniteSet(mgr'[q].inFlight)
          /\ wire' \subseteq Deliveries /\ timers' \subseteq RtoTimers \cup TimeWaitTimers
          /\ txCount' \in Nat /\ losses' \in Nat
      BY <2>2, <2>4, <2>5, <1>roles, <1>pending, TransmitProperties DEF SendTypes
    <2>7. /\ segments' \in Seq(SegmentRecords) /\ Ordered(segments')
          /\ nextSeg' \in 1 .. Len(segments') + 1
      BY <2>1, <2>3, <2>5
    <2>8. sndNxt' \in [Roles -> Nat]
      <3>1. sndNxt["client"] + DataBytes(m, c, segs, 1) \in Nat
        BY <2>4, <1>seqs, <1>roles
      <3> QED
        BY <2>5, <3>1, <1>seqs, UpdateType
    <2>9. messages' \in Nat
      BY <2>5 DEF TypeOK
    <2> QED
      BY <2>5, <2>6, <2>7, <2>8, <2>9 DEF TypeOK, SegmentRecords
  <1>3. CASE Close
    <2> DEFINE fin == NewPacket(txCount, "FIN", sndNxt["client"], NoAck, 0, "client")
    <2>1. {fin} \in SUBSET Packet
      BY <1>seqs, <1>roles DEF NewPacket, Packet, Kinds
    <2>2. Transmit("client", mgr["client"], {fin}, wire, timers, now)
      BY <1>3 DEF Close
    <2> HIDE DEF fin
    <2>3. /\ mgr' \in [Roles -> Manager] /\ \A q \in Roles : IsFiniteSet(mgr'[q].inFlight)
          /\ wire' \subseteq Deliveries /\ timers' \subseteq RtoTimers \cup TimeWaitTimers
          /\ txCount' \in Nat /\ losses' \in Nat
      BY <2>1, <2>2, <1>one, <1>mgrs, <1>roles, <1>pending, TransmitProperties
    <2>4. state' \in [Roles -> States] /\ (~started => state' = state)
      BY <1>3, <1>roles DEF Close, Apply, Transition, States, TypeOK
    <2>5. sndNxt' \in [Roles -> Nat]
      <3>1. sndNxt["client"] + 1 \in Nat
        BY <1>seqs, <1>roles
      <3>2. sndNxt' = [sndNxt EXCEPT !["client"] = @ + 1]
        BY <1>3 DEF Close
      <3> QED
        BY <3>1, <3>2, <1>seqs, UpdateType
    <2> QED
      BY <1>3, <2>3, <2>4, <2>5 DEF Close, TypeOK, sending
  <1>4. CASE UpdateTcpConfig
    BY <1>4 DEF UpdateTcpConfig, TypeOK, endpoints, network, sending
  <1>5. CASE DeliverSyn
    <2>1. PICK w \in wire :
            LET p == w.pkt
                synAck == NewPacket(txCount, "SYN_ACK", InitialSeq["server"], p.seq + 1, 0, "server")
            IN  /\ now' = w.due
                /\ \/ /\ CanApply(state["server"], "RECV_SYN")
                      /\ state' = [state EXCEPT !["server"] = Apply(@, "RECV_SYN")]
                      /\ rcvNxt' = [rcvNxt EXCEPT !["server"] = p.seq + 1]
                      /\ sndNxt' = [sndNxt EXCEPT !["server"] = InitialSeq["server"] + 1]
                      /\ sndUna' = [sndUna EXCEPT !["server"] = InitialSeq["server"]]
                      /\ Transmit("server", mgr["server"], {synAck}, wire \ {w}, timers, w.due)
                   \/ /\ UNCHANGED <<state, rcvNxt, sndNxt, sndUna>>
                      /\ Transmit("server", mgr["server"], {}, wire \ {w}, timers, w.due)
      BY <1>5 DEF DeliverSyn, Delivering
    <2> DEFINE synAck == NewPacket(txCount, "SYN_ACK", InitialSeq["server"], w.pkt.seq + 1, 0, "server")
    <2>2. w.due \in Nat /\ w.pkt.seq \in Nat /\ wire \ {w} \in SUBSET Deliveries
      BY DeliveryType
    <2>3. {synAck} \in SUBSET Packet
      BY <2>2, <1>seqs, <1>roles DEF NewPacket, Packet, Kinds
    <2> HIDE DEF synAck
    <2>4. \E out \in {{}, {synAck}} :
            Transmit("server", mgr["server"], out, wire \ {w}, timers, w.due)
      BY <2>1 DEF synAck
    <2>5. /\ mgr' \in [Roles -> Manager] /\ \A q \in Roles : IsFiniteSet(mgr'[q].inFlight)
          /\ wire' \subseteq Deliveries /\ timers' \subseteq RtoTimers \cup TimeWaitTimers
          /\ txCount' \in Nat /\ losses' \in Nat
      BY <2>2, <2>3, <2>4, <1>one, <1>empty, <1>mgrs, <1>roles, <1>pending, TransmitProperties
    <2>6. /\ rcvNxt' \in [Roles -> Nat] /\ sndNxt' \in [Roles -> Nat]
          /\ sndUna' \in [Roles -> Nat]
      <3>1. sndUna \in [Roles -> Nat]
        BY DEF TypeOK
      <3>2. w.pkt.seq + 1 \in Nat /\ InitialSeq["server"] + 1 \in Nat
        BY <2>2, <1>seqs
      <3>3. rcvNxt' = rcvNxt \/ rcvNxt' = [rcvNxt EXCEPT !["server"] = w.pkt.seq + 1]
        BY <2>1
      <3>4. sndNxt' = sndNxt \/ sndNxt' = [sndNxt EXCEPT !["server"] = InitialSeq["server"] + 1]
        BY <2>1
      <3>5. sndUna' = sndUna \/ sndUna' = [sndUna EXCEPT !["server"] = InitialSeq["server"]]
        BY <2>1
      <3>6. rcvNxt' \in [Roles -> Nat]
        BY <3>2, <3>3, <1>seqs, UpdateType
      <3>7. sndNxt' \in [Roles -> Nat]
        BY <3>2, <3>4, <1>seqs, UpdateType
      <3>8. sndUna' \in [Roles -> Nat]
        BY <3>1, <3>5, <1>seqs, UpdateType
      <3> QED
        BY <3>6, <3>7, <3>8
    <2>7. state' \in [Roles -> States] /\ (~started => state' = state)
      <3>1. ~started => ~CanApply(state["server"], "RECV_SYN")
        BY <1>roles DEF CanApply, Transition, NoState
      <3>2. CanApply(state["server"], "RECV_SYN") => Apply(state["server"], "RECV_SYN") \in States
        BY ApplyType
      <3>3. state \in [Roles -> States]
        BY DEF TypeOK
      <3>4. CanApply(state["server"], "RECV_SYN") =>
              [state EXCEPT !["server"] = Apply(state["server"], "RECV_SYN")] \in [Roles -> States]
        BY <3>2, <3>3, UpdateType
      <3>5. \/ /\ CanApply(state["server"], "RECV_SYN")
               /\ state' = [state EXCEPT !["server"] = Apply(state["server"], "RECV_SYN")]
            \/ state' = state
        BY <2>1
      <3> QED
        BY <3>1, <3>3, <3>4, <3>5
    <2>8. UNCHANGED <<started, accepted, announced, sending, cong, tcpConfig, updates>>
      BY <1>5 DEF DeliverSyn
    <2> QED
      BY <2>1, <2>2, <2>5, <2>6, <2>7, <2>8 DEF TypeOK, sending
  <1>6. CASE DeliverSynAck
    <2>1. PICK w \in wire :
            LET p == w.pkt
                opening == CanApply(state["client"], "RECV_SYN_ACK")
                next == IF opening THEN p.seq + 1 ELSE rcvNxt["client"]
                resent == AckedOutput("client", p)
                reply == NewPacket(txCount + Cardinality(resent), "ACK", sndNxt'["client"],
                                   next, 0, "client")
            IN  /\ now' = w.due
                /\ AckBookkeeping("client", p)
                /\ state' = IF opening
                            THEN [state EXCEPT !["client"] = Apply(@, "RECV_SYN_ACK")] ELSE state
                /\ rcvNxt' = [rcvNxt EXCEPT !["client"] = next]
                /\ \E more \in {{}, {reply}} :
                     Transmit("client", AckedManager("client", p), resent \cup more,
                              wire \ {w}, timers, w.due)
      BY <1>6 DEF DeliverSynAck, Delivering
    <2> DEFINE p == w.pkt
               next == IF CanApply(state["client"], "RECV_SYN_ACK")
                       THEN p.seq + 1 ELSE rcvNxt["client"]
               resent == AckedOutput("client", p)
               reply == NewPacket(txCount + Cardinality(resent), "ACK", sndNxt'["client"],
                                  next, 0, "client")
    <2>2. /\ w.due \in Nat /\ p \in Packet /\ p.seq \in Nat
          /\ wire \ {w} \in SUBSET Deliveries
      BY DeliveryType
    <2>3. next \in Nat
      BY <2>2, <1>seqs, <1>roles
    <2>4. /\ cong' \in [Roles -> Congestion]
          /\ sndUna' \in [Roles -> Nat] /\ sndNxt' \in [Roles -> Nat]
          /\ nextSeg' \in 1 .. Len(segments) + 1
      BY <2>1, <2>2, <1>roles, AckBookkeepingProperties
    <2>5. /\ AckedManager("client", p) \in Manager
          /\ IsFiniteSet(AckedManager("client", p).inFlight)
          /\ resent \in SUBSET Packet /\ IsFiniteSet(resent)
      BY <2>2, <1>roles, AckStepProperties DEF SendTypes
    <2>6. Cardinality(resent) \in Nat
      BY <2>5, FS_CardinalityType
    <2> HIDE DEF next, resent
    <2>7. {reply} \in SUBSET Packet
      BY <2>3, <2>4, <2>6, <1>seqs, <1>roles DEF NewPacket, Packet, Kinds
    <2> HIDE DEF reply
    <2>8. \E more \in {{}, {reply}} :
            Transmit("client", AckedManager("client", p), resent \cup more,
                     wire \ {w}, timers, w.due)
      BY <2>1 DEF next, resent, reply
    <2>9. ASSUME NEW more \in {{}, {reply}}
          PROVE  resent \cup more \in SUBSET Packet /\ IsFiniteSet(resent \cup more)
      BY <2>5, <2>7, <1>one, <1>empty, FS_Union
    <2>10. /\ mgr' \in [Roles -> Manager] /\ \A q \in Roles : IsFiniteSet(mgr'[q].inFlight)
           /\ wire' \subseteq Deliveries /\ timers' \subseteq RtoTimers \cup TimeWaitTimers
           /\ txCount' \in Nat /\ losses' \in Nat
      BY <2>2, <2>5, <2>8, <2>9, <1>roles, <1>pending, TransmitProperties
    <2>11. rcvNxt' \in [Roles -> Nat]
      BY <2>1, <2>3, <1>seqs DEF next
    <2>12. state' \in [Roles -> States] /\ (~started => state' = state)
      <3>1. ~started => ~CanApply(state["client"], "RECV_SYN_ACK")
        BY <1>roles DEF CanApply, Transition, NoState
      <3> QED
        BY <2>1, <3>1, ApplyType DEF TypeOK
    <2>13. UNCHANGED <<started, accepted, announced, segments, messages, tcpConfig, updates>>
      BY <1>6 DEF DeliverSynAck
    <2> QED
      BY <2>1, <2>2, <2>4, <2>10, <2>11, <2>12, <2>13 DEF TypeOK
  <1>7. CASE DeliverAck
    <2>1. PICK w \in wire :
            LET p == w.pkt
                r == Peer(p.src)
            IN  /\ now' = w.due
                /\ AckBookkeeping(r, p)
                /\ state' = IF CanApply(state[r], "RECV_ACK")
                            THEN [state EXCEPT ![r] = Apply(@, "RECV_ACK")] ELSE state
                /\ announced' =
                     [established |-> announced.established
                                        + (IF state[r] = "SYN_RECEIVED" THEN 1 ELSE 0),
                      closed |-> announced.closed
                                   + (IF state[r] = "LAST_ACK" /\ BothClosed(state')
                                      THEN 1 ELSE 0)]
                /\ \E extra \in {{}, {TimeWaitEvent(r, w.due + tcpConfig.timeWait)}} :
                     Transmit(r, AckedManager(r, p), AckedOutput(r, p), wire \ {w},
                              timers \cup extra, w.due)
      BY <1>7 DEF DeliverAck, Delivering
    <2> DEFINE p == w.pkt
               r == Peer(p.src)
               expiry == TimeWaitEvent(r, w.due + tcpConfig.timeWait)
    <2>2. /\ w.due \in Nat /\ p \in Packet /\ r \in Roles
          /\ wire \ {w} \in SUBSET Deliveries
      BY DeliveryType
    <2>3. /\ cong' \in [Roles -> Congestion]
          /\ sndUna' \in [Roles -> Nat] /\ sndNxt' \in [Roles -> Nat]
          /\ nextSeg' \in 1 .. Len(segments) + 1
      BY <2>1, <2>2, AckBookkeepingProperties
    <2>4. /\ AckedManager(r, p) \in Manager
          /\ IsFiniteSet(AckedManager(r, p).inFlight)
          /\ AckedOutput(r, p) \in SUBSET Packet /\ IsFiniteSet(AckedOutput(r, p))
      BY <2>2, AckStepProperties DEF SendTypes
    <2>5. txCount' \in Nat
      BY <2>1, <2>4, TransmitCount
    <2>6. expiry \in TimeWaitTimers
      BY <2>2, <2>5, TimeWaitEventType
    <2>7. \E extra \in {{}, {expiry}} :
            Transmit(r, AckedManager(r, p), AckedOutput(r, p), wire \ {w},
                     timers \cup extra, w.due)
      BY <2>1
    <2>8. /\ state' \in [Roles -> States] /\ (~started => state' = state)
      <3>1. ~started => ~CanApply(state[r], "RECV_ACK")
        BY <2>2 DEF CanApply, Transition, NoState
      <3> QED
        BY <2>1, <2>2, <3>1, ApplyType DEF TypeOK
    <2>9. announced' \in [established : Nat, closed : Nat]
      BY <2>1 DEF TypeOK
    <2> HIDE DEF p, r, expiry
    <2>10. /\ mgr' \in [Roles -> Manager] /\ \A q \in Roles : IsFiniteSet(mgr'[q].inFlight)
           /\ wire' \subseteq Deliveries /\ timers' \subseteq RtoTimers \cup TimeWaitTimers
           /\ losses' \in Nat
      <3>1. \A extra \in {{}, {expiry}} :
              timers \cup extra \in SUBSET (RtoTimers \cup TimeWaitTimers)
        BY <2>6, <1>pending
      <3> QED
        BY <2>2, <2>4, <2>7, <3>1, TransmitProperties
    <2>11. UNCHANGED <<started, rcvNxt, accepted, segments, messages, tcpConfig, updates>>
      BY <1>7 DEF DeliverAck
    <2> QED
      BY <2>1, <2>2, <2>3, <2>5, <2>8, <2>9, <2>10, <2>11 DEF TypeOK
  <1>8. CASE DeliverFin
    <2>1. PICK w \in wire :
            LET p == w.pkt
                r == Peer(p.src)
                passive == state[r] = "ESTABLISHED"
                moved == Apply(state[r], "RECV_FIN")
                fin == NewPacket(txCount + 1, "FIN", sndNxt[r], NoAck, 0, r)
            IN  /\ now' = w.due
                /\ rcvNxt' = [rcvNxt EXCEPT ![r] = p.seq + 1]
                /\ state' = [state EXCEPT ![r] =
                               IF passive THEN Apply(moved, "APP_CLOSE")
                               ELSE IF CanApply(@, "RECV_FIN") THEN moved ELSE @]
                /\ sndNxt' = IF passive THEN [sndNxt EXCEPT ![r] = @ + 1] ELSE sndNxt
                /\ \E more \in {{}, {fin}},
                      extra \in {{}, {TimeWaitEvent(r, w.due + tcpConfig.timeWait)}} :
                     Transmit(r, mgr[r], {PureAck(r, p.seq + 1)} \cup more, wire \ {w},
                              timers \cup extra, w.due)
      BY <1>8 DEF DeliverFin, Delivering
    <2> DEFINE p == w.pkt
               r == Peer(p.src)
               fin == NewPacket(txCount + 1, "FIN", sndNxt[r], NoAck, 0, r)
               ack == PureAck(r, p.seq + 1)
               expiry == TimeWaitEvent(r, w.due + tcpConfig.timeWait)
    <2>2. /\ w.due \in Nat /\ p \in Packet /\ r \in Roles /\ p.seq \in Nat
          /\ wire \ {w} \in SUBSET Deliveries
      BY DeliveryType
    <2>3. /\ state' \in [Roles -> States] /\ (~started => state' = state)
      <3>1. ~started => ~CanApply(state[r], "RECV_FIN") /\ state[r] # "ESTABLISHED"
        BY <2>2 DEF CanApply, Transition, NoState
      <3>2. Apply(Apply("ESTABLISHED", "RECV_FIN"), "APP_CLOSE") \in States
        BY DEF Apply, Transition, States
      <3>3. state \in [Roles -> States]
        BY DEF TypeOK
      <3>4. state' = [state EXCEPT ![r] =
                       IF state[r] = "ESTABLISHED" THEN Apply(Apply(@, "RECV_FIN"), "APP_CLOSE")
                       ELSE IF CanApply(@, "RECV_FIN") THEN Apply(@, "RECV_FIN") ELSE @]
        BY <2>1
      <3>5. CASE state[r] = "ESTABLISHED"
        BY <2>2, <3>1, <3>2, <3>3, <3>4, <3>5
      <3>6. CASE state[r] # "ESTABLISHED" /\ CanApply(state[r], "RECV_FIN")
        BY <2>2, <3>1, <3>3, <3>4, <3>6, ApplyType
      <3>7. CASE state[r] # "ESTABLISHED" /\ ~CanApply(state[r], "RECV_FIN")
        BY <2>2, <3>3, <3>4, <3>7
      <3> QED
        BY <3>5, <3>6, <3>7
    <2>4. sndNxt' \in [Roles -> Nat] /\ rcvNxt' \in [Roles -> Nat]
      BY <2>1, <2>2, <1>seqs
    <2>5. {ack} \in SUBSET Packet /\ {fin} \in SUBSET Packet
      BY <2>2, <1>seqs DEF PureAck, NewPacket, Packet, Kinds
    <2>6. \E more \in {{}, {fin}}, extra \in {{}, {expiry}} :
            Transmit(r, mgr[r], {ack} \cup more, wire \ {w}, timers \cup extra, w.due)
      BY <2>1
    <2> HIDE DEF fin, ack
    <2>7. \A more \in {{}, {fin}} :
            {ack} \cup more \in SUBSET Packet /\ IsFiniteSet({ack} \cup more)
      BY <2>5, <1>one, <1>empty, FS_Union
    <2>8. txCount' \in Nat
      BY <2>6, <2>7, TransmitCount
    <2>9. expiry \in TimeWaitTimers
      BY <2>2, <2>8, TimeWaitEventType
    <2>10. \A extra \in {{}, {expiry}} :
             timers \cup extra \in SUBSET (RtoTimers \cup TimeWaitTimers)
      BY <2>9, <1>pending
    <2> HIDE DEF p, r, expiry
    <2>11. /\ mgr' \in [Roles -> Manager] /\ \A q \in Roles : IsFiniteSet(mgr'[q].inFlight)
           /\ wire' \subseteq Deliveries /\ timers' \subseteq RtoTimers \cup TimeWaitTimers
           /\ losses' \in Nat
      BY <2>2, <2>6, <2>7, <2>10, <1>mgrs, TransmitProperties
    <2>12. UNCHANGED <<started, sndUna, accepted, announced, sending, cong,
                       tcpConfig, updates>>
      BY <1>8 DEF DeliverFin
    <2> QED
      BY <2>1, <2>2, <2>3, <2>4, <2>8, <2>11, <2>12 DEF TypeOK, sending
  <1>9. CASE DeliverData
    <2>1. PICK w \in wire :
            LET p == w.pkt
                r == Peer(p.src)
                next == IF InOrder(r, p) THEN rcvNxt[r] + p.len ELSE rcvNxt[r]
            IN  /\ now' = w.due
                /\ rcvNxt' = [rcvNxt EXCEPT ![r] = next]
                /\ accepted' = IF InOrder(r, p)
                               THEN Append(accepted, [seq |-> p.seq, len |-> p.len])
                               ELSE accepted
                /\ Transmit(r, mgr[r], {PureAck(r, next)}, wire \ {w}, timers, w.due)
      BY <1>9 DEF DeliverData, Delivering
    <2> DEFINE p == w.pkt
               r == Peer(p.src)
               next == IF InOrder(r, p) THEN rcvNxt[r] + p.len ELSE rcvNxt[r]
               ack == PureAck(r, next)
    <2>2. /\ w.due \in Nat /\ r \in Roles /\ p.seq \in Nat /\ p.len \in Nat
          /\ wire \ {w} \in SUBSET Deliveries
      BY DeliveryType
    <2>3. next \in Nat
      BY <2>2, <1>seqs
    <2> HIDE DEF next
    <2>4. {ack} \in SUBSET Packet
      BY <2>2, <2>3, <1>seqs DEF PureAck, NewPacket, Packet, Kinds
    <2>5. Transmit(r, mgr[r], {ack}, wire \ {w}, timers, w.due)
      BY <2>1 DEF next
    <2>6. rcvNxt' \in [Roles -> Nat]
      BY <2>1, <2>2, <2>3, <1>seqs DEF next
    <2>7. accepted' \in Seq([seq : Nat, len : Nat])
      <3>1. accepted \in Seq([seq : Nat, len : Nat])
        BY DEF TypeOK
      <3>2. [seq |-> p.seq, len |-> p.len] \in [seq : Nat, len : Nat]
        BY <2>2
      <3> QED
        BY <2>1, <2>2, <3>1, <3>2, AppendProperties
    <2> HIDE DEF ack, p, r
    <2>8. /\ mgr' \in [Roles -> Manager] /\ \A q \in Roles : IsFiniteSet(mgr'[q].inFlight)
          /\ wire' \subseteq Deliveries /\ timers' \subseteq RtoTimers \cup TimeWaitTimers
          /\ txCount' \in Nat /\ losses' \in Nat
      BY <2>2, <2>4, <2>5, <1>one, <1>mgrs, <1>pending, TransmitProperties
    <2>9. UNCHANGED <<started, state, sndNxt, sndUna, announced, sending,
                      cong, tcpConfig, updates>>
      BY <1>9 DEF DeliverData
    <2> QED
      BY <2>1, <2>2, <2>6, <2>7, <2>8, <2>9 DEF TypeOK, sending
  <1>10. CASE RtoCheck
    <2>1. PICK e \in timers :
            LET r == e.role
                late == TimedOutPackets(mgr[r], e.due)
            IN  /\ now' = e.due
                /\ cong' = [cong EXCEPT ![r] = TimeoutsCongestion(mgr[r], @, e.due)]
                /\ Transmit(r, Cancel(CheckTimeouts(mgr[r], e.due), Ids(late)),
                            Copies(late), wire, timers \ {e}, e.due)
      BY <1>10 DEF RtoCheck, Firing
    <2> DEFINE r == e.role
               late == TimedOutPackets(mgr[r], e.due)
               m == Cancel(CheckTimeouts(mgr[r], e.due), Ids(late))
    <2>2. e.due \in Nat /\ r \in Roles /\ timers \ {e} \in SUBSET (RtoTimers \cup TimeWaitTimers)
      BY TimerType
    <2>3. mgr[r] \in Manager /\ IsFiniteSet(mgr[r].inFlight)
      BY <2>2, <1>mgrs
    <2>4. late \in SUBSET Packet /\ IsFiniteSet(late)
      BY <2>2, <2>3, TimedOutPacketsProperties
    <2>5. m \in Manager /\ IsFiniteSet(m.inFlight)
      BY <2>2, <2>3, CheckTimeoutsProperties, CancelProperties
    <2>6. Copies(late) \in SUBSET Packet /\ IsFiniteSet(Copies(late))
      BY <2>4, <1>seqs, CopiesProperties
    <2>7. cong' \in [Roles -> Congestion]
      <3>1. cong \in [Roles -> Congestion]
        BY DEF TypeOK
      <3>2. TimeoutsCongestion(mgr[r], cong[r], e.due) \in Congestion
        BY <2>2, <2>3, <3>1, TimeoutsCongestionProperties
      <3> QED
        BY <2>1, <3>1, <3>2
    <2>8. Transmit(r, m, Copies(late), wire, timers \ {e}, e.due)
      BY <2>1
    <2> HIDE DEF r, late, m
    <2>9. /\ mgr' \in [Roles -> Manager] /\ \A q \in Roles : IsFiniteSet(mgr'[q].inFlight)
          /\ wire' \subseteq Deliveries /\ timers' \subseteq RtoTimers \cup TimeWaitTimers
          /\ txCount' \in Nat /\ losses' \in Nat
      BY <2>2, <2>5, <2>6, <2>8, <1>pending, TransmitProperties
    <2>10. UNCHANGED <<endpoints, sending, tcpConfig, updates>>
      BY <1>10 DEF RtoCheck
    <2> QED
      BY <2>1, <2>2, <2>7, <2>9, <2>10 DEF TypeOK, endpoints, sending
  <1>11. CASE TimeWaitExpiry
    <2>1. PICK e \in timers :
            LET r == e.role
            IN  /\ now' = e.due
                /\ state' = IF state[r] = "TIME_WAIT"
                            THEN [state EXCEPT ![r] = Apply(@, "TIME_WAIT_EXPIRED")] ELSE state
                /\ announced' = IF state[r] = "TIME_WAIT" /\ BothClosed(state')
                                THEN [announced EXCEPT !.closed = @ + 1] ELSE announced
                /\ timers' = timers \ {e}
      BY <1>11 DEF TimeWaitExpiry, Firing
    <2>2. e.due \in Nat /\ e.role \in Roles /\ timers' \subseteq RtoTimers \cup TimeWaitTimers
      BY <2>1, TimerType
    <2>3. Apply("TIME_WAIT", "TIME_WAIT_EXPIRED") \in States
      BY DEF Apply, Transition, States
    <2>4. state' \in [Roles -> States] /\ (~started => state' = state)
      BY <2>1, <2>2, <2>3 DEF TypeOK
    <2>5. announced' \in [established : Nat, closed : Nat]
      <3>1. announced \in [established : Nat, closed : Nat]
        BY DEF TypeOK
      <3>2. announced' = announced \/ announced' = [announced EXCEPT !.closed = @ + 1]
        BY <2>1
      <3>3. announced.closed + 1 \in Nat
        BY <3>1
      <3> QED
        BY <3>1, <3>2, <3>3
    <2>6. UNCHANGED <<started, sndNxt, sndUna, rcvNxt, accepted, mgr, wire,
                      txCount, losses, sending, cong, tcpConfig, updates>>
      BY <1>11 DEF TimeWaitExpiry
    <2> QED
      BY <2>1, <2>2, <2>4, <2>5, <2>6 DEF TypeOK, sending
  <1>12. CASE UNCHANGED vars
    BY <1>12 DEF TypeOK, vars, endpoints, network, sending
  <1> QED
    BY <1>1, <1>2, <1>3, <1>4, <1>5, <1>6, <1>7, <1>8, <1>9, <1>10, <1>11, <1>12
       DEF Next, Command, ProcessNext, SendMessage

\* In every behaviour of every configuration the session's variables keep
\* their types: no handler applies a trigger its state does not have, and no
\* congestion window falls under one segment (session.py, all handlers).
THEOREM TypeCorrect == Spec => []TypeOK
  <1>1. TypeInv => TypeOK
    BY DEF TypeInv
  <1> QED
    BY <1>1, InitTypeInv, StepTypeInv, PTL DEF Spec

-----------------------------------------------------------------------------
(* Phase and window.                                                        *)

\* The controllers change in ACK bookkeeping and in rto_check only.
LEMMA CongestionSteps ==
  ASSUME TypeInv, [Next]_vars
  PROVE  \/ cong' = cong
         \/ \E r \in Roles, a \in Nat \cup {NoAck} :
              cong' = [cong EXCEPT ![r] = OnAckCongestion(mgr[r], cong[r], a)]
         \/ \E r \in Roles, t \in Nat :
              cong' = [cong EXCEPT ![r] = TimeoutsCongestion(mgr[r], cong[r], t)]
  <1> USE DEF TypeInv
  <1>1. CASE Start
    BY <1>1 DEF Start
  <1>2. CASE SendMessage
    BY <1>2 DEF SendMessage, Send
  <1>3. CASE Close
    BY <1>3 DEF Close
  <1>4. CASE UpdateTcpConfig
    BY <1>4 DEF UpdateTcpConfig
  <1>5. CASE DeliverSyn
    BY <1>5 DEF DeliverSyn
  <1>6. CASE DeliverSynAck
    <2>1. PICK w \in wire : AckBookkeeping("client", w.pkt)
      BY <1>6 DEF DeliverSynAck
    <2>2. w.pkt.ack \in Nat \cup {NoAck} /\ "client" \in Roles
      BY DeliveryType DEF Packet, Roles
    <2> QED
      BY <2>1, <2>2 DEF AckBookkeeping, AckedCongestion
  <1>7. CASE DeliverAck
    <2>1. PICK w \in wire : AckBookkeeping(Peer(w.pkt.src), w.pkt)
      BY <1>7 DEF DeliverAck
    <2>2. w.pkt.ack \in Nat \cup {NoAck} /\ Peer(w.pkt.src) \in Roles
      BY DeliveryType DEF Packet
    <2> QED
      BY <2>1, <2>2 DEF AckBookkeeping, AckedCongestion
  <1>8. CASE DeliverFin
    BY <1>8 DEF DeliverFin
  <1>9. CASE DeliverData
    BY <1>9 DEF DeliverData
  <1>10. CASE RtoCheck
    <2>1. PICK e \in timers :
            cong' = [cong EXCEPT ![e.role] = TimeoutsCongestion(mgr[e.role], @, e.due)]
      BY <1>10 DEF RtoCheck
    <2>2. e.role \in Roles /\ e.due \in Nat
      BY TimerType
    <2> QED
      BY <2>1, <2>2
  <1>11. CASE TimeWaitExpiry
    BY <1>11 DEF TimeWaitExpiry
  <1>12. CASE UNCHANGED vars
    BY <1>12 DEF vars
  <1> QED
    BY <1>1, <1>2, <1>3, <1>4, <1>5, <1>6, <1>7, <1>8, <1>9, <1>10, <1>11, <1>12
       DEF Next, Command, ProcessNext

\* In every reachable state the phase of each controller tells where its
\* window stands against its threshold (congestion_controller.py, all methods
\* in the order the session calls them).
THEOREM PhaseInvariant == Spec => []PhaseMatchesWindow
  <1> DEFINE W == ManagerConfig.initialCwnd
             S == ManagerConfig.initialSsthresh
  <1>1. Init => PhaseMatchesWindow
    BY InitPhaseFits DEF Init, PhaseMatchesWindow
  <1>2. TypeInv /\ PhaseMatchesWindow /\ [Next]_vars => PhaseMatchesWindow'
    <2> SUFFICES ASSUME TypeInv, PhaseMatchesWindow, [Next]_vars,
                        NEW q \in Roles
                 PROVE  PhaseFits(cong'[q], W, S)
      BY DEF PhaseMatchesWindow
    <2>1. cong \in [Roles -> Congestion] /\ mgr \in [Roles -> Manager]
      BY DEF TypeInv, TypeOK
    <2>2. \A r \in Roles : PhaseFits(cong[r], W, S)
      BY DEF PhaseMatchesWindow
    <2> HIDE DEF W, S
    <2>3. ASSUME NEW r \in Roles, NEW a,
                 cong' = [cong EXCEPT ![r] = OnAckCongestion(mgr[r], cong[r], a)]
          PROVE  PhaseFits(cong'[q], W, S)
      <3>1. PhaseFits(OnAckCongestion(mgr[r], cong[r], a), W, S)
        BY <2>1, <2>2, OnAckCongestionProperties
      <3> QED
        BY <2>1, <2>2, <2>3, <3>1
    <2>4. ASSUME NEW r \in Roles, NEW t,
                 cong' = [cong EXCEPT ![r] = TimeoutsCongestion(mgr[r], cong[r], t)]
          PROVE  PhaseFits(cong'[q], W, S)
      <3>1. PhaseFits(TimeoutsCongestion(mgr[r], cong[r], t), W, S)
        BY <2>1, <2>2, TimeoutsCongestionProperties
      <3> QED
        BY <2>1, <2>2, <2>4, <3>1
    <2> QED
      BY <2>2, <2>3, <2>4, CongestionSteps
  <1> QED
    BY <1>1, <1>2, InitTypeInv, StepTypeInv, PTL DEF Spec

-----------------------------------------------------------------------------
(* Timers: no tracked packet is ever without its retransmission timer, and  *)
(* no event is ever due in the past.  This needs one strengthening: the     *)
(* entries an endpoint tracks are of packets it sent itself.  _transmit     *)
(* arms the timer for the packet's source, so only then is it a timer of    *)
(* the tracking endpoint.                                                   *)

\* In T the entry e of role r has a timer at its deadline.
Watched(r, e, T) ==
  /\ e.pkt.src = r
  /\ \E t \in T : t.kind = "rto_check" /\ t.role = r /\ t.due = e.deadline

TimerInv ==
  /\ TypeInv
  /\ \A r \in Roles : \A e \in mgr[r].inFlight : Watched(r, e, timers)
  /\ \A w \in wire : w.due >= now
  /\ \A t \in timers : t.due >= now

\* More timers never leave an entry unwatched.
LEMMA WatchedMonotone ==
  ASSUME NEW r, NEW e, NEW T, NEW U, T \subseteq U, Watched(r, e, T)
  PROVE  Watched(r, e, U)
  BY DEF Watched

-----------------------------------------------------------------------------
(* The parts of a step.                                                     *)

\* The event a step takes is no later than those it leaves behind.
LEMMA NextIsEarliest ==
  ASSUME TypeInv, NEW e, e \in wire \/ e \in timers, IsNext(e)
  PROVE  /\ e.due \in Nat
         /\ \A w \in wire : w.due >= e.due
         /\ \A t \in timers : t.due >= e.due
  <1>1. /\ \A w \in wire : w.due \in Nat
        /\ \A t \in timers : t.due \in Nat
    BY DeliveryType, TimerType DEF TypeInv
  <1> QED
    BY <1>1 DEF IsNext, Precedes

\* _transmit tracks, arms and schedules together: if everything is in order
\* with the manager and the events it starts from, it is afterwards.
LEMMA TransmitTimers ==
  ASSUME TypeInv, TypeInv', NEW r \in Roles, NEW m \in Manager,
         NEW out \in SUBSET Packet, \A p \in out : p.src = r,
         NEW onWire, NEW armed, NEW t \in Nat,
         Transmit(r, m, out, onWire, armed, t), now' = t,
         \A e \in m.inFlight : Watched(r, e, armed),
         \A q \in Roles \ {r} : \A e \in mgr[q].inFlight : Watched(q, e, armed),
         \A w \in onWire : w.due >= t,
         \A x \in armed : x.due >= t
  PROVE  TimerInv'
  <1> DEFINE tracked == {p \in out : NeedsAckTracking(p)}
             due == t + ManagerConfig.rto
             new == {[pkt |-> p, deadline |-> due, retries |-> 0] : p \in tracked}
  <1>1. PICK fate \in [out -> Delays \cup {Lost}] :
          /\ mgr' = [mgr EXCEPT ![r] = RegisterSent(m, tracked, t)]
          /\ timers' = armed \cup {RtoEvent(p, due) : p \in tracked}
          /\ wire' = onWire \cup {DeliveryEvent(p, t + fate[p]) :
                                    p \in out \ {p \in out : fate[p] = Lost}}
    BY DEF Transmit
  <1>2. due \in Nat /\ due >= t
    BY ManagerConfigAssumption DEF TcpConfigs
  <1>3. mgr'[r].inFlight = m.inFlight \cup new /\ \A q \in Roles \ {r} : mgr'[q] = mgr[q]
    <2>1. mgr \in [Roles -> Manager]
      BY DEF TypeInv, TypeOK
    <2>2. RegisterSent(m, tracked, t).inFlight = m.inFlight \cup new
      BY DEF RegisterSent, Manager
    <2> HIDE DEF new, tracked
    <2> QED
      BY <1>1, <2>1, <2>2
  <1>4. armed \subseteq timers'
    BY <1>1
  <1>5. ASSUME NEW e \in mgr'[r].inFlight PROVE Watched(r, e, timers')
    <2>1. CASE e \in m.inFlight
      BY <1>4, <2>1, WatchedMonotone
    <2>2. CASE e \in new
      <3>1. PICK p \in tracked : e = [pkt |-> p, deadline |-> due, retries |-> 0]
        BY <2>2
      <3>2. RtoEvent(p, due) \in timers' /\ p.src = r
        BY <1>1
      <3> QED
        BY <3>1, <3>2 DEF Watched, RtoEvent
    <2> QED
      BY <1>3, <2>1, <2>2
  <1>6. ASSUME NEW q \in Roles \ {r}, NEW e \in mgr'[q].inFlight
        PROVE  Watched(q, e, timers')
    BY <1>3, <1>4, WatchedMonotone
  <1>7. \A w \in wire' : w.due >= t
    <2>1. ASSUME NEW p \in out PROVE t + fate[p] >= t
      <3>1. fate[p] \in Delays \cup {Lost}
        OBVIOUS
      <3>2. Delays \cup {Lost} \subseteq Nat
        BY SessionAssumption DEF Lost
      <3>3. fate[p] \in Nat
        BY <3>1, <3>2
      <3> QED
        BY <3>3
    <2> QED
      BY <1>1, <2>1 DEF DeliveryEvent
  <1>8. \A x \in timers' : x.due >= t
    BY <1>1, <1>2 DEF RtoEvent
  <1>9. \A q \in Roles : \A e \in mgr'[q].inFlight : Watched(q, e, timers')
    BY <1>5, <1>6
  <1> QED
    BY <1>7, <1>8, <1>9 DEF TimerInv

\* A copy has the source of its original.
LEMMA CopiesSource ==
  ASSUME NEW r, NEW P \in SUBSET Packet, \A p \in P : p.src = r
  PROVE  \A p \in Copies(P) : p.src = r
  BY DEF Copies, Packet

\* What ACK bookkeeping sends, its receiver sends; what it keeps tracked was
\* tracked before.
LEMMA AckStepSource ==
  ASSUME TypeInv, NEW r \in Roles, NEW p \in Packet,
         \A e \in mgr[r].inFlight : e.pkt.src = r
  PROVE  /\ \A q \in AckedOutput(r, p) : q.src = r
         /\ AckedManager(r, p).inFlight \subseteq mgr[r].inFlight
  <1>1. mgr[r] \in Manager /\ p.ack \in Nat \cup {NoAck}
    BY DEF TypeInv, TypeOK, Packet
  <1>2. OnAck(mgr[r], p.ack) \in Manager
        /\ OnAck(mgr[r], p.ack).inFlight \subseteq mgr[r].inFlight
    BY <1>1, OnAckProperties
  <1>3. AckedManager(r, p).inFlight \subseteq mgr[r].inFlight
    BY <1>2, CancelProperties DEF AckedManager
  <1>4. \A q \in FastRetransmitTarget(mgr[r], p.ack) : q.src = r
    BY DEF FastRetransmitTarget, OldestUnacked
  <1>5. FastRetransmitTarget(mgr[r], p.ack) \in SUBSET Packet
    BY <1>1, FastRetransmitTargetProperties
  <1>6. CASE Resumes(r, p)
    BY <1>3, <1>6 DEF AckedOutput, DataPackets, NewPacket, Resumes
  <1>7. CASE ~Resumes(r, p)
    BY <1>3, <1>4, <1>5, <1>7, CopiesSource DEF AckedOutput
  <1> QED
    BY <1>6, <1>7

\* The copies of what timed out, and what stays tracked: entries that expire
\* later than the check.
LEMMA TimeoutStep ==
  ASSUME NEW r, NEW m \in Manager, \A e \in m.inFlight : e.pkt.src = r, NEW t \in Nat
  PROVE  /\ \A p \in Copies(TimedOutPackets(m, t)) : p.src = r
         /\ \A e \in Cancel(CheckTimeouts(m, t), Ids(TimedOutPackets(m, t))).inFlight :
              e \in m.inFlight /\ e.deadline > t
  <1> DEFINE late == {f \in Expired(m, t) : ~Exceeded(f)}
             bumped == {[e EXCEPT !.retries = @ + 1, !.deadline = t + ManagerConfig.rto] :
                          e \in late}
             kept == {e \in m.inFlight : e \notin Expired(m, t)}
  <1>1. /\ late \subseteq m.inFlight
        /\ m.inFlight \subseteq Entry
        /\ \A e \in kept : e.deadline > t
    BY DEF Expired, Manager, Entry
  <1>2. TimedOutPackets(m, t) = {e.pkt : e \in late}
    BY DEF TimedOutPackets
  <1>3. \A p \in TimedOutPackets(m, t) : p.src = r
    BY <1>1, <1>2
  <1>4. TimedOutPackets(m, t) \in SUBSET Packet
    BY TimedOutPacketsProperties
  <1>5. \A p \in Copies(TimedOutPackets(m, t)) : p.src = r
    BY <1>3, <1>4, CopiesSource
  <1>6. CheckTimeouts(m, t).inFlight = kept \cup bumped
    BY DEF CheckTimeouts, Manager
  <1>7. \A e \in bumped : e.pkt.id \in Ids(TimedOutPackets(m, t))
    <2> SUFFICES ASSUME NEW e \in late
                 PROVE  [e EXCEPT !.retries = @ + 1, !.deadline = t + ManagerConfig.rto].pkt.id
                          \in Ids(TimedOutPackets(m, t))
      OBVIOUS
    <2>1. [e EXCEPT !.retries = @ + 1, !.deadline = t + ManagerConfig.rto].pkt = e.pkt
      BY <1>1 DEF Entry
    <2> QED
      BY <1>2, <2>1 DEF Ids
  <1>8. CheckTimeouts(m, t) \in Manager
    BY CheckTimeoutsProperties
  <1> HIDE DEF late, bumped, kept
  <1>9. \A e \in Cancel(CheckTimeouts(m, t), Ids(TimedOutPackets(m, t))).inFlight :
          e \in kept
    BY <1>6, <1>7, <1>8, CancelProperties
  <1>10. kept \subseteq m.inFlight
    BY DEF kept
  <1> QED
    BY <1>1, <1>5, <1>9, <1>10

-----------------------------------------------------------------------------
(* The invariant.                                                           *)

LEMMA StepTimerInv == TimerInv /\ TypeInv' /\ [Next]_vars => TimerInv'
  <1> SUFFICES ASSUME TimerInv, TypeInv', [Next]_vars PROVE TimerInv'
    OBVIOUS
  <1>type. TypeInv /\ TypeOK /\ now \in Nat /\ now' \in Nat
    BY DEF TimerInv, TypeInv, TypeOK
  <1>mgrs. \A r \in Roles : mgr[r] \in Manager
    BY <1>type DEF TypeOK
  <1>watched. \A r \in Roles : \A e \in mgr[r].inFlight : Watched(r, e, timers) /\ e.pkt.src = r
    BY DEF TimerInv, Watched
  <1>due. (\A w \in wire : w.due >= now) /\ (\A t \in timers : t.due >= now)
    BY DEF TimerInv
  <1>roles. "client" \in Roles /\ "server" \in Roles
    BY DEF Roles
  <1>empty. {} \in SUBSET Packet
    OBVIOUS
  \* A delivery that sends out with a manager tracking no more than before.
  <1>deliver. ASSUME NEW w \in wire, IsNext(w), now' = w.due, NEW r \in Roles,
                     NEW m \in Manager, m.inFlight \subseteq mgr[r].inFlight,
                     NEW out \in SUBSET Packet, \A p \in out : p.src = r,
                     NEW extra, \A x \in extra : x.due >= w.due,
                     Transmit(r, m, out, wire \ {w}, timers \cup extra, w.due)
              PROVE  TimerInv'
    <2>1. /\ w.due \in Nat
          /\ \A v \in wire : v.due >= w.due
          /\ \A t \in timers : t.due >= w.due
      BY <1>deliver, <1>type, NextIsEarliest
    <2>2. \A q \in Roles : \A e \in mgr[q].inFlight : Watched(q, e, timers \cup extra)
      BY <1>watched, WatchedMonotone
    <2> DEFINE armed == timers \cup extra
               left == wire \ {w}
    <2>3. \A x \in armed : x.due >= w.due
      BY <2>1, <1>deliver
    <2>4. \A v \in left : v.due >= w.due
      BY <2>1
    <2>5. Transmit(r, m, out, left, armed, w.due)
      BY <1>deliver
    <2>6. \A e \in m.inFlight : Watched(r, e, armed)
      BY <1>deliver, <2>2
    <2>7. \A q \in Roles \ {r} : \A e \in mgr[q].inFlight : Watched(q, e, armed)
      BY <2>2
    <2>8. now' = w.due /\ \A p \in out : p.src = r
      BY <1>deliver
    <2> HIDE DEF armed, left
    <2> QED
      BY <1>type, <2>1, <2>3, <2>4, <2>5, <2>6, <2>7, <2>8, TransmitTimers
  <1>simple. ASSUME NEW w \in wire, IsNext(w), now' = w.due, NEW r \in Roles,
                    NEW m \in Manager, m.inFlight \subseteq mgr[r].inFlight,
                    NEW out \in SUBSET Packet, \A p \in out : p.src = r,
                    Transmit(r, m, out, wire \ {w}, timers, w.due)
             PROVE  TimerInv'
    <2> DEFINE none == {}
    <2>1. timers = timers \cup none
      OBVIOUS
    <2>2. Transmit(r, m, out, wire \ {w}, timers \cup none, w.due)
      BY <1>simple, <2>1
    <2>3. \A x \in none : x.due >= w.due
      OBVIOUS
    <2>4. /\ IsNext(w) /\ now' = w.due
          /\ m.inFlight \subseteq mgr[r].inFlight
          /\ \A p \in out : p.src = r
      BY <1>simple
    <2> HIDE DEF none
    <2> QED
      BY <1>deliver, <2>2, <2>3, <2>4
  \* A command that sends out with its manager as it is.
  <1>command. ASSUME NEW r \in Roles, NEW out \in SUBSET Packet, \A p \in out : p.src = r,
                     Transmit(r, mgr[r], out, wire, timers, now), now' = now
              PROVE  TimerInv'
    BY <1>command, <1>type, <1>mgrs, <1>watched, <1>due, TransmitTimers
  <1>1. CASE Start
    <2> DEFINE syn == NewPacket(txCount, "SYN", InitialSeq["client"], NoAck, 0, "client")
    <2>1. Transmit("client", mgr["client"], {syn}, wire, timers, now) /\ now' = now
      BY <1>1 DEF Start
    <2>2. {syn} \in SUBSET Packet
      <3>1. InitialSeq["client"] \in Nat /\ txCount \in Nat
        BY SessionAssumption, <1>roles, <1>type DEF TypeOK
      <3> QED
        BY <3>1, <1>roles DEF NewPacket, Packet, Kinds
    <2>3. \A p \in {syn} : p.src = "client"
      BY DEF NewPacket
    <2> HIDE DEF syn
    <2> QED
      BY <2>1, <2>2, <2>3, <1>roles, <1>command
  <1>2. ASSUME NEW length \in MessageLengths, Send(length)
        PROVE  TimerInv'
    <2> DEFINE segs == Segment(length, tcpConfig.mss)
               out == DataPackets(mgr["client"], cong["client"], segs, 1)
    <2>1. segs \in Seq(SegmentRecords) /\ Ordered(segs)
      <3>1. length \in Nat /\ tcpConfig \in TcpConfigs
        BY SessionAssumption, <1>type DEF TypeOK
      <3>2. tcpConfig.mss \in Nat \ {0}
        BY <3>1 DEF TcpConfigs
      <3> QED
        BY <3>1, <3>2, SegmentProperties
    <2>2. SendTypes(mgr["client"], cong["client"], segs, 1)
      BY <2>1, <1>type, <1>roles DEF SendTypes, TypeOK
    <2>3. out \in SUBSET Packet
      BY <2>2, <1>type, <1>roles, DataPacketsProperties DEF TypeOK
    <2>4. \A p \in out : p.src = "client"
      BY DEF DataPackets, NewPacket
    <2>5. Transmit("client", mgr["client"], out, wire, timers, now) /\ now' = now
      BY <1>2 DEF Send
    <2> HIDE DEF out
    <2> QED
      BY <2>3, <2>4, <2>5, <1>roles, <1>command
  <1>3. CASE Close
    <2> DEFINE fin == NewPacket(txCount, "FIN", sndNxt["client"], NoAck, 0, "client")
    <2>1. Transmit("client", mgr["client"], {fin}, wire, timers, now) /\ now' = now
      BY <1>3 DEF Close
    <2>2. {fin} \in SUBSET Packet
      BY <1>type, <1>roles DEF TypeOK, NewPacket, Packet, Kinds
    <2>3. \A p \in {fin} : p.src = "client"
      BY DEF NewPacket
    <2> HIDE DEF fin
    <2> QED
      BY <2>1, <2>2, <2>3, <1>roles, <1>command
  <1>4. CASE UpdateTcpConfig
    BY <1>4, <1>watched, <1>due DEF UpdateTcpConfig, TimerInv, endpoints, network
  <1>5. CASE DeliverSyn
    <2>1. PICK w \in wire :
            LET synAck == NewPacket(txCount, "SYN_ACK", InitialSeq["server"],
                                    w.pkt.seq + 1, 0, "server")
            IN  /\ IsNext(w) /\ now' = w.due
                /\ \E out \in {{}, {synAck}} :
                     Transmit("server", mgr["server"], out, wire \ {w}, timers, w.due)
      BY <1>5 DEF DeliverSyn, Delivering
    <2> DEFINE synAck == NewPacket(txCount, "SYN_ACK", InitialSeq["server"],
                                   w.pkt.seq + 1, 0, "server")
    <2>2. {synAck} \in SUBSET Packet
      <3>1. InitialSeq["server"] \in Nat /\ txCount \in Nat
        BY SessionAssumption, <1>roles, <1>type DEF TypeOK
      <3>2. w.pkt.seq \in Nat
        BY <1>type, DeliveryType
      <3> QED
        BY <3>1, <3>2, <1>roles DEF NewPacket, Packet, Kinds
    <2>3. \A p \in {synAck} : p.src = "server"
      BY DEF NewPacket
    <2>4. PICK out \in {{}, {synAck}} :
            Transmit("server", mgr["server"], out, wire \ {w}, timers, w.due)
      BY <2>1
    <2> HIDE DEF synAck
    <2>5. out \in SUBSET Packet /\ \A p \in out : p.src = "server"
      BY <2>2, <2>3
    <2> QED
      BY <2>1, <2>4, <2>5, <1>roles, <1>mgrs, <1>simple
  <1>6. CASE DeliverSynAck
    <2>w. PICK w \in wire :
            LET reply == NewPacket(txCount + Cardinality(AckedOutput("client", w.pkt)), "ACK",
                                   sndNxt'["client"], rcvNxt'["client"], 0, "client")
            IN  /\ IsNext(w) /\ now' = w.due
                /\ \E more \in {{}, {reply}} :
                     Transmit("client", AckedManager("client", w.pkt),
                              AckedOutput("client", w.pkt) \cup more, wire \ {w}, timers, w.due)
      BY <1>6, <1>type, <1>roles DEF DeliverSynAck, Delivering, TypeOK
    <2>1. PICK reply :
            /\ IsNext(w) /\ now' = w.due
            /\ reply = NewPacket(txCount + Cardinality(AckedOutput("client", w.pkt)), "ACK",
                                 sndNxt'["client"], rcvNxt'["client"], 0, "client")
            /\ \E more \in {{}, {reply}} :
                 Transmit("client", AckedManager("client", w.pkt),
                          AckedOutput("client", w.pkt) \cup more, wire \ {w}, timers, w.due)
      BY <2>w
    <2>2. w.pkt \in Packet
      BY <1>type, DeliveryType
    <2>3. /\ \A p \in AckedOutput("client", w.pkt) : p.src = "client"
          /\ AckedManager("client", w.pkt).inFlight \subseteq mgr["client"].inFlight
      BY <2>2, <1>type, <1>roles, <1>watched, AckStepSource
    <2>4. /\ AckedManager("client", w.pkt) \in Manager
          /\ AckedOutput("client", w.pkt) \in SUBSET Packet
          /\ Cardinality(AckedOutput("client", w.pkt)) \in Nat
      BY <2>2, <1>type, <1>roles, AckStepProperties, FS_CardinalityType DEF SendTypes
    <2>5. reply \in Packet /\ reply.src = "client"
      <3>1. /\ txCount + Cardinality(AckedOutput("client", w.pkt)) \in Nat
            /\ sndNxt'["client"] \in Nat /\ rcvNxt'["client"] \in Nat
        <4>1. sndNxt' \in [Roles -> Nat] /\ rcvNxt' \in [Roles -> Nat] /\ txCount \in Nat
          BY <1>type DEF TypeInv, TypeOK
        <4> QED
          BY <2>4, <4>1, <1>roles
      <3> QED
        BY <2>1, <3>1, <1>roles DEF NewPacket, Packet, Kinds
    <2>6. PICK more \in {{}, {reply}} :
            Transmit("client", AckedManager("client", w.pkt),
                     AckedOutput("client", w.pkt) \cup more, wire \ {w}, timers, w.due)
      BY <2>1
    <2>7. /\ AckedOutput("client", w.pkt) \cup more \in SUBSET Packet
          /\ \A p \in AckedOutput("client", w.pkt) \cup more : p.src = "client"
      BY <2>3, <2>4, <2>5
    <2> QED
      BY <2>1, <2>3, <2>4, <2>6, <2>7, <1>roles, <1>simple
  <1>7. CASE DeliverAck
    <2>1. PICK w \in wire, r \in Roles :
            /\ r = Peer(w.pkt.src) /\ IsNext(w) /\ now' = w.due
            /\ \E extra \in {{}, {TimeWaitEvent(r, w.due + tcpConfig.timeWait)}} :
                 Transmit(r, AckedManager(r, w.pkt), AckedOutput(r, w.pkt), wire \ {w},
                          timers \cup extra, w.due)
      BY <1>7, <1>type, DeliveryType DEF DeliverAck, Delivering
    <2>2. w.pkt \in Packet /\ w.due \in Nat
      BY <1>type, DeliveryType
    <2>3. /\ \A p \in AckedOutput(r, w.pkt) : p.src = r
          /\ AckedManager(r, w.pkt).inFlight \subseteq mgr[r].inFlight
      BY <2>2, <1>type, <1>watched, AckStepSource
    <2>4. AckedManager(r, w.pkt) \in Manager /\ AckedOutput(r, w.pkt) \in SUBSET Packet
      BY <2>2, <1>type, AckStepProperties DEF SendTypes
    <2>5. tcpConfig.timeWait \in Nat
      <3>1. tcpConfig \in TcpConfigs
        BY SessionAssumption, <1>type DEF TypeOK
      <3> QED
        BY <3>1 DEF TcpConfigs
    <2>6. PICK extra \in {{}, {TimeWaitEvent(r, w.due + tcpConfig.timeWait)}} :
            Transmit(r, AckedManager(r, w.pkt), AckedOutput(r, w.pkt), wire \ {w},
                     timers \cup extra, w.due)
      BY <2>1
    <2>7. \A x \in extra : x.due >= w.due
      BY <2>2, <2>5 DEF TimeWaitEvent
    <2> QED
      BY <2>1, <2>3, <2>4, <2>6, <2>7, <1>deliver
  <1>8. CASE DeliverFin
    <2>1. PICK w \in wire, r \in Roles :
            LET fin == NewPacket(txCount + 1, "FIN", sndNxt[r], NoAck, 0, r)
            IN  /\ r = Peer(w.pkt.src) /\ IsNext(w) /\ now' = w.due
                /\ \E more \in {{}, {fin}},
                      extra \in {{}, {TimeWaitEvent(r, w.due + tcpConfig.timeWait)}} :
                     Transmit(r, mgr[r], {PureAck(r, w.pkt.seq + 1)} \cup more, wire \ {w},
                              timers \cup extra, w.due)
      BY <1>8, <1>type, DeliveryType DEF DeliverFin, Delivering
    <2> DEFINE fin == NewPacket(txCount + 1, "FIN", sndNxt[r], NoAck, 0, r)
               ack == PureAck(r, w.pkt.seq + 1)
    <2>2. w.pkt.seq + 1 \in Nat /\ w.due \in Nat
      BY <1>type, DeliveryType
    <2>3. /\ fin \in Packet /\ fin.src = r
          /\ ack \in Packet /\ ack.src = r
      BY <2>2, <1>type DEF PureAck, NewPacket, Packet, Kinds, TypeOK
    <2>4. tcpConfig.timeWait \in Nat
      <3>1. tcpConfig \in TcpConfigs
        BY SessionAssumption, <1>type DEF TypeOK
      <3> QED
        BY <3>1 DEF TcpConfigs
    <2>5. PICK more \in {{}, {fin}},
               extra \in {{}, {TimeWaitEvent(r, w.due + tcpConfig.timeWait)}} :
            Transmit(r, mgr[r], {ack} \cup more, wire \ {w}, timers \cup extra, w.due)
      BY <2>1
    <2> HIDE DEF fin, ack
    <2>6. {ack} \cup more \in SUBSET Packet /\ \A p \in {ack} \cup more : p.src = r
      BY <2>3
    <2>7. \A x \in extra : x.due >= w.due
      BY <2>2, <2>4 DEF TimeWaitEvent
    <2> QED
      BY <2>1, <2>5, <2>6, <2>7, <1>mgrs, <1>deliver
  <1>9. CASE DeliverData
    <2>1. PICK w \in wire, r \in Roles :
            /\ r = Peer(w.pkt.src) /\ IsNext(w) /\ now' = w.due
            /\ Transmit(r, mgr[r], {PureAck(r, rcvNxt'[r])}, wire \ {w}, timers, w.due)
      BY <1>9, <1>type, DeliveryType DEF DeliverData, Delivering, TypeOK
    <2> DEFINE ack == PureAck(r, rcvNxt'[r])
    <2>2. ack \in Packet /\ ack.src = r
      BY <1>type DEF PureAck, NewPacket, Packet, Kinds, TypeInv, TypeOK
    <2> HIDE DEF ack
    <2>3. Transmit(r, mgr[r], {ack}, wire \ {w}, timers, w.due)
      BY <2>1 DEF ack
    <2>4. {ack} \in SUBSET Packet /\ \A p \in {ack} : p.src = r
      BY <2>2
    <2> QED
      BY <2>1, <2>3, <2>4, <1>mgrs, <1>simple
  <1>10. CASE RtoCheck
    <2>1. PICK x \in timers :
            /\ IsNext(x) /\ now' = x.due
            /\ LET late == TimedOutPackets(mgr[x.role], x.due)
               IN  Transmit(x.role, Cancel(CheckTimeouts(mgr[x.role], x.due), Ids(late)),
                            Copies(late), wire, timers \ {x}, x.due)
            /\ x.kind = "rto_check"
      BY <1>10 DEF RtoCheck, Firing
    <2> DEFINE r == x.role
               late == TimedOutPackets(mgr[r], x.due)
               m == Cancel(CheckTimeouts(mgr[r], x.due), Ids(late))
    <2>2. /\ x.due \in Nat /\ r \in Roles
          /\ \A w \in wire : w.due >= x.due
          /\ \A t \in timers : t.due >= x.due
      BY <2>1, <1>type, TimerType, NextIsEarliest
    <2>3. /\ \A p \in Copies(late) : p.src = r
          /\ \A e \in m.inFlight : e \in mgr[r].inFlight /\ e.deadline > x.due
      BY <2>2, <1>mgrs, <1>watched, TimeoutStep
    <2>4. m \in Manager
      BY <2>2, <1>mgrs, CheckTimeoutsProperties, CancelProperties
    <2>5. Copies(late) \in SUBSET Packet
      <3>1. late \in SUBSET Packet /\ IsFiniteSet(late)
        BY <2>2, <1>type, TimedOutPacketsProperties DEF TypeOK
      <3> QED
        BY <3>1, <1>type, CopiesProperties DEF TypeOK
    <2>6. Transmit(r, m, Copies(late), wire, timers \ {x}, x.due)
      BY <2>1
    <2> HIDE DEF late, m
    <2>7. \A e \in m.inFlight : Watched(r, e, timers \ {x})
      <3> SUFFICES ASSUME NEW e \in m.inFlight PROVE Watched(r, e, timers \ {x})
        OBVIOUS
      <3>1. Watched(r, e, timers) /\ e.deadline > x.due
        BY <2>2, <2>3, <1>watched
      <3>2. PICK t \in timers : t.kind = "rto_check" /\ t.role = r /\ t.due = e.deadline
        BY <3>1 DEF Watched
      <3>3. t # x
        BY <2>2, <3>1, <3>2
      <3> QED
        BY <3>1, <3>2, <3>3 DEF Watched
    <2>8. \A q \in Roles \ {r} : \A e \in mgr[q].inFlight : Watched(q, e, timers \ {x})
      BY <1>watched DEF Watched
    <2>9. now' = x.due /\ \A t \in timers \ {x} : t.due >= x.due
      BY <2>1, <2>2
    <2> HIDE DEF r
    <2> QED
      BY <2>2, <2>3, <2>4, <2>5, <2>6, <2>7, <2>8, <2>9, <1>type, TransmitTimers
  <1>11. CASE TimeWaitExpiry
    <2>1. PICK x \in timers :
            /\ IsNext(x) /\ now' = x.due /\ x.kind = "time_wait_expiry"
            /\ timers' = timers \ {x} /\ mgr' = mgr /\ wire' = wire
      BY <1>11 DEF TimeWaitExpiry, Firing
    <2>2. /\ \A w \in wire : w.due >= x.due
          /\ \A t \in timers : t.due >= x.due
      BY <2>1, <1>type, NextIsEarliest
    <2>3. \A r \in Roles : \A e \in mgr[r].inFlight : Watched(r, e, timers \ {x})
      BY <2>1, <1>watched DEF Watched
    <2> QED
      BY <2>1, <2>2, <2>3 DEF TimerInv
  <1>12. CASE UNCHANGED vars
    BY <1>12, <1>watched, <1>due DEF TimerInv, vars, network
  <1> QED
    BY <1>1, <1>2, <1>3, <1>4, <1>5, <1>6, <1>7, <1>8, <1>9, <1>10, <1>11, <1>12
       DEF Next, Command, ProcessNext, SendMessage

\* In every reachable state every tracked packet has an rto_check pending at
\* exactly its deadline and nothing is due in the past, whatever is lost,
\* delayed, resent or reconfigured (session.py _transmit, _resend,
\* _handle_rto_check; scheduler.py; clock.py advance_to).
THEOREM TimersInvariant == Spec => []TimersCoverInFlight
  <1>1. Init => TimerInv
    <2>1. Init => /\ \A r \in Roles : mgr[r].inFlight = {}
                  /\ wire = {} /\ timers = {}
      BY DEF Init, InitManager
    <2> QED
      BY <2>1, InitTypeInv DEF TimerInv
  <1>2. TimerInv => TimersCoverInFlight
    BY DEF TimerInv, Watched, TimersCoverInFlight
  <1>3. TimerInv => TypeInv
    BY DEF TimerInv
  <1> QED
    BY <1>1, <1>2, <1>3, StepTypeInv, StepTimerInv, PTL DEF Spec

=============================================================================
