---------------------------- MODULE Retransmission ----------------------------
(***************************************************************************)
(* The retransmission manager of one endpoint                              *)
(* (app/simulation/retransmission.py), as operators on its record          *)
(*   inFlight   : the tracked packets, each with its RTO deadline and the  *)
(*                number of timeouts counted against it                    *)
(*   lastAck    : the highest cumulative ACK seen, NoAck before the first  *)
(*   dupAcks    : ACKs since then that made no progress                    *)
(*   recovering : the id of the packet under fast retransmit, as a set of  *)
(*                at most one                                              *)
(* A packet is identified by its transmission_order.                       *)
(***************************************************************************)
EXTENDS CongestionControl, FiniteSets

CONSTANT ManagerConfig
  \* the TCPConfig both managers were built with; they keep it for life

NoAck == -1

\* TCPConfig: the fields the engine reads, within the bounds the model class
\* declares (time_wait_ms has none there).
TcpConfigs == [mss : Nat \ {0}, initialCwnd : Nat \ {0}, rto : Nat \ {0},
               maxRetries : Nat \ {0}, dupAckThreshold : Nat \ {0},
               initialSsthresh : Nat \ {0, 1}, timeWait : Nat]

ASSUME ManagerConfigAssumption == ManagerConfig \in TcpConfigs

Roles == {"client", "server"}
Kinds == {"SYN", "SYN_ACK", "ACK", "DATA", "FIN"}

\* The fields of a packet that decide anything: seq_no, ack_no, the flags
\* (kind), the payload size and the source.
Packet == [id : Nat, seq : Nat, ack : Nat \cup {NoAck}, kind : Kinds,
           len : Nat, src : Roles]

Entry == [pkt : Packet, deadline : Nat, retries : Nat]

Manager == [inFlight : SUBSET Entry, lastAck : Nat \cup {NoAck},
            dupAcks : Nat, recovering : SUBSET Nat]

InitManager ==
  [inFlight |-> {}, lastAck |-> NoAck, dupAcks |-> 0, recovering |-> {}]

\* One past the last sequence number the packet takes: SYN and FIN take one.
SegmentEndSeq(p) ==
  p.seq + p.len + (IF p.kind \in {"SYN", "SYN_ACK", "FIN"} THEN 1 ELSE 0)

RegisterSent(m, pkts, t) ==
  [m EXCEPT !.inFlight =
     @ \cup {[pkt |-> p, deadline |-> t + ManagerConfig.rto, retries |-> 0] : p \in pkts}]

\* Mutant of Cancel: the copy that was resent stays tracked.
CancelNothing(m, ids) == m

Cancel(m, ids) == [m EXCEPT !.inFlight = {e \in @ : e.pkt.id \notin ids}]

Ids(pkts) == {p.id : p \in pkts}

\* The tracked packet with the lowest sequence number (of two, the older), as
\* a set that is empty when nothing is tracked.
OldestUnacked(m) ==
  {e.pkt : e \in {f \in m.inFlight :
                    \A g \in m.inFlight :
                      \/ f.pkt.seq < g.pkt.seq
                      \/ f.pkt.seq = g.pkt.seq /\ f.pkt.id <= g.pkt.id}}

\* Mutant of IsNewProgress: any ACK unlike the last one is progress.
IsChangedAck(m, a) == a # m.lastAck

IsNewProgress(m, a) == m.lastAck = NoAck \/ a > m.lastAck

Acked(m, a) ==
  IF IsNewProgress(m, a)
  THEN {e \in m.inFlight : SegmentEndSeq(e.pkt) <= a}
  ELSE {}

IsRecoveryAck(m, a) ==
  \E e \in Acked(m, a) : e.pkt.id \in m.recovering

\* Not progress and something is outstanding.  An ACK older than lastAck
\* counts too: the code compares nothing further.
IsDuplicateAck(m, a) == ~IsNewProgress(m, a) /\ m.inFlight # {}

TriggersFastRetransmit(m, a) ==
  IsDuplicateAck(m, a) /\ m.dupAcks + 1 = ManagerConfig.dupAckThreshold

\* on_ack: the manager it leaves.  (The deadline it moves on a fast
\* retransmit belongs to the entry the caller cancels right away.)
OnAck(m, a) ==
  CASE IsNewProgress(m, a) ->
         [inFlight   |-> m.inFlight \ Acked(m, a),
          lastAck    |-> a,
          dupAcks    |-> 0,
          recovering |-> IF IsRecoveryAck(m, a) THEN {} ELSE m.recovering]
    [] IsDuplicateAck(m, a) ->
         [m EXCEPT !.dupAcks = @ + 1,
                   !.recovering = IF TriggersFastRetransmit(m, a)
                                  THEN Ids(OldestUnacked(m)) ELSE @]
    [] OTHER -> m

\* on_ack: what it tells the congestion controller.
OnAckCongestion(m, c, a) ==
  CASE Acked(m, a) # {} -> OnNewAck(c, IsRecoveryAck(m, a))
    [] TriggersFastRetransmit(m, a) -> OnFastRetransmit(c)
    [] IsDuplicateAck(m, a) /\ m.dupAcks + 1 > ManagerConfig.dupAckThreshold ->
         OnDuplicateAckDuringRecovery(c)
    [] OTHER -> c

\* on_ack: should_fast_retransmit_packet, as a set of at most one packet.
FastRetransmitTarget(m, a) ==
  IF TriggersFastRetransmit(m, a) THEN OldestUnacked(m) ELSE {}

Expired(m, t) == {e \in m.inFlight : e.deadline <= t}

\* Mutant of Exceeded: the last retry is not granted.
ExceededEarly(e) == e.retries + 1 >= ManagerConfig.maxRetries

Exceeded(e) == e.retries + 1 > ManagerConfig.maxRetries

\* check_timeouts: the expired packets the caller is to resend ...
TimedOutPackets(m, t) == {e.pkt : e \in {f \in Expired(m, t) : ~Exceeded(f)}}

\* ... and the manager it leaves: retries counted, deadlines moved, entries
\* over the limit dropped.
CheckTimeouts(m, t) ==
  [m EXCEPT !.inFlight =
     {e \in @ : e \notin Expired(m, t)}
       \cup {[e EXCEPT !.retries = @ + 1, !.deadline = t + ManagerConfig.rto] :
               e \in {f \in Expired(m, t) : ~Exceeded(f)}}]

\* check_timeouts calls on_timeout once per expired entry.  A second call
\* leaves cwnd = 1 and ssthresh = 2, and further ones change nothing.
TimeoutsCongestion(m, c, t) ==
  CASE Expired(m, t) = {}                  -> c
    [] \E e \in m.inFlight : Expired(m, t) = {e} -> OnTimeout(c)
    [] OTHER                               -> OnTimeout(OnTimeout(c))

=============================================================================
