---------------------------- MODULE ObservedSession ----------------------------
(***************************************************************************)
(* The statistics engine (app/services/statistics_engine.py) subscribed to *)
(* a session's event bus.  The bus calls its subscribers while the handler *)
(* that publishes is running, so the counters move in the same step as the *)
(* session; the engine itself changes nothing in it.                       *)
(* RTT samples, rates, elapsed time and the copies of state and window are *)
(* left out.                                                               *)
(***************************************************************************)
EXTENDS StreamRefinement, FiniteSetsExt

VARIABLES
  stats,        \* the counters of SimulationStatistics
  copies        \* packets on the wire that were built as retransmissions

observedVars == <<vars, stats, copies>>

Statistics == [sent : Nat, delivered : Nat, lost : Nat, retransmissions : Nat,
               duplicateAcks : Nat, timeouts : Nat, fastRetransmits : Nat,
               bytesTotal : Nat, bytesUnique : Nat]

InitStatistics ==
  /\ stats = [sent |-> 0, delivered |-> 0, lost |-> 0, retransmissions |-> 0,
              duplicateAcks |-> 0, timeouts |-> 0, fastRetransmits |-> 0,
              bytesTotal |-> 0, bytesUnique |-> 0]
  /\ copies = {}

\* Mutant of IsCopy: _resend does not mark what it builds.
NeverCopy(p) == FALSE

\* packet.is_retransmission
IsCopy(p) == p.id \in copies

Bytes(pkts) == MapThenSumSet(LAMBDA p : p.len, pkts)

Times(event) == IF event THEN 1 ELSE 0

\* The events of a step, folded by reduce_event: the packets that arrived,
\* whether an ACK was a duplicate and triggered fast retransmit, the timeouts,
\* and the copies sent.  What else was sent or lost shows in the session's
\* own counters.
Fold(arrived, duplicate, fast, expired, resent) ==
  LET unique == {p \in arrived : ~IsCopy(p)}
  IN  /\ stats' = [sent            |-> stats.sent + (txCount' - txCount),
                   delivered       |-> stats.delivered + Cardinality(arrived),
                   lost            |-> stats.lost + (losses' - losses),
                   retransmissions |-> stats.retransmissions + Cardinality(resent),
                   duplicateAcks   |-> stats.duplicateAcks + Times(duplicate),
                   timeouts        |-> stats.timeouts + Cardinality(expired),
                   fastRetransmits |-> stats.fastRetransmits + Times(fast),
                   bytesTotal      |-> stats.bytesTotal + Bytes(arrived),
                   bytesUnique     |-> stats.bytesUnique + Bytes(unique)]
      /\ copies' = (copies \cup Ids(resent)) \cap {w.pkt.id : w \in wire'}

\* A command publishes nothing that counts but what it sends.
FoldCommand == Fold({}, FALSE, FALSE, {}, {})

FoldDelivery ==
  \E w \in wire :
    LET p == w.pkt
        m == mgr[Peer(p.src)]
    IN  /\ IsNext(w)
        /\ IF p.ack # NoAck
           THEN Fold({p}, IsDuplicateAck(m, p.ack), TriggersFastRetransmit(m, p.ack),
                     {}, Copies(FastRetransmitTarget(m, p.ack)))
           ELSE Fold({p}, FALSE, FALSE, {}, {})

FoldTimer ==
  \E e \in timers :
    LET m == mgr[e.role]
    IN  /\ IsNext(e)
        /\ IF e.kind = "rto_check"
           THEN Fold({}, FALSE, FALSE, Expired(m, e.due), Copies(TimedOutPackets(m, e.due)))
           ELSE FoldCommand

ObservedStart == Start /\ FoldCommand
ObservedSend(length) == Send(length) /\ FoldCommand
ObservedClose == Close /\ FoldCommand
ObservedProcessNext == ProcessNext /\ (FoldDelivery \/ FoldTimer)

-----------------------------------------------------------------------------
(* Properties.                                                              *)

\* Every packet sent is delivered, lost or still on the wire, and every
\* retransmission answers exactly one timeout or fast retransmit: none is
\* sent twice for the same cause and no cause is left without one.  A fast
\* retransmit needs a duplicate ACK of its own.
CountersAgree ==
  /\ stats.sent = stats.delivered + stats.lost + Cardinality(wire)
  /\ stats.retransmissions = stats.timeouts + stats.fastRetransmits
  /\ stats.fastRetransmits <= stats.duplicateAcks

\* Goodput never exceeds what the application wrote, however many spurious
\* copies arrive, and whatever the server accepted was delivered.
GoodputBounded ==
  /\ stats.bytesUnique <= Written - FirstByte
  /\ StreamEnd - FirstByte <= stats.bytesTotal
=============================================================================
