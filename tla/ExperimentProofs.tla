---------------------------- MODULE ExperimentProofs ----------------------------
(***************************************************************************)
(* Proofs about the experiment runner and the statistics that listen to    *)
(* its session, for all configurations, losses, delays and budgets.        *)
(***************************************************************************)
EXTENDS ExperimentRunner, StreamProofs, TilingProofs, SumProofs

-----------------------------------------------------------------------------
(* The wire: what is put on it is lost, delivered or still there.           *)

\* Packets on the wire have ids that were given out, one each, and so do the
\* packets whose rto_check is pending.
WireInv ==
  /\ IsFiniteSet(wire)
  /\ \A w \in wire : w.pkt.id < txCount /\ w.order = <<w.pkt.id, 2>>
  /\ \A v, w \in wire : v.pkt.id = w.pkt.id => v = w
  /\ LET checks == {e \in timers : e.kind = "rto_check"}
     IN  /\ \A e \in checks : e.order[1] < txCount
         /\ \A e, f \in checks : e.order = f.order => e.role = f.role

\* The packets out have the next ids.
Fresh(out) ==
  /\ IsFiniteSet(out)
  /\ \A p \in out : txCount <= p.id /\ p.id < txCount + Cardinality(out)
  /\ \A p, q \in out : p.id = q.id => p = q

\* A step that takes n packets off the wire to deliver them.
Delivers(n) ==
  /\ WireInv'
  /\ txCount' \in Nat /\ losses' \in Nat /\ txCount' >= txCount /\ losses' >= losses
  /\ txCount' - txCount
       = (losses' - losses) + (Cardinality(wire') - Cardinality(wire)) + n

LEMMA TransmitWire ==
  ASSUME TypeInv, WireInv, NEW r, NEW m, NEW out \in SUBSET Packet, Fresh(out),
         NEW gone \in SUBSET wire, NEW onWire, onWire = wire \ gone, NEW armed, NEW t,
         \A e \in armed : e.kind = "rto_check" => e \in timers,
         Transmit(r, m, out, onWire, armed, t)
  PROVE  Delivers(Cardinality(gone))
  <1>type. txCount \in Nat /\ losses \in Nat /\ IsFiniteSet(wire) /\ IsFiniteSet(out)
    BY DEF TypeInv, TypeOK, WireInv, Fresh
  <1>1. PICK fate \in [out -> Delays \cup {Lost}] :
          /\ wire' = (wire \ gone) \cup {DeliveryEvent(p, t + fate[p]) :
                                           p \in out \ {p \in out : fate[p] = Lost}}
          /\ txCount' = txCount + Cardinality(out)
          /\ losses' = losses + Cardinality({p \in out : fate[p] = Lost})
          /\ timers' = armed \cup {RtoEvent(p, t + ManagerConfig.rto) :
                                     p \in {q \in out : NeedsAckTracking(q)}}
    BY DEF Transmit
  <1> DEFINE lost == {p \in out : fate[p] = Lost}
             live == out \ lost
             f == [p \in live |-> DeliveryEvent(p, t + fate[p])]
             new == {f[p] : p \in live}
             old == wire \ gone
  <1>2. wire' = old \cup new
    BY <1>1
  <1>3. IsFiniteSet(lost) /\ IsFiniteSet(live) /\ lost \cup live = out /\ lost \cap live = {}
    <2>1. lost \in SUBSET out /\ live \in SUBSET out
      OBVIOUS
    <2> QED
      BY <1>type, <2>1, FS_Subset
  <1>4. /\ Cardinality(out) = Cardinality(lost) + Cardinality(live)
        /\ Cardinality(out) \in Nat /\ Cardinality(lost) \in Nat /\ Cardinality(live) \in Nat
    <2> HIDE DEF lost, live
    <2>1. Cardinality(lost) \in Nat /\ Cardinality(live) \in Nat
      BY <1>3, FS_CardinalityType
    <2>2. Cardinality(lost \cup live)
            = Cardinality(lost) + Cardinality(live) - Cardinality(lost \cap live)
      BY <1>3, FS_Union
    <2>3. Cardinality(lost \cap live) = 0 /\ Cardinality(lost \cup live) = Cardinality(out)
      BY <1>3, FS_EmptySet
    <2> QED
      BY <2>1, <2>2, <2>3
  <1>5. \A p \in live : f[p].pkt = p /\ f[p].order = <<p.id, 2>>
    BY DEF DeliveryEvent
  <1> HIDE DEF f
  <1>6. IsFiniteSet(new) /\ Cardinality(new) = Cardinality(live)
    <2>1. f \in [live -> new]
      BY DEF f
    <2>2. f \in Injection(live, new)
      BY <1>5, <2>1 DEF Injection, IsInjective
    <2>3. f \in Surjection(live, new)
      BY <2>1 DEF Surjection
    <2> HIDE DEF live, new
    <2>4. f \in Bijection(live, new)
      BY <2>2, <2>3 DEF Bijection
    <2> QED
      BY <1>3, <2>4, FS_Bijection DEF ExistsBijection
  <1>7. \A w \in new : w.pkt \in out
    BY <1>5
  <1>8. \A w \in new : w.pkt.id \in Nat /\ txCount <= w.pkt.id /\ w.pkt.id < txCount'
    BY <1>1, <1>7 DEF Fresh, Packet
  <1>9. \A w \in wire : w.pkt.id \in Nat /\ w.pkt.id < txCount
    <2>1. \A w \in wire : w.pkt \in Packet
      BY DeliveryType DEF TypeInv
    <2> QED
      BY <2>1 DEF WireInv, Packet
  <1>10. /\ IsFiniteSet(old) /\ Cardinality(old) \in Nat
         /\ Cardinality(wire) = Cardinality(old) + Cardinality(gone)
         /\ Cardinality(gone) \in Nat
    <2>1. IsFiniteSet(gone) /\ IsFiniteSet(old)
      BY <1>type, FS_Subset
    <2>2. old \cup gone = wire /\ old \cap gone = {}
      OBVIOUS
    <2> HIDE DEF old
    <2>3. Cardinality(old \cup gone)
            = Cardinality(old) + Cardinality(gone) - Cardinality(old \cap gone)
      BY <2>1, FS_Union
    <2>4. Cardinality(old) \in Nat /\ Cardinality(gone) \in Nat
      BY <2>1, FS_CardinalityType
    <2>5. Cardinality(old \cap gone) = 0 /\ Cardinality(old \cup gone) = Cardinality(wire)
      BY <2>2, FS_EmptySet
    <2> QED
      BY <2>1, <2>3, <2>4, <2>5
  <1>11. old \cap new = {}
    BY <1>type, <1>8, <1>9
  <1> HIDE DEF old, new, live, lost
  <1>12. /\ IsFiniteSet(wire') /\ Cardinality(wire') \in Nat
         /\ Cardinality(wire') = Cardinality(old) + Cardinality(live)
    <2>1. Cardinality(old \cup new)
            = Cardinality(old) + Cardinality(new) - Cardinality(old \cap new)
      BY <1>6, <1>10, FS_Union
    <2>2. IsFiniteSet(wire')
      BY <1>2, <1>6, <1>10, FS_Union
    <2>3. Cardinality(old \cap new) = 0
      BY <1>11, FS_EmptySet
    <2> QED
      BY <1>2, <1>4, <1>6, <1>10, <2>1, <2>2, <2>3
  <1>old. \A w \in old : w \in wire /\ w.pkt.id \in Nat /\ w.pkt.id < txCount
    BY <1>9 DEF old
  <1>new. \A w \in new : w.order = <<w.pkt.id, 2>> /\ \A v \in new : v.pkt.id = w.pkt.id => v = w
    <2> SUFFICES ASSUME NEW w \in new
                 PROVE  w.order = <<w.pkt.id, 2>> /\ \A v \in new : v.pkt.id = w.pkt.id => v = w
      OBVIOUS
    <2>1. PICK p \in live : w = f[p]
      BY DEF new
    <2>2. \A v \in new : \E q \in live : v = f[q]
      BY DEF new
    <2>3. \A q \in live : q.id = p.id => q = p
      BY <1>3, <2>1 DEF Fresh
    <2> QED
      BY <1>5, <2>1, <2>2, <2>3
  <1>later. txCount' \in Nat /\ txCount <= txCount'
    BY <1>1, <1>4, <1>type
  <1>13. \A w \in wire' : w.pkt.id < txCount' /\ w.order = <<w.pkt.id, 2>>
    BY <1>2, <1>8, <1>old, <1>new, <1>type, <1>later DEF WireInv
  <1>apart. \A v, w \in wire' : v.pkt.id = w.pkt.id => v = w
    <2> SUFFICES ASSUME NEW v \in wire', NEW w \in wire', v.pkt.id = w.pkt.id PROVE v = w
      OBVIOUS
    <2>1. CASE v \in old /\ w \in old
      BY <1>old, <2>1 DEF WireInv
    <2>2. CASE v \in new /\ w \in new
      BY <1>new, <2>2
    <2>3. CASE ~(v \in old /\ w \in old) /\ ~(v \in new /\ w \in new)
      BY <1>2, <1>8, <1>old, <1>type, <2>3
    <2> QED
      BY <2>1, <2>2, <2>3
  <1>checks. /\ \A e \in timers' : e.kind = "rto_check" => e.order[1] < txCount'
             /\ \A e, g \in timers' : e.kind = "rto_check" /\ g.kind = "rto_check"
                                        /\ e.order = g.order => e.role = g.role
    <2> DEFINE Old(e) == e \in timers /\ e.order[1] \in Nat /\ e.order[1] < txCount
               Of(e, p) == e = RtoEvent(p, t + ManagerConfig.rto)
    <2>1. \A p \in out : p.id \in Nat /\ txCount <= p.id /\ p.id < txCount'
      BY <1>1 DEF Fresh, Packet
    <2>2. ASSUME NEW e \in timers', e.kind = "rto_check"
          PROVE  Old(e) \/ \E p \in out : Of(e, p)
      <3>1. CASE e \in armed
        <4>1. e \in timers /\ e.order[1] < txCount
          BY <2>2, <3>1 DEF WireInv
        <4>2. e \in RtoTimers
          BY <2>2, <4>1 DEF TypeInv, TypeOK, TimeWaitTimers
        <4> QED
          BY <4>1, <4>2 DEF RtoTimers
      <3>2. CASE e \notin armed
        BY <1>1, <3>2
      <3> QED
        BY <3>1, <3>2
    <2>3. ASSUME NEW e, NEW p, Of(e, p)
          PROVE  e.order = <<p.id, 1>> /\ e.order[1] = p.id /\ e.role = p.src
      BY <2>3 DEF RtoEvent
    <2>4. ASSUME NEW e \in timers', e.kind = "rto_check" PROVE e.order[1] < txCount'
      <3> HIDE DEF Of
      <3> QED
        BY <1>later, <1>type, <2>1, <2>2, <2>3, <2>4
    <2>5. ASSUME NEW e \in timers', NEW g \in timers',
                 e.kind = "rto_check", g.kind = "rto_check", e.order = g.order
          PROVE  e.role = g.role
      <3> HIDE DEF Of
      <3>1. CASE Old(e) /\ Old(g)
        BY <2>5, <3>1 DEF WireInv
      <3>2. CASE \E p, q \in out : Of(e, p) /\ Of(g, q)
        <4>1. PICK p \in out, q \in out : Of(e, p) /\ Of(g, q)
          BY <3>2
        <4>2. p.id = q.id
          BY <2>3, <2>5, <4>1
        <4>3. p = q
          BY <4>2 DEF Fresh
        <4> QED
          BY <2>3, <4>1, <4>3
      <3>3. ASSUME NEW a, NEW b, Old(a), NEW p \in out, Of(b, p) PROVE a.order # b.order
        BY <1>type, <2>1, <2>3, <3>3
      <3> HIDE DEF Old
      <3> QED
        BY <2>2, <2>5, <3>1, <3>2, <3>3
    <2> QED
      BY <2>4, <2>5
  <1>14. txCount' = txCount + Cardinality(out) /\ losses' = losses + Cardinality(lost)
    BY <1>1 DEF lost
  <1> QED
    BY <1>4, <1>10, <1>12, <1>13, <1>14, <1>apart, <1>checks, <1>type DEF Delivers, WireInv

\* One packet under the next id, or two under the next two.
LEMMA ControlsFresh ==
  ASSUME txCount \in Nat
  PROVE  /\ Fresh({})
         /\ \A p : p.id = txCount => Fresh({p})
         /\ \A p, q : p.id = txCount /\ q.id = txCount + 1 => Fresh({p, q})
  <1>1. Fresh({})
    BY FS_EmptySet DEF Fresh
  <1>2. ASSUME NEW p, p.id = txCount PROVE Fresh({p})
    <2>1. IsFiniteSet({p}) /\ Cardinality({p}) = 1
      BY FS_Singleton
    <2> QED
      BY <1>2, <2>1 DEF Fresh
  <1>3. ASSUME NEW p, NEW q, p.id = txCount, q.id = txCount + 1 PROVE Fresh({p, q})
    <2>1. q \notin {p}
      BY <1>3
    <2>a. IsFiniteSet({p}) /\ Cardinality({p}) = 1
      BY FS_Singleton
    <2>2. IsFiniteSet({p} \cup {q}) /\ Cardinality({p} \cup {q}) = 2
      BY <2>1, <2>a, FS_AddElement
    <2>3. {p} \cup {q} = {p, q}
      OBVIOUS
    <2> QED
      BY <1>3, <2>2, <2>3 DEF Fresh
  <1> QED
    BY <1>1, <1>2, <1>3

LEMMA DataFresh ==
  ASSUME txCount \in Nat, sndNxt["client"] \in Nat,
         NEW m, NEW c, NEW segs, NEW next, SendTypes(m, c, segs, next),
         Apart(segs), Abut(segs)
  PROVE  Fresh(DataPackets(m, c, segs, next))
  BY DataTiles DEF Fresh, Pieces

LEMMA CopiesFresh ==
  ASSUME txCount \in Nat, NEW P \in SUBSET Packet, IsFiniteSet(P),
         \A p, q \in P : p # q => p.id # q.id
  PROVE  /\ Fresh(Copies(P)) /\ Copies(P) \in SUBSET Packet
         /\ Cardinality(Copies(P)) = Cardinality(P)
  <1>1. Cardinality(P) \in Nat
    BY FS_CardinalityType
  <1> QED
    BY <1>1, CopiesCount, CopiesProperties DEF Fresh

\* Tracked packets have different ids.
LEMMA TrackedApart ==
  ASSUME TilingInv, NEW r \in Roles
  PROVE  \A p, q \in {e.pkt : e \in mgr[r].inFlight} : p # q => p.id # q.id
  <1>1. Tiled(mgr[r].inFlight, Unacked(r), sndNxt[r], txCount)
    BY DEF TilingInv, Tiles
  <1> QED
    BY <1>1 DEF Tiled

LEMMA AckFresh ==
  ASSUME TilingInv, NEW r \in Roles, NEW p \in Packet
  PROVE  Fresh(AckedOutput(r, p)) /\ AckedOutput(r, p) \in SUBSET Packet
  <1> DEFINE target == FastRetransmitTarget(mgr[r], p.ack)
  <1>type. /\ TypeInv /\ txCount \in Nat /\ sndNxt["client"] \in Nat
           /\ mgr[r] \in Manager /\ IsFiniteSet(mgr[r].inFlight)
    BY TileTypes DEF TilingInv
  <1>1. /\ SendTypes(AckedManager(r, p), AckedCongestion(r, p), segments, nextSeg)
        /\ AckedOutput(r, p) \in SUBSET Packet
    BY <1>type, AckStepProperties
  <1>2. CASE Resumes(r, p)
    <2>1. Apart(segments) /\ Abut(segments)
      BY DEF TilingInv, ConnInv, Tiles
    <2> QED
      BY <1>1, <1>2, <1>type, <2>1, DataFresh DEF AckedOutput
  <1>3. CASE ~Resumes(r, p)
    <2>1. /\ target \subseteq {e.pkt : e \in mgr[r].inFlight}
          /\ target \in SUBSET Packet /\ IsFiniteSet(target)
      BY <1>type, FastRetransmitTargetProperties
    <2>2. \A x, y \in target : x # y => x.id # y.id
      BY <2>1, TrackedApart
    <2> HIDE DEF target
    <2>3. Fresh(Copies(target))
      BY <1>type, <2>1, <2>2, CopiesFresh
    <2> QED
      BY <1>1, <1>3, <2>3 DEF AckedOutput, target
  <1> QED
    BY <1>2, <1>3

-----------------------------------------------------------------------------
(* Every command and event.                                                 *)

LEMMA CommandWire ==
  ASSUME TilingInv, WireInv, ConnInv', Start \/ SendMessage \/ Close \/ UpdateTcpConfig
  PROVE  Delivers(0)
  <1>type. /\ TypeInv /\ TypeOK /\ txCount \in Nat /\ "client" \in Roles
           /\ sndNxt \in [Roles -> Nat] /\ InitialSeq["client"] \in Nat
           /\ mgr["client"] \in Manager
    BY TileTypes DEF TilingInv
  <1>none. /\ {} \in SUBSET wire /\ wire = wire \ {} /\ Cardinality({}) = 0
    BY FS_EmptySet
  <1>1. CASE Start
    <2> DEFINE syn == NewPacket(txCount, "SYN", InitialSeq["client"], NoAck, 0, "client")
    <2>1. syn \in Packet /\ syn.id = txCount
      BY <1>type DEF NewPacket, Packet, Kinds
    <2>2. Transmit("client", mgr["client"], {syn}, wire, timers, now)
      BY <1>1 DEF Start
    <2> HIDE DEF syn
    <2>3. Fresh({syn})
      BY <1>type, <2>1, ControlsFresh
    <2> QED
      BY <1>none, <1>type, <2>1, <2>2, <2>3, TransmitWire
  <1>2. CASE Close
    <2> DEFINE fin == NewPacket(txCount, "FIN", sndNxt["client"], NoAck, 0, "client")
    <2>1. fin \in Packet /\ fin.id = txCount
      BY <1>type DEF NewPacket, Packet, Kinds
    <2>2. Transmit("client", mgr["client"], {fin}, wire, timers, now)
      BY <1>2 DEF Close
    <2> HIDE DEF fin
    <2>3. Fresh({fin})
      BY <1>type, <2>1, ControlsFresh
    <2> QED
      BY <1>none, <1>type, <2>1, <2>2, <2>3, TransmitWire
  <1>3. ASSUME NEW length \in MessageLengths, Send(length) PROVE Delivers(0)
    <2> DEFINE segs == Segment(length, tcpConfig.mss)
               m == mgr["client"]
               c == cong["client"]
               out == DataPackets(m, c, segs, 1)
    <2>1. /\ segments' = segs
          /\ Transmit("client", m, out, wire, timers, now)
      BY <1>3 DEF Send
    <2>2. SendTypes(m, c, segs, 1) /\ Apart(segs) /\ Abut(segs)
      <3>1. length \in Nat /\ tcpConfig \in TcpConfigs
        BY SessionAssumption, <1>type DEF TypeOK
      <3>2. tcpConfig.mss \in Nat \ {0}
        BY <3>1 DEF TcpConfigs
      <3>3. segs \in Seq(SegmentRecords) /\ Ordered(segs)
        BY <3>1, <3>2, SegmentProperties
      <3>4. 1 \in 1 .. Len(segs) + 1
        BY <3>3
      <3>5. Apart(segs) /\ Abut(segs)
        BY <3>1, <3>2, SegmentApart, SegmentAbut
      <3> QED
        BY <1>type, <3>3, <3>4, <3>5 DEF SendTypes, TypeOK
    <2> HIDE DEF segs, m, c
    <2>3. Fresh(out) /\ out \in SUBSET Packet
      BY <1>type, <2>2, DataFresh, DataPacketsProperties
    <2> HIDE DEF out
    <2> QED
      BY <1>none, <1>type, <2>1, <2>3, TransmitWire
  <1>4. CASE UpdateTcpConfig
    <2>1. UNCHANGED <<wire, timers, txCount, losses>>
      BY <1>4 DEF UpdateTcpConfig, network
    <2>2. Cardinality(wire) \in Nat /\ losses \in Nat
      BY <1>type, FS_CardinalityType DEF WireInv, TypeOK
    <2> QED
      BY <1>type, <2>1, <2>2 DEF Delivers, WireInv
  <1> QED
    BY <1>1, <1>2, <1>3, <1>4 DEF SendMessage

LEMMA TimerWire ==
  ASSUME TilingInv, WireInv, RtoCheck \/ TimeWaitExpiry
  PROVE  Delivers(0) /\ \E e \in timers : IsNext(e)
  <1>type. TypeInv /\ TypeOK /\ txCount \in Nat
    BY TileTypes DEF TilingInv
  <1>none. /\ {} \in SUBSET wire /\ wire = wire \ {} /\ Cardinality({}) = 0
    BY FS_EmptySet
  <1>1. CASE RtoCheck
    <2>1. PICK e \in timers :
            LET late == TimedOutPackets(mgr[e.role], e.due)
            IN  /\ IsNext(e)
                /\ Transmit(e.role, Cancel(CheckTimeouts(mgr[e.role], e.due), Ids(late)),
                            Copies(late), wire, timers \ {e}, e.due)
      BY <1>1 DEF RtoCheck, Firing
    <2> DEFINE r == e.role
               late == TimedOutPackets(mgr[r], e.due)
    <2>2. r \in Roles
      BY <1>type, TimerType
    <2>3. mgr[r] \in Manager /\ IsFiniteSet(mgr[r].inFlight)
      BY <2>2, TileTypes DEF TilingInv
    <2>4. late \in SUBSET Packet /\ IsFiniteSet(late)
      BY <2>3, TimedOutPacketsProperties
    <2>5. late \subseteq {f.pkt : f \in mgr[r].inFlight}
      BY DEF TimedOutPackets, Expired
    <2>6. \A p, q \in late : p # q => p.id # q.id
      BY <2>2, <2>5, TrackedApart
    <2> HIDE DEF late
    <2>7. Fresh(Copies(late)) /\ Copies(late) \in SUBSET Packet
      BY <1>type, <2>4, <2>6, CopiesFresh
    <2>8. Transmit(r, Cancel(CheckTimeouts(mgr[r], e.due), Ids(late)),
                   Copies(late), wire, timers \ {e}, e.due)
      BY <2>1 DEF late
    <2> HIDE DEF r
    <2> QED
      BY <1>none, <1>type, <2>1, <2>7, <2>8, TransmitWire
  <1>2. CASE TimeWaitExpiry
    <2>1. /\ UNCHANGED <<wire, txCount, losses>> /\ timers' \subseteq timers
          /\ \E e \in timers : IsNext(e)
      BY <1>2 DEF TimeWaitExpiry, Firing
    <2>2. Cardinality(wire) \in Nat /\ losses \in Nat
      BY <1>type, FS_CardinalityType DEF WireInv, TypeOK
    <2> QED
      BY <1>type, <2>1, <2>2 DEF Delivers, WireInv
  <1> QED
    BY <1>1, <1>2

LEMMA DeliveryWire ==
  ASSUME TilingInv, WireInv, ConnInv',
         DeliverSyn \/ DeliverSynAck \/ DeliverAck \/ DeliverFin \/ DeliverData
  PROVE  Delivers(1) /\ \E w \in wire : IsNext(w)
  <1>type. /\ TypeInv /\ TypeOK /\ txCount \in Nat /\ "client" \in Roles /\ "server" \in Roles
           /\ InitialSeq["server"] \in Nat
           /\ sndNxt \in [Roles -> Nat] /\ rcvNxt \in [Roles -> Nat]
           /\ \A w \in wire : /\ w.pkt \in Packet /\ Peer(w.pkt.src) \in Roles
                              /\ w.pkt.seq \in Nat /\ w.pkt.len \in Nat
    BY TileTypes, DeliveryType DEF TilingInv
  \* Whoever transmits what: it is enough that the packets are fresh.
  <1>sent. ASSUME NEW w \in wire, IsNext(w), NEW r, NEW m, NEW out \in SUBSET Packet, Fresh(out),
                  NEW armed, NEW t, Transmit(r, m, out, wire \ {w}, armed, t),
                  \A e \in armed : e.kind = "rto_check" => e \in timers
           PROVE  Delivers(1) /\ \E x \in wire : IsNext(x)
    <2>1. {w} \in SUBSET wire /\ Cardinality({w}) = 1
      BY FS_Singleton
    <2> DEFINE onWire == wire \ {w}
    <2>2. onWire = wire \ {w} /\ Transmit(r, m, out, onWire, armed, t)
      BY <1>sent
    <2> HIDE DEF onWire
    <2>3. Delivers(Cardinality({w}))
      BY <1>sent, <1>type, <2>1, <2>2, TransmitWire
    <2> QED
      BY <1>sent, <2>1, <2>3
  <1>1. CASE DeliverSyn
    <2>1. PICK w \in wire :
            LET p == w.pkt
                synAck == NewPacket(txCount, "SYN_ACK", InitialSeq["server"], p.seq + 1, 0,
                                    "server")
            IN  /\ IsNext(w)
                /\ \/ Transmit("server", mgr["server"], {synAck}, wire \ {w}, timers, w.due)
                   \/ Transmit("server", mgr["server"], {}, wire \ {w}, timers, w.due)
      BY <1>1 DEF DeliverSyn, Delivering
    <2> DEFINE synAck == NewPacket(txCount, "SYN_ACK", InitialSeq["server"], w.pkt.seq + 1, 0,
                                   "server")
    <2>2. synAck \in Packet /\ synAck.id = txCount
      BY <1>type DEF NewPacket, Packet, Kinds, Roles
    <2>3. Fresh({synAck}) /\ Fresh({}) /\ {} \in SUBSET Packet /\ {synAck} \in SUBSET Packet
      BY <1>type, <2>2, ControlsFresh
    <2>4. \/ Transmit("server", mgr["server"], {synAck}, wire \ {w}, timers, w.due)
          \/ Transmit("server", mgr["server"], {}, wire \ {w}, timers, w.due)
      BY <2>1
    <2> HIDE DEF synAck
    <2> QED
      BY <1>sent, <2>1, <2>3, <2>4
  <1>2. CASE DeliverSynAck
    <2>1. PICK w \in wire :
            LET p == w.pkt
                opening == CanApply(state["client"], "RECV_SYN_ACK")
                next == IF opening THEN p.seq + 1 ELSE rcvNxt["client"]
                resent == AckedOutput("client", p)
                reply == NewPacket(txCount + Cardinality(resent), "ACK", sndNxt'["client"],
                                   next, 0, "client")
            IN  /\ IsNext(w) /\ AckBookkeeping("client", p)
                /\ \/ Transmit("client", AckedManager("client", p), resent \cup {reply},
                               wire \ {w}, timers, w.due)
                   \/ Transmit("client", AckedManager("client", p), resent \cup {},
                               wire \ {w}, timers, w.due)
      BY <1>2 DEF DeliverSynAck, Delivering
    <2> DEFINE p == w.pkt
               opening == CanApply(state["client"], "RECV_SYN_ACK")
               next == IF opening THEN p.seq + 1 ELSE rcvNxt["client"]
               resent == AckedOutput("client", p)
               reply == NewPacket(txCount + Cardinality(resent), "ACK", sndNxt'["client"],
                                  next, 0, "client")
    <2>2. Fresh(resent) /\ resent \in SUBSET Packet /\ Cardinality(resent) \in Nat
      BY <1>type, AckFresh, FS_CardinalityType DEF Fresh
    <2>a. p \in Packet /\ p.seq \in Nat
      BY <1>type, <2>1
    <2>b. next \in Nat
      BY <1>type, <2>a
    <2>c. AckBookkeeping("client", p)
      BY <2>1
    <2> HIDE DEF p, next, opening
    <2>3. sndNxt'["client"] \in Nat /\ next \in Nat
      BY <1>type, <2>a, <2>b, <2>c, AckBookkeepingProperties
    <2>4. reply \in Packet /\ reply.id = txCount + Cardinality(resent)
      BY <1>type, <2>2, <2>3 DEF NewPacket, Packet, Kinds, Roles
    <2>5. \/ Transmit("client", AckedManager("client", p), resent \cup {reply},
                      wire \ {w}, timers, w.due)
          \/ Transmit("client", AckedManager("client", p), resent \cup {},
                      wire \ {w}, timers, w.due)
      BY <2>1 DEF p, next, opening
    <2> HIDE DEF reply, resent
    <2>6. Fresh(resent \cup {reply}) /\ resent \cup {reply} \in SUBSET Packet
      <3>1. reply \notin resent
        BY <1>type, <2>2, <2>4 DEF Fresh, Packet
      <3>2. /\ IsFiniteSet(resent \cup {reply})
            /\ Cardinality(resent \cup {reply}) = Cardinality(resent) + 1
        BY <2>2, <3>1, FS_AddElement DEF Fresh
      <3>3. \A x \in resent : x.id \in Nat
        BY <2>2 DEF Packet
      <3>4. reply.id \in Nat /\ resent \cup {reply} \in SUBSET Packet
        BY <2>2, <2>4 DEF Packet
      <3>5. \A x \in resent \cup {reply} :
              txCount <= x.id /\ x.id < txCount + (Cardinality(resent) + 1)
        BY <1>type, <2>2, <2>4, <3>3, <3>4 DEF Fresh
      <3>6. \A x, y \in resent \cup {reply} : x.id = y.id => x = y
        <4>1. \A x \in resent : x.id # reply.id
          BY <1>type, <2>2, <2>4, <3>3 DEF Fresh
        <4> QED
          BY <2>2, <4>1 DEF Fresh
      <3> QED
        BY <3>2, <3>4, <3>5, <3>6 DEF Fresh
    <2>7. resent \cup {} = resent
      OBVIOUS
    <2> QED
      BY <1>sent, <2>1, <2>2, <2>5, <2>6, <2>7
  <1>3. CASE DeliverAck
    <2>1. PICK w, armed :
            LET p == w.pkt
                r == Peer(p.src)
            IN  /\ w \in wire /\ IsNext(w)
                /\ Transmit(r, AckedManager(r, p), AckedOutput(r, p), wire \ {w}, armed, w.due)
                /\ \A e \in armed : e.kind = "rto_check" => e \in timers
      <3>1. PICK w \in wire :
              LET r == Peer(w.pkt.src)
              IN  /\ IsNext(w)
                  /\ Transmit(r, AckedManager(r, w.pkt), AckedOutput(r, w.pkt), wire \ {w},
                              timers \cup (IF state[r] = "CLOSING"
                                           THEN {TimeWaitEvent(r, w.due + tcpConfig.timeWait)}
                                           ELSE {}), w.due)
        BY <1>3 DEF DeliverAck, Delivering
      <3> DEFINE new == IF state[Peer(w.pkt.src)] = "CLOSING"
                        THEN {TimeWaitEvent(Peer(w.pkt.src), w.due + tcpConfig.timeWait)} ELSE {}
      <3>2. \A e \in new : e.kind # "rto_check"
        BY DEF TimeWaitEvent
      <3>3. Transmit(Peer(w.pkt.src), AckedManager(Peer(w.pkt.src), w.pkt),
                     AckedOutput(Peer(w.pkt.src), w.pkt), wire \ {w}, timers \cup new, w.due)
        BY <3>1
      <3> HIDE DEF new
      <3>4. \A e \in timers \cup new : e.kind = "rto_check" => e \in timers
        BY <3>2
      <3> QED
        BY <3>1, <3>3, <3>4
    <2> DEFINE r == Peer(w.pkt.src)
    <2>a. w \in wire /\ w.pkt \in Packet /\ r \in Roles
      BY <1>type, <2>1
    <2>2. Fresh(AckedOutput(r, w.pkt)) /\ AckedOutput(r, w.pkt) \in SUBSET Packet
      BY <2>a, AckFresh
    <2> QED
      BY <1>sent, <2>1, <2>2
  <1>4. CASE DeliverFin
    <2>1. PICK w, armed :
            LET p == w.pkt
                r == Peer(p.src)
                fin == NewPacket(txCount + 1, "FIN", sndNxt[r], NoAck, 0, r)
            IN  /\ w \in wire /\ IsNext(w)
                /\ \/ Transmit(r, mgr[r], {PureAck(r, p.seq + 1)} \cup {fin},
                               wire \ {w}, armed, w.due)
                   \/ Transmit(r, mgr[r], {PureAck(r, p.seq + 1)} \cup {},
                               wire \ {w}, armed, w.due)
                /\ \A e \in armed : e.kind = "rto_check" => e \in timers
      <3>1. PICK w \in wire :
              LET r == Peer(w.pkt.src)
                  fin == NewPacket(txCount + 1, "FIN", sndNxt[r], NoAck, 0, r)
              IN  /\ IsNext(w)
                  /\ Transmit(r, mgr[r], {PureAck(r, w.pkt.seq + 1)}
                                           \cup (IF state[r] = "ESTABLISHED" THEN {fin} ELSE {}),
                              wire \ {w},
                              timers \cup (IF state[r] = "FIN_WAIT_2"
                                           THEN {TimeWaitEvent(r, w.due + tcpConfig.timeWait)}
                                           ELSE {}), w.due)
        BY <1>4 DEF DeliverFin, Delivering
      <3> DEFINE new == IF state[Peer(w.pkt.src)] = "FIN_WAIT_2"
                        THEN {TimeWaitEvent(Peer(w.pkt.src), w.due + tcpConfig.timeWait)} ELSE {}
      <3>2. \A e \in new : e.kind # "rto_check"
        BY DEF TimeWaitEvent
      <3>3. LET r == Peer(w.pkt.src)
                fin == NewPacket(txCount + 1, "FIN", sndNxt[r], NoAck, 0, r)
            IN  Transmit(r, mgr[r], {PureAck(r, w.pkt.seq + 1)}
                                      \cup (IF state[r] = "ESTABLISHED" THEN {fin} ELSE {}),
                         wire \ {w}, timers \cup new, w.due)
        BY <3>1
      <3> HIDE DEF new
      <3>4. \A e \in timers \cup new : e.kind = "rto_check" => e \in timers
        BY <3>2
      <3> QED
        BY <3>1, <3>3, <3>4
    <2> DEFINE r == Peer(w.pkt.src)
               ack == PureAck(r, w.pkt.seq + 1)
               fin == NewPacket(txCount + 1, "FIN", sndNxt[r], NoAck, 0, r)
    <2>2. /\ ack \in Packet /\ ack.id = txCount
          /\ fin \in Packet /\ fin.id = txCount + 1
      BY <1>type, <2>1 DEF PureAck, NewPacket, Packet, Kinds
    <2>3. \/ Transmit(r, mgr[r], {ack} \cup {fin}, wire \ {w}, armed, w.due)
          \/ Transmit(r, mgr[r], {ack} \cup {}, wire \ {w}, armed, w.due)
      BY <2>1
    <2> HIDE DEF ack, fin
    <2>4. Fresh({ack}) /\ Fresh({ack, fin})
      BY <1>type, <2>2, ControlsFresh
    <2>5. {ack} \cup {fin} = {ack, fin} /\ {ack} \cup {} = {ack}
      OBVIOUS
    <2>6. {ack} \in SUBSET Packet /\ {ack, fin} \in SUBSET Packet
      BY <2>2
    <2> HIDE DEF r
    <2> QED
      BY <1>sent, <2>1, <2>3, <2>4, <2>5, <2>6
  <1>5. CASE DeliverData
    <2>1. PICK w \in wire, next \in Nat :
            /\ IsNext(w)
            /\ Transmit(Peer(w.pkt.src), mgr[Peer(w.pkt.src)],
                        {PureAck(Peer(w.pkt.src), next)}, wire \ {w}, timers, w.due)
      <3>1. PICK w \in wire :
              LET p == w.pkt
                  r == Peer(p.src)
                  next == IF InOrder(r, p) THEN rcvNxt[r] + p.len ELSE rcvNxt[r]
              IN  /\ IsNext(w)
                  /\ Transmit(r, mgr[r], {PureAck(r, next)}, wire \ {w}, timers, w.due)
        BY <1>5 DEF DeliverData, Delivering
      <3>2. (IF InOrder(Peer(w.pkt.src), w.pkt) THEN rcvNxt[Peer(w.pkt.src)] + w.pkt.len
             ELSE rcvNxt[Peer(w.pkt.src)]) \in Nat
        BY <1>type
      <3> QED
        BY <3>1, <3>2
    <2> DEFINE r == Peer(w.pkt.src)
               ack == PureAck(r, next)
    <2>2. ack \in Packet /\ ack.id = txCount
      BY <1>type DEF PureAck, NewPacket, Packet, Kinds
    <2>3. Transmit(r, mgr[r], {ack}, wire \ {w}, timers, w.due)
      BY <2>1
    <2> HIDE DEF ack
    <2>4. Fresh({ack}) /\ {ack} \in SUBSET Packet
      BY <1>type, <2>2, ControlsFresh
    <2> QED
      BY <1>sent, <2>1, <2>3, <2>4
  <1> QED
    BY <1>1, <1>2, <1>3, <1>4, <1>5

-----------------------------------------------------------------------------
(* The statistics.                                                          *)

\* Counters are numbers.
Counted ==
  /\ stats.sent \in Nat /\ stats.delivered \in Nat /\ stats.lost \in Nat
  /\ stats.retransmissions \in Nat /\ stats.timeouts \in Nat
  /\ stats.fastRetransmits \in Nat /\ stats.duplicateAcks \in Nat

CounterInv == TilingInv /\ WireInv /\ Counted /\ CountersAgree

\* Of what is tracked one packet is the oldest.
LEMMA OldestIsOne ==
  ASSUME TilingInv, NEW r \in Roles, mgr[r].inFlight # {}
  PROVE  \E p : OldestUnacked(mgr[r]) = {p}
  <1> DEFINE m == mgr[r]
             E == m.inFlight
             S == {e.pkt.seq : e \in E}
             First(f) == \A g \in E : \/ f.pkt.seq < g.pkt.seq
                                      \/ f.pkt.seq = g.pkt.seq /\ f.pkt.id <= g.pkt.id
  <1>1. \A e \in E : e.pkt.seq \in Nat /\ e.pkt.id \in Nat /\ SegmentEndSeq(e.pkt) \in Nat
    BY TileTypes, ExtentType DEF TilingInv
  <1>2. \A e, f \in E : e # f => e.pkt.seq # f.pkt.seq
    <2>1. Tiled(E, Unacked(r), sndNxt[r], txCount)
      BY DEF TilingInv, Tiles
    <2> HIDE DEF E
    <2> QED
      BY <1>1, <2>1 DEF Tiled, Apt
  <1>3. S \subseteq Nat /\ S # {}
    BY <1>1
  <1>4. PICK a \in S : \A b \in S : ~(<<b, a>> \in OpToRel(<, Nat))
    BY <1>3, WFMin, NatLessThanWellFounded
  <1>5. PICK e \in E : e.pkt.seq = a
    BY <1>4
  <1>6. \A g \in E : e.pkt.seq <= g.pkt.seq
    <2> SUFFICES ASSUME NEW g \in E PROVE e.pkt.seq <= g.pkt.seq
      OBVIOUS
    <2>1. g.pkt.seq \in S
      OBVIOUS
    <2>2. ~(g.pkt.seq < a)
      BY <1>1, <1>3, <1>4, <2>1 DEF OpToRel
    <2> QED
      BY <1>1, <1>5, <2>2
  <1> HIDE DEF E, S
  <1>7. First(e)
    BY <1>1, <1>2, <1>6
  <1>8. \A f \in E : First(f) => f = e
    BY <1>1, <1>2, <1>6
  <1>9. OldestUnacked(m) = {f.pkt : f \in {g \in E : First(g)}}
    BY DEF OldestUnacked, E
  <1> HIDE DEF First
  <1> QED
    BY <1>7, <1>8, <1>9

\* An ACK that triggers a fast retransmit has one packet resent, and is a
\* duplicate.
LEMMA OneFastRetransmit ==
  ASSUME TilingInv, NEW r \in Roles, NEW a
  PROVE  /\ Cardinality(Copies(FastRetransmitTarget(mgr[r], a)))
              = Times(TriggersFastRetransmit(mgr[r], a))
         /\ Times(TriggersFastRetransmit(mgr[r], a)) <= Times(IsDuplicateAck(mgr[r], a))
  <1> DEFINE target == FastRetransmitTarget(mgr[r], a)
  <1>type. txCount \in Nat /\ mgr[r] \in Manager /\ IsFiniteSet(mgr[r].inFlight)
    BY TileTypes DEF TilingInv
  <1>1. TriggersFastRetransmit(mgr[r], a) => IsDuplicateAck(mgr[r], a)
    BY DEF TriggersFastRetransmit
  <1>2. Cardinality(target) = Times(TriggersFastRetransmit(mgr[r], a))
    <2>1. CASE TriggersFastRetransmit(mgr[r], a)
      <3>1. mgr[r].inFlight # {}
        BY <1>1, <2>1 DEF IsDuplicateAck
      <3>2. \E p : target = {p}
        BY <2>1, <3>1, OldestIsOne DEF FastRetransmitTarget
      <3> QED
        BY <2>1, <3>2, FS_Singleton DEF Times
    <2>2. CASE ~TriggersFastRetransmit(mgr[r], a)
      BY <2>2, FS_EmptySet DEF FastRetransmitTarget, Times
    <2> QED
      BY <2>1, <2>2
  <1>3. Cardinality(Copies(target)) = Cardinality(target)
    <2>1. /\ target \subseteq {e.pkt : e \in mgr[r].inFlight}
          /\ target \in SUBSET Packet /\ IsFiniteSet(target)
      BY <1>type, FastRetransmitTargetProperties
    <2>2. \A x, y \in target : x # y => x.id # y.id
      BY <2>1, TrackedApart
    <2> HIDE DEF target
    <2> QED
      BY <1>type, <2>1, <2>2, CopiesFresh
  <1> QED
    BY <1>1, <1>2, <1>3 DEF Times

\* Every packet that timed out is resent: a copy starts over with no retries,
\* so the limit on them is never reached.
LEMMA TimeoutsResent ==
  ASSUME TilingInv, NEW r \in Roles, NEW t
  PROVE  /\ Cardinality(Copies(TimedOutPackets(mgr[r], t))) = Cardinality(Expired(mgr[r], t))
         /\ Cardinality(Expired(mgr[r], t)) \in Nat
  <1> DEFINE E == mgr[r].inFlight
             late == TimedOutPackets(mgr[r], t)
             X == Expired(mgr[r], t)
             f == [e \in X |-> e.pkt]
  <1>type. txCount \in Nat /\ mgr[r] \in Manager /\ IsFiniteSet(E)
    BY TileTypes DEF TilingInv
  <1>1. X \subseteq E /\ IsFiniteSet(X)
    BY <1>type, FS_Subset DEF Expired
  <1>2. \A e \in X : ~Exceeded(e)
    <2>1. \A e \in E : e.retries = 0
      BY DEF TilingInv, ConnInv, Packets
    <2>2. ManagerConfig.maxRetries \in Nat \ {0}
      BY ManagerConfigAssumption DEF TcpConfigs
    <2> QED
      BY <1>1, <2>1, <2>2 DEF Exceeded
  <1>3. late = {e.pkt : e \in X}
    BY <1>2 DEF TimedOutPackets
  <1>4. \A e, g \in X : e # g => e.pkt # g.pkt
    <2>1. Tiled(E, Unacked(r), sndNxt[r], txCount)
      BY DEF TilingInv, Tiles
    <2> QED
      BY <1>1, <2>1 DEF Tiled
  <1>5. Cardinality(late) = Cardinality(X)
    <2> HIDE DEF X, late
    <2>1. f \in [X -> late]
      BY <1>3
    <2>2. f \in Injection(X, late)
      BY <1>4, <2>1 DEF Injection, IsInjective
    <2>3. f \in Surjection(X, late)
      BY <1>3, <2>1 DEF Surjection
    <2>4. f \in Bijection(X, late)
      BY <2>2, <2>3 DEF Bijection
    <2> QED
      BY <1>1, <2>4, FS_Bijection DEF ExistsBijection
  <1>6. late \in SUBSET Packet /\ IsFiniteSet(late)
    BY <1>type, TimedOutPacketsProperties
  <1>7. \A p, q \in late : p # q => p.id # q.id
    <2>1. late \subseteq {e.pkt : e \in E}
      BY <1>1, <1>3
    <2> QED
      BY <2>1, TrackedApart
  <1> HIDE DEF late, X
  <1>8. Cardinality(Copies(late)) = Cardinality(X) /\ Cardinality(X) \in Nat
    BY <1>type, <1>1, <1>5, <1>6, <1>7, CopiesFresh, FS_CardinalityType
  <1> QED
    BY <1>8 DEF late, X

\* A fold that matches what the step did.
LEMMA FoldCounts ==
  ASSUME TilingInv, Counted, CountersAgree, WireInv,
         NEW arrived, NEW duplicate, NEW fast, NEW expired, NEW resent,
         Fold(arrived, duplicate, fast, expired, resent),
         Delivers(Cardinality(arrived)), Cardinality(arrived) \in Nat,
         Cardinality(expired) \in Nat,
         Cardinality(resent) = Cardinality(expired) + Times(fast),
         Times(fast) <= Times(duplicate)
  PROVE  Counted' /\ CountersAgree'
  <1>1. /\ txCount \in Nat /\ losses \in Nat
        /\ Cardinality(wire) \in Nat /\ Cardinality(wire') \in Nat
        /\ txCount' \in Nat /\ losses' \in Nat
    BY FS_CardinalityType DEF TilingInv, ConnInv, TimerInv, TypeInv, TypeOK, WireInv, Delivers
  <1>2. Times(fast) \in Nat /\ Times(duplicate) \in Nat
    BY DEF Times
  <1>3. /\ stats'.sent = stats.sent + (txCount' - txCount)
        /\ stats'.delivered = stats.delivered + Cardinality(arrived)
        /\ stats'.lost = stats.lost + (losses' - losses)
        /\ stats'.retransmissions = stats.retransmissions + Cardinality(resent)
        /\ stats'.duplicateAcks = stats.duplicateAcks + Times(duplicate)
        /\ stats'.timeouts = stats.timeouts + Cardinality(expired)
        /\ stats'.fastRetransmits = stats.fastRetransmits + Times(fast)
    BY DEF Fold
  <1>4. Counted'
    BY <1>1, <1>2, <1>3 DEF Counted, Delivers
  <1>5. /\ stats.sent = stats.delivered + stats.lost + Cardinality(wire)
        /\ stats.retransmissions = stats.timeouts + stats.fastRetransmits
        /\ stats.fastRetransmits <= stats.duplicateAcks
    BY DEF CountersAgree
  <1>6. stats'.sent = stats'.delivered + stats'.lost + Cardinality(wire')
    BY <1>1, <1>3, <1>5 DEF Counted, Delivers
  <1>7. stats'.retransmissions = stats'.timeouts + stats'.fastRetransmits
    BY <1>2, <1>3, <1>5 DEF Counted
  <1>8. stats'.fastRetransmits <= stats'.duplicateAcks
    BY <1>2, <1>3, <1>5 DEF Counted
  <1> QED
    BY <1>4, <1>6, <1>7, <1>8 DEF CountersAgree

\* The events folded are those of the step: a delivery or a timer, for the
\* next event is one or the other.
LEMMA ObservedStep ==
  ASSUME CounterInv, ConnInv', ObservedProcessNext
  PROVE  CounterInv'
  <1>type. TypeInv /\ "client" \in Roles /\ (\A r \in Roles : Peer(r) \in Roles)
    BY TileTypes DEF CounterInv, TilingInv
  <1>none. /\ Cardinality({}) = 0 /\ Cardinality({}) \in Nat
           /\ Cardinality({}) = Cardinality({}) + Times(FALSE) /\ Times(FALSE) <= Times(FALSE)
    BY FS_EmptySet DEF Times
  <1>inv. TilingInv /\ Counted /\ CountersAgree /\ WireInv
    BY DEF CounterInv
  <1>next. TilingInv'
    BY StepTilingInv DEF CounterInv, ObservedProcessNext, Next
  <1>one. ~((\E w \in wire : IsNext(w)) /\ (\E e \in timers : IsNext(e)))
    <2> SUFFICES ASSUME NEW w \in wire, NEW e \in timers, IsNext(w), IsNext(e) PROVE FALSE
      OBVIOUS
    <2>1. Precedes(w, e) /\ Precedes(e, w)
      BY DEF IsNext
    <2>2. /\ w.due \in Nat /\ w.order \in Nat \X {2}
          /\ e.due \in Nat /\ e.order \in Nat \X {0, 1}
      BY <1>type DEF TypeInv, TypeOK, Deliveries, RtoTimers, TimeWaitTimers
    <2> QED
      BY <2>1, <2>2 DEF Precedes, Earlier
  <1>1. CASE FoldDelivery
    <2>1. PICK w \in wire :
            LET p == w.pkt
                m == mgr[Peer(p.src)]
            IN  /\ IsNext(w)
                /\ IF p.ack # NoAck
                   THEN Fold({p}, IsDuplicateAck(m, p.ack), TriggersFastRetransmit(m, p.ack),
                             {}, Copies(FastRetransmitTarget(m, p.ack)))
                   ELSE Fold({p}, FALSE, FALSE, {}, {})
      BY <1>1 DEF FoldDelivery
    <2> DEFINE p == w.pkt
               r == Peer(p.src)
               dup == IsDuplicateAck(mgr[r], p.ack)
               fast == TriggersFastRetransmit(mgr[r], p.ack)
               resent == Copies(FastRetransmitTarget(mgr[r], p.ack))
    <2>2. r \in Roles
      BY <1>type, DeliveryType DEF TypeInv
    <2>3. Delivers(1)
      BY <1>one, <2>1, DeliveryWire, TimerWire DEF ObservedProcessNext, ProcessNext, CounterInv
    <2>a. Delivers(Cardinality({p})) /\ Cardinality({p}) \in Nat
      <3> HIDE DEF p
      <3>1. Cardinality({p}) = 1
        BY FS_Singleton
      <3> QED
        BY <2>3, <3>1
    <2>5. Cardinality(resent) = Times(fast) /\ Times(fast) <= Times(dup) /\ Times(fast) \in Nat
      BY <2>2, OneFastRetransmit DEF CounterInv, Times
    <2>6. \/ Fold({p}, dup, fast, {}, resent)
          \/ Fold({p}, FALSE, FALSE, {}, {})
      BY <2>1
    <2> HIDE DEF p, r, dup, fast, resent
    <2>8. Counted' /\ CountersAgree'
      <3>1. CASE Fold({p}, dup, fast, {}, resent)
        <4>1. Cardinality(resent) = Cardinality({}) + Times(fast)
          BY <1>none, <2>5
        <4> QED
          BY <1>inv, <1>none, <2>a, <2>5, <3>1, <4>1, FoldCounts, Zenon
      <3>2. CASE Fold({p}, FALSE, FALSE, {}, {})
        BY <1>inv, <1>none, <2>a, <3>2, FoldCounts, Zenon
      <3> QED
        BY <2>6, <3>1, <3>2
    <2> QED
      BY <1>next, <2>3, <2>8 DEF CounterInv, Delivers
  <1>2. CASE FoldTimer
    <2>1. PICK e \in timers :
            LET m == mgr[e.role]
            IN  /\ IsNext(e)
                /\ IF e.kind = "rto_check"
                   THEN Fold({}, FALSE, FALSE, Expired(m, e.due),
                             Copies(TimedOutPackets(m, e.due)))
                   ELSE FoldCommand
      BY <1>2 DEF FoldTimer
    <2> DEFINE r == e.role
               late == Expired(mgr[r], e.due)
               resent == Copies(TimedOutPackets(mgr[r], e.due))
    <2>2. r \in Roles
      BY <1>type, TimerType DEF TypeInv
    <2>3. Delivers(Cardinality({}))
      BY <1>none, <1>one, <2>1, DeliveryWire, TimerWire
         DEF ObservedProcessNext, ProcessNext, CounterInv
    <2>4. Cardinality(resent) = Cardinality(late) /\ Cardinality(late) \in Nat
      BY <2>2, TimeoutsResent DEF CounterInv
    <2>5. \/ Fold({}, FALSE, FALSE, late, resent)
          \/ Fold({}, FALSE, FALSE, {}, {})
      BY <2>1 DEF FoldCommand
    <2>6. Cardinality(resent) = Cardinality(late) + Times(FALSE)
      BY <2>4 DEF Times
    <2> HIDE DEF r, late, resent
    <2>7. Counted' /\ CountersAgree'
      <3>1. CASE Fold({}, FALSE, FALSE, late, resent)
        BY <1>inv, <1>none, <2>3, <2>4, <2>6, <3>1, FoldCounts, Zenon
      <3>2. CASE Fold({}, FALSE, FALSE, {}, {})
        BY <1>inv, <1>none, <2>3, <3>2, FoldCounts, Zenon
      <3> QED
        BY <2>5, <3>1, <3>2
    <2> QED
      BY <1>next, <2>3, <2>7 DEF CounterInv, Delivers
  <1> QED
    BY <1>1, <1>2 DEF ObservedProcessNext

LEMMA ObservedCommand ==
  ASSUME CounterInv, ConnInv', Start \/ SendMessage \/ Close, FoldCommand
  PROVE  CounterInv'
  <1>1. Delivers(0) /\ TilingInv /\ Counted /\ CountersAgree /\ WireInv
    BY CommandWire DEF CounterInv
  <1>2. TilingInv'
    BY StepTilingInv DEF CounterInv, Next, Command
  <1>3. /\ Delivers(Cardinality({})) /\ Cardinality({}) \in Nat
        /\ Cardinality({}) = Cardinality({}) + Times(FALSE) /\ Times(FALSE) <= Times(FALSE)
    BY <1>1, FS_EmptySet DEF Times
  <1>4. Fold({}, FALSE, FALSE, {}, {})
    BY DEF FoldCommand
  <1>5. Counted' /\ CountersAgree'
    BY <1>1, <1>3, <1>4, FoldCounts, Zenon
  <1> QED
    BY <1>1, <1>2, <1>5 DEF CounterInv, Delivers

\* Every turn of the runner is a step of the session, or none.
LEMMA RunnerSteps ==
  ASSUME [RunnerNext]_runnerVars
  PROVE  /\ [Next]_vars
         /\ \/ ObservedProcessNext
            \/ (Start \/ SendMessage \/ Close) /\ FoldCommand
            \/ UNCHANGED observedVars
  <1>1. CASE RunnerStart
    BY <1>1 DEF RunnerStart, ObservedStart, Next, Command
  <1>2. CASE DrainOne
    BY <1>2 DEF DrainOne, ObservedProcessNext, Next
  <1>3. CASE EndHandshake
    <2>1. CASE state["client"] = "ESTABLISHED"
      <3>1. PICK length \in MessageLengths : Send(length) /\ FoldCommand
        BY <1>3, <2>1 DEF EndHandshake, ObservedSend
      <3> QED
        BY <3>1 DEF SendMessage, Next, Command
    <2>2. CASE state["client"] # "ESTABLISHED"
      BY <1>3, <2>2 DEF EndHandshake, observedVars
    <2> QED
      BY <2>1, <2>2
  <1>4. CASE EndTransfer
    BY <1>4 DEF EndTransfer, ObservedClose, Next, Command, observedVars
  <1>5. CASE EndClosing
    BY <1>5 DEF EndClosing, observedVars
  <1>6. CASE UNCHANGED runnerVars
    BY <1>6 DEF runnerVars, observedVars
  <1> QED
    BY <1>1, <1>2, <1>3, <1>4, <1>5, <1>6 DEF RunnerNext

LEMMA InitCounterInv == RunnerInit => CounterInv
  <1> SUFFICES ASSUME RunnerInit PROVE CounterInv
    OBVIOUS
  <1>1. Init /\ InitStatistics
    BY DEF RunnerInit
  <1>2. TilingInv
    BY <1>1, InitTilingInv
  <1>3. wire = {} /\ timers = {} /\ IsFiniteSet({}) /\ Cardinality({}) = 0
    BY <1>1, FS_EmptySet DEF Init
  <1>4. WireInv
    BY <1>3 DEF WireInv
  <1>5. Counted /\ CountersAgree
    BY <1>1, <1>3 DEF InitStatistics, Counted, CountersAgree
  <1> QED
    BY <1>2, <1>4, <1>5 DEF CounterInv

LEMMA StepCounterInv == CounterInv /\ [RunnerNext]_runnerVars => CounterInv'
  <1> SUFFICES ASSUME CounterInv, [RunnerNext]_runnerVars PROVE CounterInv'
    OBVIOUS
  <1>1. TilingInv' /\ ConnInv'
    BY RunnerSteps, StepTilingInv DEF CounterInv, TilingInv
  <1>2. CASE UNCHANGED observedVars
    BY <1>1, <1>2 DEF CounterInv, observedVars, vars, network, WireInv, Counted, CountersAgree
  <1> QED
    BY <1>1, <1>2, RunnerSteps, ObservedStep, ObservedCommand

\* Every packet sent is delivered, lost or on the wire, every retransmission
\* answers one timeout or one fast retransmit, and every fast retransmit has
\* its duplicate ACK (statistics_engine.py reduce_event, against what
\* session.py publishes).
THEOREM CountersInvariant == RunnerSpec => []CountersAgree
  <1>1. CounterInv => CountersAgree
    BY DEF CounterInv
  <1> QED
    BY <1>1, InitCounterInv, StepCounterInv, PTL DEF RunnerSpec

-----------------------------------------------------------------------------
(* The opening.                                                             *)

\* Pure ACKs are sent by open endpoints only, so an endpoint that is still
\* opening has seen no acknowledgement.
HalfOpen ==
  /\ \A w \in wire : w.pkt.kind = "ACK" => Opened("client") /\ Opened("server")
  /\ ~Opened("client") => mgr["client"].lastAck = NoAck
  /\ ~Opened("server") \/ state["server"] = "SYN_RECEIVED" => mgr["server"].lastAck = NoAck

LEMMA NewOnWire ==
  ASSUME NEW r, NEW m, NEW out, NEW onWire, NEW armed, NEW t,
         Transmit(r, m, out, onWire, armed, t)
  PROVE  \A w \in wire' : w \in onWire \/ w.pkt \in out
  BY DEF Transmit, DeliveryEvent

\* What is resent or sent on an ACK, or on a timeout, is not an ACK.
LEMMA CopiesNotAcks ==
  ASSUME TilingInv, NEW r \in Roles, NEW P \in SUBSET {e.pkt : e \in mgr[r].inFlight}
  PROVE  \A q \in Copies(P) : q.kind # "ACK"
  <1>1. \A p \in P : p \in Packet /\ p.kind # "ACK"
    BY TileTypes DEF TilingInv, NeedsAckTracking
  <1> DEFINE copy(p) == [p EXCEPT !.id = txCount + Cardinality({q \in P : q.id < p.id})]
  <1>2. \A p \in P : copy(p).kind = p.kind
    BY <1>1 DEF Packet
  <1>3. Copies(P) = {copy(p) : p \in P}
    BY DEF Copies
  <1> HIDE DEF copy
  <1> QED
    BY <1>1, <1>2, <1>3

LEMMA AckOutputNotAcks ==
  ASSUME TilingInv, NEW r \in Roles, NEW p
  PROVE  \A q \in AckedOutput(r, p) : q.kind # "ACK"
  <1> DEFINE target == FastRetransmitTarget(mgr[r], p.ack)
  <1>1. target \in SUBSET {e.pkt : e \in mgr[r].inFlight}
    BY TileTypes, FastRetransmitTargetProperties DEF TilingInv
  <1> HIDE DEF target
  <1>2. \A q \in Copies(target) : q.kind # "ACK"
    BY <1>1, CopiesNotAcks
  <1>3. \A m, c, segs, next : \A q \in DataPackets(m, c, segs, next) : q.kind # "ACK"
    BY DEF DataPackets, NewPacket
  <1> QED
    BY <1>2, <1>3 DEF AckedOutput, target

LEMMA StepAcksOnWire ==
  ASSUME TilingInv, StreamInv, HalfOpen, ConnInv', Forward, [Next]_vars
  PROVE  \A w \in wire' : w.pkt.kind = "ACK" => Opened("client")' /\ Opened("server")'
  <1>type. /\ TypeInv /\ "client" \in Roles /\ "server" \in Roles /\ ConnInv
           /\ (\A r \in Roles : r = "client" \/ r = "server")
           /\ state \in [Roles -> States]
           /\ Peer("client") = "server" /\ Peer("server") = "client"
           /\ \A w \in wire : w.pkt \in Packet /\ w.pkt.src \in Roles /\ PacketOK(w.pkt)
    BY TileTypes DEF TilingInv
  <1>open. Opened("client") /\ Opened("server") => Opened("client")' /\ Opened("server")'
    BY <1>type DEF Forward
  <1>states. StatePairs /\ state["client"] \in ClientStates
    BY <1>type DEF ConnInv
  <1>old. \A w \in wire : w.pkt.kind = "ACK" => Opened("client")' /\ Opened("server")'
    BY <1>open DEF HalfOpen
  <1>1. CASE Start
    <2>1. PICK p : /\ p.kind = "SYN"
                   /\ Transmit("client", mgr["client"], {p}, wire, timers, now)
      BY <1>1 DEF Start, NewPacket
    <2>2. \A w \in wire' : w \in wire \/ w.pkt \in {p}
      BY <2>1, NewOnWire
    <2> QED
      BY <1>old, <2>1, <2>2
  <1>2. CASE Close
    <2>1. PICK p : /\ p.kind = "FIN"
                   /\ Transmit("client", mgr["client"], {p}, wire, timers, now)
      BY <1>2 DEF Close, NewPacket
    <2>2. \A w \in wire' : w \in wire \/ w.pkt \in {p}
      BY <2>1, NewOnWire
    <2> QED
      BY <1>old, <2>1, <2>2
  <1>3. CASE SendMessage
    <2>1. PICK out : /\ \A p \in out : p.kind = "DATA"
                     /\ Transmit("client", mgr["client"], out, wire, timers, now)
      <3>1. PICK length : Transmit("client", mgr["client"],
                                   DataPackets(mgr["client"], cong["client"],
                                               Segment(length, tcpConfig.mss), 1),
                                   wire, timers, now)
        BY <1>3 DEF SendMessage, Send
      <3> QED
        BY <3>1 DEF DataPackets, NewPacket
    <2>2. \A w \in wire' : w \in wire \/ w.pkt \in out
      BY <2>1, NewOnWire
    <2> QED
      BY <1>old, <2>1, <2>2
  <1>4. CASE UpdateTcpConfig \/ TimeWaitExpiry \/ UNCHANGED vars
    <2>1. wire' = wire
      BY <1>4 DEF UpdateTcpConfig, TimeWaitExpiry, vars, network
    <2> QED
      BY <1>old, <2>1
  <1>5. CASE RtoCheck
    <2>1. PICK x \in timers :
            LET late == TimedOutPackets(mgr[x.role], x.due)
            IN  Transmit(x.role, Cancel(CheckTimeouts(mgr[x.role], x.due), Ids(late)),
                         Copies(late), wire, timers \ {x}, x.due)
      BY <1>5 DEF RtoCheck
    <2> DEFINE late == TimedOutPackets(mgr[x.role], x.due)
    <2>2. x.role \in Roles
      BY <1>type, TimerType DEF TypeInv
    <2>3. late \in SUBSET {e.pkt : e \in mgr[x.role].inFlight}
      BY DEF TimedOutPackets, Expired
    <2>4. \A w \in wire' : w \in wire \/ w.pkt \in Copies(late)
      BY <2>1, NewOnWire
    <2> HIDE DEF late
    <2>5. \A q \in Copies(late) : q.kind # "ACK"
      BY <2>2, <2>3, CopiesNotAcks
    <2> QED
      BY <1>old, <2>4, <2>5
  <1>6. CASE DeliverSyn
    <2>1. PICK v, out :
            /\ \A p \in out : p.kind = "SYN_ACK"
            /\ Transmit("server", mgr["server"], out, wire \ {v}, timers, v.due)
      <3>1. PICK v, p :
              /\ p.kind = "SYN_ACK"
              /\ \/ Transmit("server", mgr["server"], {p}, wire \ {v}, timers, v.due)
                 \/ Transmit("server", mgr["server"], {}, wire \ {v}, timers, v.due)
        <4>1. PICK v \in wire :
                LET synAck == NewPacket(txCount, "SYN_ACK", InitialSeq["server"],
                                        v.pkt.seq + 1, 0, "server")
                IN  \/ Transmit("server", mgr["server"], {synAck}, wire \ {v}, timers, v.due)
                    \/ Transmit("server", mgr["server"], {}, wire \ {v}, timers, v.due)
          BY <1>6 DEF DeliverSyn
        <4>2. NewPacket(txCount, "SYN_ACK", InitialSeq["server"], v.pkt.seq + 1, 0, "server").kind
                = "SYN_ACK"
          BY DEF NewPacket
        <4> QED
          BY <4>1, <4>2
      <3>2. /\ \A q \in {p} : q.kind = "SYN_ACK"
            /\ \A q \in {} : q.kind = "SYN_ACK"
        BY <3>1
      <3> QED
        BY <3>1, <3>2
    <2>2. \A w \in wire' : w \in wire \ {v} \/ w.pkt \in out
      BY <2>1, NewOnWire
    <2> QED
      BY <1>old, <2>1, <2>2
  <1>7. CASE DeliverSynAck
    <2>1. PICK v, reply :
            /\ v \in wire /\ v.pkt.kind = "SYN_ACK"
            /\ state' = IF state["client"] = "SYN_SENT"
                        THEN [state EXCEPT !["client"] = "ESTABLISHED"] ELSE state
            /\ Transmit("client", AckedManager("client", v.pkt),
                        AckedOutput("client", v.pkt) \cup
                          (IF state["client"] = "SYN_SENT" \/ state["client"] = "ESTABLISHED"
                           THEN {reply} ELSE {}),
                        wire \ {v}, timers, v.due)
      BY <1>7, Triggered DEF DeliverSynAck, Delivering
    <2> DEFINE more == IF state["client"] = "SYN_SENT" \/ state["client"] = "ESTABLISHED"
                       THEN {reply} ELSE {}
               out == AckedOutput("client", v.pkt) \cup more
    <2>2. \A w \in wire' : w \in wire \ {v} \/ w.pkt \in out
      <3>1. Transmit("client", AckedManager("client", v.pkt), out, wire \ {v}, timers, v.due)
        BY <2>1
      <3> HIDE DEF out
      <3> QED
        BY <3>1, NewOnWire
    <2>3. \A q \in AckedOutput("client", v.pkt) : q.kind # "ACK"
      BY <1>type, AckOutputNotAcks
    <2>4. Opened("server") /\ started
      BY <1>type, <2>1 DEF PacketOK
    <2>5. more # {} => Opened("client")' /\ Opened("server")'
      <3>1. started' = started /\ state'["server"] = state["server"]
        BY <1>7, <1>type, <2>1 DEF DeliverSynAck
      <3>2. more # {} => state'["client"] = "ESTABLISHED"
        BY <1>type, <2>1
      <3> QED
        BY <2>4, <3>1, <3>2 DEF Opened
    <2> QED
      BY <1>old, <2>2, <2>3, <2>5
  <1>8. CASE DeliverAck
    <2>1. PICK v, armed :
            LET r == Peer(v.pkt.src)
            IN  /\ v \in wire
                /\ Transmit(r, AckedManager(r, v.pkt), AckedOutput(r, v.pkt), wire \ {v}, armed,
                            v.due)
      BY <1>8 DEF DeliverAck
    <2> DEFINE r == Peer(v.pkt.src)
    <2>2. \A w \in wire' : w \in wire \ {v} \/ w.pkt \in AckedOutput(r, v.pkt)
      BY <2>1, NewOnWire
    <2>3. r \in Roles
      BY <1>type, <2>1
    <2> HIDE DEF r
    <2>4. \A q \in AckedOutput(r, v.pkt) : q.kind # "ACK"
      BY <2>3, AckOutputNotAcks
    <2> QED
      BY <1>old, <2>2, <2>4
  <1>9. CASE DeliverFin \/ DeliverData
    <2>1. PICK v \in wire : v.pkt.kind \in {"FIN", "DATA"}
      BY <1>9 DEF DeliverFin, DeliverData, Delivering
    <2>2. Opened("client") /\ Opened("server")
      <3>1. CASE v.pkt.kind = "DATA"
        BY <1>states, <1>type, <3>1 DEF PacketOK, Opened, StatePairs, ClientStates
      <3>2. CASE v.pkt.kind = "FIN" /\ v.pkt.src = "client"
        BY <1>states, <1>type, <3>2 DEF PacketOK, Opened, Finished, StatePairs, ClientStates
      <3>3. CASE v.pkt.kind = "FIN" /\ v.pkt.src = "server"
        <4>1. Finished("server") /\ Finished("client")
          BY <1>type, <3>3 DEF PacketOK, StreamInv
        <4> QED
          BY <4>1 DEF Opened, Finished
      <3> QED
        BY <1>type, <2>1, <3>1, <3>2, <3>3
    <2> QED
      BY <1>open, <2>2
  <1> QED
    BY <1>1, <1>2, <1>3, <1>4, <1>5, <1>6, <1>7, <1>8, <1>9 DEF Next, Command, ProcessNext

\* Only ACKs change what was last acknowledged.
LEMMA LastAckKept ==
  ASSUME TilingInv, [Next]_vars, ~DeliverSynAck, ~DeliverAck
  PROVE  \A q \in Roles : mgr'[q].lastAck = mgr[q].lastAck
  <1>type. /\ TypeInv /\ "client" \in Roles /\ "server" \in Roles
           /\ mgr \in [Roles -> Manager]
           /\ \A w \in wire : Peer(w.pkt.src) \in Roles
    BY TileTypes DEF TilingInv
  <1>sent. ASSUME NEW r \in Roles, NEW m \in Manager, m.lastAck = mgr[r].lastAck,
                  NEW out, NEW onWire, NEW armed, NEW t, Transmit(r, m, out, onWire, armed, t)
           PROVE  \A q \in Roles : mgr'[q].lastAck = mgr[q].lastAck
    BY <1>sent, <1>type, TransmitFrame
  <1>1. CASE UpdateTcpConfig \/ TimeWaitExpiry \/ UNCHANGED vars
    BY <1>1 DEF UpdateTcpConfig, TimeWaitExpiry, vars, network
  <1>2. CASE Start \/ SendMessage \/ Close
    <2>1. PICK out : Transmit("client", mgr["client"], out, wire, timers, now)
      BY <1>2 DEF Start, SendMessage, Send, Close
    <2> QED
      BY <1>sent, <1>type, <2>1
  <1>3. CASE RtoCheck
    <2>1. PICK x, ids, out, armed :
            /\ x \in timers
            /\ Transmit(x.role, Cancel(CheckTimeouts(mgr[x.role], x.due), ids), out, wire, armed,
                        x.due)
      BY <1>3 DEF RtoCheck
    <2>2. x.role \in Roles /\ x.due \in Nat
      BY <1>type, <2>1, TimerType DEF TypeInv
    <2> DEFINE m == Cancel(CheckTimeouts(mgr[x.role], x.due), ids)
    <2>3. m \in Manager /\ m.lastAck = mgr[x.role].lastAck
      <3>1. CheckTimeouts(mgr[x.role], x.due) \in Manager
        BY <1>type, <2>2, CheckTimeoutsProperties
      <3>2. CheckTimeouts(mgr[x.role], x.due).lastAck = mgr[x.role].lastAck
        BY <1>type, <2>2 DEF CheckTimeouts, Manager
      <3> QED
        BY <3>1, <3>2, CancelProperties
    <2>4. Transmit(x.role, m, out, wire, armed, x.due)
      BY <2>1
    <2> HIDE DEF m
    <2> QED
      BY <1>sent, <2>2, <2>3, <2>4
  <1>4. CASE DeliverSyn
    <2>1. PICK v, out : Transmit("server", mgr["server"], out, wire \ {v}, timers, v.due)
      BY <1>4 DEF DeliverSyn
    <2> QED
      BY <1>sent, <1>type, <2>1
  <1>5. CASE DeliverFin
    <2>1. PICK v, out, armed :
            v \in wire /\ Transmit(Peer(v.pkt.src), mgr[Peer(v.pkt.src)], out, wire \ {v}, armed, v.due)
      BY <1>5 DEF DeliverFin
    <2> QED
      BY <1>sent, <1>type, <2>1
  <1>6. CASE DeliverData
    <2>1. PICK v, out :
            v \in wire /\ Transmit(Peer(v.pkt.src), mgr[Peer(v.pkt.src)], out, wire \ {v}, timers, v.due)
      BY <1>6 DEF DeliverData
    <2> QED
      BY <1>sent, <1>type, <2>1
  <1> QED
    BY <1>1, <1>2, <1>3, <1>4, <1>5, <1>6 DEF Next, Command, ProcessNext


\* The server never returns to the opening.
LEMMA ServerPast ==
  ASSUME ConnInv, ConnInv', [Stream!Next]_(Stream!streamVars), started',
         Opened("server"), state["server"] # "SYN_RECEIVED"
  PROVE  Opened("server")' /\ state'["server"] # "SYN_RECEIVED"
  <1>1. StatePairs /\ StatePairs' /\ started
    BY DEF ConnInv, Opened
  <1>2. ServerSide \in {"open", "closing", "closed"}
    BY <1>1 DEF ServerSide, Opened, StatePairs
  <1>3. ServerSide' \in {"open", "closing", "closed"}
    BY <1>2 DEF Stream!Next, Stream!streamVars, Stream!Connect, Stream!Accept, Stream!Confirm,
                Stream!Establish, Stream!Write, Stream!Deliver, Stream!Finish, Stream!Respond,
                Stream!CloseClient, Stream!CloseServer
  <1>5. state'["server"] \notin {"LISTEN", "SYN_RECEIVED"}
    <2>1. state'["server"] = "LISTEN" => ServerSide' = "idle"
      BY DEF ServerSide
    <2>2. state'["server"] = "SYN_RECEIVED" => ServerSide' \in {"idle", "opening"}
      BY DEF ServerSide
    <2> QED
      BY <1>3, <2>1, <2>2
  <1> QED
    BY <1>1, <1>5 DEF Opened, StatePairs

LEMMA StepHalfOpen ==
  ASSUME TilingInv, StreamInv, HalfOpen, ConnInv', Forward, [Next]_vars
  PROVE  HalfOpen'
  <1>type. /\ TypeInv /\ "client" \in Roles /\ "server" \in Roles /\ ConnInv
           /\ (\A r \in Roles : r = "client" \/ r = "server")
           /\ state \in [Roles -> States] /\ mgr \in [Roles -> Manager]
           /\ Peer("client") = "server" /\ Peer("server") = "client"
           /\ \A w \in wire : w.pkt \in Packet /\ w.pkt.src \in Roles /\ PacketOK(w.pkt)
    BY TileTypes DEF TilingInv
  <1>acks. \A w \in wire' : w.pkt.kind = "ACK" => Opened("client")' /\ Opened("server")'
    BY StepAcksOnWire
  <1>open. /\ Opened("client") => Opened("client")'
           /\ Opened("server") => Opened("server")'
    BY <1>type DEF Forward
  <1>1. CASE ~DeliverSynAck /\ ~DeliverAck
    <2>1. \A q \in Roles : mgr'[q].lastAck = mgr[q].lastAck
      BY <1>1, LastAckKept
    <2>2. Opened("server") /\ state["server"] # "SYN_RECEIVED"
            => Opened("server")' /\ state'["server"] # "SYN_RECEIVED"
      BY <1>type, StepMaps, ServerPast DEF Forward, Opened
    <2> QED
      BY <1>acks, <1>open, <1>type, <2>1, <2>2 DEF HalfOpen
  <1>2. CASE DeliverSynAck
    <2>1. PICK v, out :
            /\ v \in wire /\ v.pkt.kind = "SYN_ACK"
            /\ state' = IF state["client"] = "SYN_SENT"
                        THEN [state EXCEPT !["client"] = "ESTABLISHED"] ELSE state
            /\ Transmit("client", AckedManager("client", v.pkt), out, wire \ {v}, timers, v.due)
      BY <1>2, Triggered DEF DeliverSynAck, Delivering
    <2>2. AckedManager("client", v.pkt) \in Manager
      BY <1>type, <2>1, AckStepProperties DEF SendTypes
    <2>3. mgr'["server"] = mgr["server"] /\ state'["server"] = state["server"]
      BY <1>type, <2>1, <2>2, TransmitFrame
    <2>4. started' /\ started
      BY <1>2, <1>type, <2>1 DEF PacketOK, DeliverSynAck
    <2>5. Opened("client")'
      BY <1>type, <2>1, <2>4 DEF Opened
    <2>6. Opened("server")' = Opened("server")
      BY <2>3, <2>4 DEF Opened
    <2> QED
      BY <1>acks, <2>3, <2>5, <2>6 DEF HalfOpen
  <1>3. CASE DeliverAck
    <2>1. PICK v, out, armed :
            LET r == Peer(v.pkt.src)
            IN  /\ v \in wire /\ v.pkt.kind = "ACK"
                /\ state' = IF CanApply(state[r], "RECV_ACK")
                            THEN [state EXCEPT ![r] = Apply(@, "RECV_ACK")] ELSE state
                /\ Transmit(r, AckedManager(r, v.pkt), out, wire \ {v}, armed, v.due)
      BY <1>3 DEF DeliverAck, Delivering
    <2> DEFINE r == Peer(v.pkt.src)
    <2>2. r \in Roles /\ AckedManager(r, v.pkt) \in Manager
      BY <1>type, <2>1, AckStepProperties DEF SendTypes
    <2>3. Opened("client")' /\ Opened("server")'
      BY <1>open, <2>1 DEF HalfOpen
    <2>4. CASE r = "client"
      <3>1. mgr'["server"] = mgr["server"] /\ state'["server"] = state["server"]
        BY <1>type, <2>1, <2>2, <2>4, TransmitFrame
      <3> QED
        BY <1>acks, <2>3, <3>1 DEF HalfOpen
    <2>5. CASE r = "server"
      <3>1. state'["server"] # "SYN_RECEIVED"
        BY <1>type, <2>1, <2>5, Triggered
      <3> QED
        BY <1>acks, <2>3, <3>1 DEF HalfOpen
    <2> QED
      BY <1>type, <2>2, <2>4, <2>5
  <1> QED
    BY <1>1, <1>2, <1>3

-----------------------------------------------------------------------------
(* What the runner waits for.  Its commands find the session where its      *)
(* stage says, provided that the drain before it ended with the scheduler   *)
(* empty.                                                                   *)

\* Length of the message that segs cuts up ...
MessageEnd(segs) == IF segs = << >> THEN 0 ELSE segs[Len(segs)].offset + segs[Len(segs)].len

\* ... and how much of it was sent when next is the first segment left.
HandedOver(segs, next) == IF next <= Len(segs) THEN segs[next].offset ELSE MessageEnd(segs)

\* segment_message covers the whole message from its first byte.
LEMMA SegmentsCover ==
  ASSUME NEW length \in Nat, NEW mss \in Nat \ {0}
  PROVE  /\ MessageEnd(Segment(length, mss)) = length
         /\ HandedOver(Segment(length, mss), 1) = 0
  <1> DEFINE n == (length + mss - 1) \div mss
             segs == Segment(length, mss)
  <1>1. n \in Nat /\ n * mss <= length + mss - 1 /\ length <= n * mss
    BY QuotientIsNat, QuotientBound, QuotientCovers
  <1>2. segs = [i \in 1 .. n |-> [offset |-> (i - 1) * mss,
                                  len |-> Smaller(mss, length - (i - 1) * mss)]]
    BY DEF Segment
  <1>3. Len(segs) = n /\ segs \in Seq(SegmentRecords)
    <2>1. segs \in Seq(SegmentRecords)
      BY SegmentProperties
    <2>2. Len(segs) = n
      BY <1>1, <1>2
    <2> QED
      BY <2>1, <2>2
  <1> HIDE DEF n, segs
  <1>4. CASE n = 0
    <2>1. 0 * mss = 0
      OBVIOUS
    <2>2. length = 0 /\ segs = << >>
      BY <1>1, <1>3, <1>4, <2>1
    <2> QED
      BY <1>3, <1>4, <2>2 DEF MessageEnd, HandedOver, segs
  <1>5. CASE n # 0
    <2>1. n \in 1 .. n /\ 1 \in 1 .. n /\ segs # << >>
      BY <1>1, <1>3, <1>5
    <2>2. (n - 1) * mss + mss = n * mss /\ (n - 1) * mss \in Int /\ n * mss \in Int
      BY <1>1
    <2>3. segs[n].offset = (n - 1) * mss /\ segs[n].len = Smaller(mss, length - (n - 1) * mss)
      BY <1>2, <2>1
    <2>4. segs[n].len = length - (n - 1) * mss
      BY <1>1, <2>2, <2>3 DEF Smaller
    <2>5. segs[1].offset = 0
      <3>1. segs[1].offset = (1 - 1) * mss
        BY <1>2, <2>1
      <3> QED
        BY <3>1
    <2>6. segs[Len(segs)].offset + segs[Len(segs)].len = length
      BY <1>3, <2>2, <2>3, <2>4
    <2> QED
      BY <1>3, <1>5, <2>1, <2>5, <2>6 DEF MessageEnd, HandedOver, segs
  <1> QED
    BY <1>4, <1>5

\* The numbers that _try_send_more_data takes are the bytes it hands over.
LEMMA BytesHandedOver ==
  ASSUME NEW m, NEW c, NEW segs, NEW next, SendTypes(m, c, segs, next), Abut(segs)
  PROVE  /\ HandedOver(segs, next) \in Nat /\ DataBytes(m, c, segs, next) \in Nat
         /\ HandedOver(segs, next + SendCount(m, c, segs, next))
              = HandedOver(segs, next) + DataBytes(m, c, segs, next)
  <1> DEFINE n == SendCount(m, c, segs, next)
  <1>1. /\ n \in 0 .. Len(segs) - next + 1 /\ next \in 1 .. Len(segs) + 1 /\ Len(segs) \in Nat
        /\ segs \in Seq(SegmentRecords) /\ Ordered(segs)
    BY SendCountProperties DEF SendTypes
  <1>2. \A i \in 1 .. Len(segs) : segs[i].offset \in Nat /\ segs[i].len \in Nat
    <2>1. \A i \in 1 .. Len(segs) : segs[i] \in SegmentRecords
      BY <1>1
    <2> QED
      BY <2>1 DEF SegmentRecords
  <1>3. /\ n = 0 => DataBytes(m, c, segs, next) = 0
        /\ n # 0 => DataBytes(m, c, segs, next)
                      = segs[next + n - 1].offset + segs[next + n - 1].len - segs[next].offset
    BY DEF DataBytes
  <1> HIDE DEF n
  <1>4. MessageEnd(segs) \in Nat
    BY <1>1, <1>2 DEF MessageEnd
  <1>5. CASE n = 0
    BY <1>1, <1>2, <1>3, <1>4, <1>5 DEF HandedOver, n
  <1>6. CASE n # 0
    <2>1. /\ next + n - 1 \in 1 .. Len(segs) /\ next \in 1 .. Len(segs)
          /\ next <= next + n - 1 /\ segs # << >>
      BY <1>1, <1>6
    <2>2. segs[next].offset <= segs[next + n - 1].offset
      BY <1>1, <2>1 DEF Ordered
    <2>3. HandedOver(segs, next) = segs[next].offset
      BY <2>1 DEF HandedOver
    <2>4. HandedOver(segs, next + n) = segs[next + n - 1].offset + segs[next + n - 1].len
      <3>1. CASE next + n <= Len(segs)
        <4>1. next + n - 1 \in 1 .. Len(segs) - 1 /\ (next + n - 1) + 1 = next + n
          BY <1>1, <2>1, <3>1
        <4>2. segs[next + n].offset = segs[next + n - 1].offset + segs[next + n - 1].len
          BY <4>1 DEF Abut
        <4> QED
          BY <3>1, <4>2 DEF HandedOver
      <3>2. CASE ~(next + n <= Len(segs))
        <4>1. next + n - 1 = Len(segs)
          BY <1>1, <3>2
        <4> QED
          BY <2>1, <3>2, <4>1 DEF HandedOver, MessageEnd
      <3> QED
        BY <3>1, <3>2
    <2> QED
      BY <1>2, <1>3, <1>6, <2>1, <2>2, <2>3, <2>4 DEF n
  <1> QED
    BY <1>5, <1>6

\* What an ACK makes the client send are the next bytes of its message.
LEMMA AckHandsOver ==
  ASSUME TilingInv, NEW r \in Roles, NEW p \in Packet, AckBookkeeping(r, p)
  PROVE  sndNxt'["client"] - HandedOver(segments, nextSeg')
           = sndNxt["client"] - HandedOver(segments, nextSeg)
  <1> DEFINE m == AckedManager(r, p)
             c == AckedCongestion(r, p)
  <1>type. /\ TypeInv /\ "client" \in Roles /\ sndNxt \in [Roles -> Nat]
           /\ sndNxt["client"] \in Nat /\ Abut(segments)
    BY TileTypes DEF TilingInv, Tiles
  <1>1. CASE Resumes(r, p)
    <2>1. /\ r = "client"
          /\ nextSeg' = nextSeg + SendCount(m, c, segments, nextSeg)
          /\ sndNxt' = [sndNxt EXCEPT ![r] = @ + DataBytes(m, c, segments, nextSeg)]
      BY <1>1 DEF AckBookkeeping, Resumes
    <2>2. SendTypes(m, c, segments, nextSeg)
      BY <1>type, AckStepProperties
    <2> HIDE DEF m, c
    <2>3. /\ HandedOver(segments, nextSeg) \in Nat /\ DataBytes(m, c, segments, nextSeg) \in Nat
          /\ HandedOver(segments, nextSeg')
               = HandedOver(segments, nextSeg) + DataBytes(m, c, segments, nextSeg)
      BY <1>type, <2>1, <2>2, BytesHandedOver
    <2>4. sndNxt'["client"] = sndNxt["client"] + DataBytes(m, c, segments, nextSeg)
      BY <1>type, <2>1
    <2> QED
      BY <1>type, <2>3, <2>4
  <1>2. CASE ~Resumes(r, p)
    BY <1>2 DEF AckBookkeeping
  <1> QED
    BY <1>1, <1>2

\* An event leaves an open client open, and a client that has not closed
\* sends only the next bytes of its message.
LEMMA EventHandsOver ==
  ASSUME TilingInv, ConnInv', ProcessNext, state["client"] \in {"SYN_SENT", "ESTABLISHED"}
  PROVE  /\ started' = started /\ segments' = segments
         /\ state'["client"] \in {"SYN_SENT", "ESTABLISHED"}
         /\ state["client"] = "ESTABLISHED" => state'["client"] = "ESTABLISHED"
         /\ sndNxt'["client"] - HandedOver(segments, nextSeg')
              = sndNxt["client"] - HandedOver(segments, nextSeg)
  <1>type. /\ ConnInv /\ "client" \in Roles /\ "server" \in Roles
           /\ (\A r \in Roles : (r = "client" \/ r = "server") /\ Peer(r) \in Roles)
           /\ Peer("client") = "server" /\ Peer("server") = "client"
           /\ state \in [Roles -> States] /\ sndNxt \in [Roles -> Nat]
           /\ \A w \in wire : w.pkt \in Packet /\ w.pkt.src \in Roles
    BY TileTypes DEF TilingInv
  <1>1. CASE DeliverSyn
    <2>1. /\ UNCHANGED <<started, segments, nextSeg>>
          /\ state'["client"] = state["client"] /\ sndNxt'["client"] = sndNxt["client"]
      BY <1>1, <1>type DEF DeliverSyn, sending
    <2> QED
      BY <2>1
  <1>2. CASE DeliverSynAck
    <2>1. PICK v \in wire :
            /\ AckBookkeeping("client", v.pkt)
            /\ state' = IF state["client"] = "SYN_SENT"
                        THEN [state EXCEPT !["client"] = "ESTABLISHED"] ELSE state
            /\ UNCHANGED <<started, segments>>
      BY <1>2, Triggered DEF DeliverSynAck
    <2>2. state'["client"] = "ESTABLISHED"
      BY <1>type, <2>1
    <2> QED
      BY <1>type, <2>1, <2>2, AckHandsOver
  <1>3. CASE DeliverAck
    <2>1. PICK v \in wire :
            /\ AckBookkeeping(Peer(v.pkt.src), v.pkt)
            /\ UNCHANGED <<started, segments>>
      BY <1>3 DEF DeliverAck
    <2>2. state'["client"] = state["client"]
      <3>1. PICK r \in Roles :
              /\ \A q \in Roles \ {r} : state'[q] = state[q]
              /\ state[r] \notin {"SYN_RECEIVED", "FIN_WAIT_1", "CLOSING", "LAST_ACK"}
                   => state' = state
        BY <1>3, <1>type, AckDelivered
      <3> QED
        BY <1>type, <3>1
    <2> QED
      BY <1>type, <2>1, <2>2, AckHandsOver
  <1>4. CASE DeliverFin
    <2>1. PICK r \in Roles :
            /\ Finished(Peer(r)) /\ started' = started
            /\ \A q \in Roles \ {r} : state'[q] = state[q] /\ sndNxt'[q] = sndNxt[q]
      BY <1>4, <1>type, FinDelivered
    <2>2. ~Finished("server")
      BY <1>type DEF ConnInv, StatePairs, Finished
    <2>3. r = "server"
      BY <1>type, <2>1, <2>2
    <2>4. UNCHANGED <<segments, nextSeg>>
      BY <1>4 DEF DeliverFin, sending
    <2> QED
      BY <1>type, <2>1, <2>3, <2>4
  <1>5. CASE DeliverData
    BY <1>5 DEF DeliverData, sending
  <1>6. CASE RtoCheck
    BY <1>6 DEF RtoCheck, endpoints, sending
  <1>7. CASE TimeWaitExpiry
    <2>1. PICK e \in timers :
            /\ state' = IF state[e.role] = "TIME_WAIT"
                        THEN [state EXCEPT ![e.role] = Apply(@, "TIME_WAIT_EXPIRED")] ELSE state
            /\ UNCHANGED <<started, sndNxt, segments, nextSeg>>
      BY <1>7 DEF TimeWaitExpiry, sending
    <2>2. state'["client"] = state["client"]
      BY <1>type, <2>1
    <2> QED
      BY <2>1, <2>2
  <1> QED
    BY <1>1, <1>2, <1>3, <1>4, <1>5, <1>6, <1>7 DEF ProcessNext

\* send_message replaces the message; what it sends are its first bytes.
LEMMA SendHandsOver ==
  ASSUME TilingInv, NEW length \in MessageLengths, Send(length)
  PROVE  /\ UNCHANGED <<started, state>> /\ state["client"] = "ESTABLISHED"
         /\ length \in Nat /\ MessageEnd(segments') = length
         /\ sndNxt'["client"] = sndNxt["client"] + HandedOver(segments', nextSeg')
  <1> DEFINE segs == Segment(length, tcpConfig.mss)
             m == mgr["client"]
             c == cong["client"]
  <1>type. /\ TypeInv /\ TypeOK /\ "client" \in Roles /\ m \in Manager
           /\ IsFiniteSet(m.inFlight) /\ sndNxt \in [Roles -> Nat] /\ sndNxt["client"] \in Nat
    BY TileTypes DEF TilingInv
  <1>1. length \in Nat /\ tcpConfig.mss \in Nat \ {0}
    <2>1. length \in Nat /\ tcpConfig \in TcpConfigs
      BY SessionAssumption, <1>type DEF TypeOK
    <2> QED
      BY <2>1 DEF TcpConfigs
  <1>2. /\ segments' = segs /\ nextSeg' = 1 + SendCount(m, c, segs, 1)
        /\ sndNxt' = [sndNxt EXCEPT !["client"] = @ + DataBytes(m, c, segs, 1)]
        /\ UNCHANGED <<started, state>> /\ state["client"] = "ESTABLISHED"
    BY DEF Send
  <1>3. /\ MessageEnd(segs) = length /\ HandedOver(segs, 1) = 0
        /\ segs \in Seq(SegmentRecords) /\ Ordered(segs) /\ Abut(segs)
    BY <1>1, SegmentsCover, SegmentProperties, SegmentAbut
  <1>4. SendTypes(m, c, segs, 1)
    <2>1. 1 \in 1 .. Len(segs) + 1
      BY <1>3
    <2>2. c \in Congestion
      BY <1>type DEF TypeOK
    <2> QED
      BY <1>type, <1>3, <2>1, <2>2 DEF SendTypes
  <1> HIDE DEF segs, m, c
  <1>5. /\ DataBytes(m, c, segs, 1) \in Nat
        /\ HandedOver(segs, 1 + SendCount(m, c, segs, 1)) = 0 + DataBytes(m, c, segs, 1)
    BY <1>3, <1>4, BytesHandedOver
  <1> QED
    BY <1>1, <1>2, <1>3, <1>5, <1>type

\* The client has closed, and the server's application has been given the
\* whole message by an established connection.
WholeMessage ==
  /\ Finished("client")
  /\ DataEnd("client") = FirstByte + sent /\ StreamEnd = FirstByte + sent
  /\ Opened("server") /\ state["server"] # "SYN_RECEIVED"

\* Where the session is in each stage of the runner.
Runs ==
  /\ stage \in Stages \cup {"created", "finished"} /\ sent \in Nat
  /\ stage = "created" => ~started /\ sent = 0
  /\ stage \in {"handshake", "transfer"} =>
       /\ started /\ state["client"] \in {"SYN_SENT", "ESTABLISHED"}
       /\ MessageEnd(segments) = sent
       /\ sndNxt["client"] = FirstByte + HandedOver(segments, nextSeg)
  /\ stage = "handshake" => segments = << >>
  /\ stage = "transfer" => state["client"] = "ESTABLISHED"
  /\ stage \in {"closing", "finished"} => WholeMessage
  /\ completed => stage = "finished" /\ Completed

\* The drains before send_message and before close were given events enough:
\* none used up its budget with the scheduler not yet empty.
NotCutOff == stage \in {"handshake", "transfer"} /\ processed >= Budget[stage] => Idle

DeliveryInv == StallInv /\ StreamInv /\ HalfOpen /\ Runs

\* An idle scheduler means to a client that has not closed that its SYN and
\* all it sent since were acknowledged, and that the server heard so.
LEMMA IdleClient ==
  ASSUME TilingInv, HalfOpen, Idle, started, state["client"] \in {"SYN_SENT", "ESTABLISHED"}
  PROVE  /\ state["client"] = "ESTABLISHED" /\ mgr["client"].inFlight = {}
         /\ rcvNxt["server"] = sndNxt["client"]
         /\ Opened("server") /\ state["server"] # "SYN_RECEIVED"
  <1>type. /\ ConnInv /\ Numbers /\ StatePairs /\ "client" \in Roles /\ "server" \in Roles
           /\ Peer("client") = "server" /\ Peer("server") = "client"
           /\ \A r \in Roles : /\ mgr[r].lastAck \in Int /\ Unacked(r) \in Int
                               /\ sndNxt[r] \in Nat /\ rcvNxt[r] \in Nat
                               /\ InitialSeq[r] \in Nat
                               /\ rcvNxt[Peer(r)] <= sndNxt[r]
                               /\ mgr[r].lastAck <= rcvNxt[Peer(r)]
    BY TileTypes DEF TilingInv, ConnInv
  <1>acked. ASSUME NEW r \in Roles, sndNxt[r] > InitialSeq[r]
            PROVE  /\ mgr[r].inFlight = {} /\ mgr[r].lastAck # NoAck
                   /\ mgr[r].lastAck = sndNxt[r]
    <2>1. mgr[r].inFlight = {} /\ Unacked(r) = sndNxt[r]
      <3>1. sndNxt[r] > 0
        BY <1>type, <1>acked
      <3> QED
        BY <3>1, IdleAcked
    <2> QED
      BY <1>type, <1>acked, <2>1 DEF Unacked
  <1>1. /\ mgr["client"].inFlight = {} /\ mgr["client"].lastAck # NoAck
        /\ mgr["client"].lastAck = sndNxt["client"]
    BY <1>acked, <1>type DEF Numbers
  <1>2. state["client"] = "ESTABLISHED"
    BY <1>1 DEF HalfOpen, Opened
  <1>3. rcvNxt["server"] = sndNxt["client"]
    BY <1>1, <1>type
  <1>4. Opened("server")
    BY <1>2, <1>type DEF StatePairs, Opened
  <1>5. mgr["server"].lastAck # NoAck
    BY <1>4, <1>acked, <1>type DEF Numbers
  <1> QED
    BY <1>1, <1>2, <1>3, <1>4, <1>5 DEF HalfOpen

\* Nothing the session does undoes that.
LEMMA WholeMessageKept ==
  ASSUME ConnInv, ConnInv', Forward, StreamInv, [Next]_vars, WholeMessage, sent \in Nat,
         sent' = sent
  PROVE  WholeMessage'
  <1>type. /\ "client" \in Roles /\ "server" \in Roles /\ FirstByte \in Nat
           /\ sndNxt["client"] \in Nat /\ state["client"] \in States
    <2>1. /\ "client" \in Roles /\ "server" \in Roles
          /\ state \in [Roles -> States] /\ sndNxt \in [Roles -> Nat]
      BY StreamTypes
    <2> QED
      BY <2>1, SessionAssumption DEF FirstByte
  <1>1. /\ Finished("client")' /\ sndNxt'["client"] = sndNxt["client"]
        /\ started' /\ Opened("server")'
    BY <1>type DEF Forward, WholeMessage, Finished
  <1>2. DataEnd("client")' = DataEnd("client")
    BY <1>1 DEF DataEnd, WholeMessage
  <1>3. [Stream!Next]_(Stream!streamVars)
    BY StepMaps
  <1>4. state'["server"] # "SYN_RECEIVED"
    BY <1>1, <1>3, ServerPast DEF WholeMessage
  <1>5. Written = sndNxt["client"] - 1 /\ StreamEnd = sndNxt["client"] - 1
    <2>1. started /\ state["client"] \notin {"SYN_SENT", "ESTABLISHED"}
      BY DEF WholeMessage, Finished
    <2>2. ClientSide \in {"closing", "closed"}
      BY <2>1 DEF ClientSide
    <2> QED
      BY <2>2 DEF Written, WholeMessage, DataEnd
  <1>6. accepted' = accepted
    <2>1. Stream!End(accepted) = StreamEnd
      BY StreamEndIsEnd
    <2>2. ~ Stream!Deliver
      <3>1. 1 .. Written - Stream!End(accepted) = {}
        BY <1>5, <1>type, <2>1
      <3> QED
        BY <3>1 DEF Stream!Deliver
    <2> QED
      BY <1>3, <2>2 DEF Stream!Next, Stream!streamVars, Stream!Connect, Stream!Accept,
           Stream!Confirm, Stream!Establish, Stream!Write, Stream!Finish, Stream!Respond,
           Stream!CloseClient, Stream!CloseServer
  <1>7. StreamEnd' = StreamEnd
    BY <1>6 DEF StreamEnd
  <1> QED
    BY <1>1, <1>2, <1>4, <1>7 DEF WholeMessage, FirstByte

LEMMA InitDelivery == RunnerInit => DeliveryInv
  <1> SUFFICES ASSUME RunnerInit PROVE DeliveryInv
    OBVIOUS
  <1>1. Init /\ stage = "created" /\ sent = 0 /\ completed = FALSE
    BY DEF RunnerInit
  <1>2. TilingInv /\ StreamInv
    BY <1>1, InitTilingInv, InitStreamInv
  <1>3. /\ segments = << >> /\ wire = {} /\ ~started /\ state["client"] = "CLOSED"
        /\ \A r \in Roles : mgr[r].lastAck = NoAck
    BY <1>1 DEF Init, InitManager, Roles
  <1>4. StallInv
    BY <1>2, <1>3 DEF StallInv, NoStall
  <1>5. HalfOpen
    BY <1>3 DEF HalfOpen, Roles
  <1>6. Runs
    BY <1>1, <1>3 DEF Runs, Stages
  <1> QED
    BY <1>2, <1>4, <1>5, <1>6 DEF DeliveryInv

\* start() finds a fresh session.
LEMMA StartRuns ==
  ASSUME DeliveryInv, ConnInv', RunnerStart
  PROVE  Runs'
  <1>1. /\ stage = "created" /\ ~started /\ sent = 0 /\ ~completed
    BY DEF RunnerStart, DeliveryInv, Runs
  <1>2. /\ stage' = "handshake" /\ sent' = 0 /\ completed' = completed
        /\ Start
    BY <1>1 DEF RunnerStart, ObservedStart
  <1>3. segments = << >>
    BY <1>1 DEF DeliveryInv, StallInv, Opened
  <1>4. /\ state["client"] = "CLOSED" /\ sndNxt \in [Roles -> Nat] /\ "client" \in Roles
    BY <1>1, TileTypes DEF DeliveryInv, StallInv, TilingInv, ConnInv, TimerInv, TypeInv
  <1>5. /\ started' /\ state'["client"] = "SYN_SENT"
        /\ sndNxt'["client"] = FirstByte /\ segments' = << >> /\ nextSeg' = nextSeg
    BY <1>2, <1>3, <1>4, Triggered DEF Start, sending, FirstByte
  <1>6. MessageEnd(segments') = 0 /\ HandedOver(segments', nextSeg') = 0
    <2>1. nextSeg \in Nat \ {0}
      <3>1. nextSeg \in 1 .. Len(segments) + 1
        BY TileTypes DEF DeliveryInv, StallInv, TilingInv, TypeOK
      <3>2. Len(segments) = 0
        BY <1>3
      <3> QED
        BY <3>1, <3>2
    <2>2. ~(nextSeg' <= Len(segments'))
      BY <1>5, <2>1
    <2> QED
      BY <1>5, <2>2 DEF MessageEnd, HandedOver
  <1>7. FirstByte' = FirstByte /\ FirstByte \in Nat
    BY SessionAssumption DEF FirstByte, Roles
  <1> QED
    BY <1>1, <1>2, <1>5, <1>6, <1>7 DEF Runs, Stages, MessageEnd, HandedOver

\* Nor do the events of a drain move the session out of its stage.
LEMMA DrainRuns ==
  ASSUME DeliveryInv, ConnInv', Forward, DrainOne
  PROVE  Runs'
  <1>1. /\ stage \in Stages /\ stage' = stage /\ sent' = sent /\ completed' = completed
        /\ ProcessNext
    BY DEF DrainOne, ObservedProcessNext
  <1>2. sent \in Nat /\ ~completed /\ started
    <2>1. Runs /\ stage # "finished"
      BY <1>1 DEF DeliveryInv, Stages
    <2> QED
      BY <1>1, <2>1 DEF Runs, Stages, WholeMessage, Finished
  <1>3. TilingInv /\ ConnInv /\ StreamInv
    BY DEF DeliveryInv, StallInv, TilingInv
  <1>4. CASE stage = "closing"
    <2>1. WholeMessage
      BY <1>4 DEF DeliveryInv, Runs
    <2>2. WholeMessage'
      BY <1>1, <1>2, <1>3, <2>1, WholeMessageKept DEF Next
    <2> QED
      BY <1>1, <1>2, <1>4, <2>2 DEF Runs
  <1>5. CASE stage \in {"handshake", "transfer"}
    <2>1. /\ state["client"] \in {"SYN_SENT", "ESTABLISHED"}
          /\ MessageEnd(segments) = sent
          /\ sndNxt["client"] = FirstByte + HandedOver(segments, nextSeg)
          /\ stage = "handshake" => segments = << >>
          /\ stage = "transfer" => state["client"] = "ESTABLISHED"
      BY <1>5 DEF DeliveryInv, Runs
    <2>2. /\ started' /\ segments' = segments
          /\ state'["client"] \in {"SYN_SENT", "ESTABLISHED"}
          /\ state["client"] = "ESTABLISHED" => state'["client"] = "ESTABLISHED"
          /\ sndNxt'["client"] - HandedOver(segments, nextSeg')
               = sndNxt["client"] - HandedOver(segments, nextSeg)
      BY <1>1, <1>2, <1>3, <2>1, EventHandsOver
    <2>3. /\ HandedOver(segments, nextSeg) \in Int /\ HandedOver(segments, nextSeg') \in Int
          /\ sndNxt'["client"] \in Int /\ FirstByte \in Int
      <3>1. /\ segments \in Seq(SegmentRecords) /\ segments' = segments
            /\ nextSeg \in 1 .. Len(segments) + 1 /\ nextSeg' \in 1 .. Len(segments) + 1
            /\ sndNxt'["client"] \in Nat
        BY <1>3, <2>2, StreamTypes DEF ConnInv, TimerInv, TypeInv, TypeOK, SegmentRecords
      <3>2. \A i \in 1 .. Len(segments) : segments[i] \in SegmentRecords
        BY <3>1
      <3>3. \A n \in 1 .. Len(segments) + 1 : HandedOver(segments, n) \in Int
        BY <1>2, <2>1, <3>1, <3>2 DEF HandedOver, SegmentRecords
      <3> QED
        BY <3>1, <3>3, SessionAssumption DEF FirstByte, Roles
    <2>4. sndNxt'["client"] = FirstByte + HandedOver(segments, nextSeg')
      BY <2>1, <2>2, <2>3
    <2> QED
      BY <1>1, <1>2, <1>5, <2>1, <2>2, <2>4 DEF Runs, FirstByte, MessageEnd, HandedOver
  <1> QED
    BY <1>1, <1>4, <1>5 DEF Stages

\* After the handshake send_message is never skipped and never refused.
LEMMA HandshakeRuns ==
  ASSUME DeliveryInv, NotCutOff, EndHandshake
  PROVE  Runs'
  <1>1. /\ stage = "handshake" /\ Idle
    BY DEF EndHandshake, Drained, NotCutOff
  <1>2. /\ started /\ state["client"] \in {"SYN_SENT", "ESTABLISHED"} /\ ~completed
        /\ segments = << >> /\ MessageEnd(segments) = sent
        /\ sndNxt["client"] = FirstByte + HandedOver(segments, nextSeg)
    BY <1>1 DEF DeliveryInv, Runs
  <1>3. state["client"] = "ESTABLISHED"
    BY <1>1, <1>2, IdleClient DEF DeliveryInv, StallInv
  <1>4. sndNxt["client"] = FirstByte /\ FirstByte \in Nat
    <2>1. nextSeg \in Nat \ {0}
      <3>1. nextSeg \in 1 .. Len(segments) + 1
        BY TileTypes DEF DeliveryInv, StallInv, TilingInv, TypeOK
      <3>2. Len(segments) = 0
        BY <1>2
      <3> QED
        BY <3>1, <3>2
    <2>2. HandedOver(segments, nextSeg) = 0
      BY <1>2, <2>1 DEF HandedOver, MessageEnd
    <2> QED
      BY <1>2, <2>2, SessionAssumption DEF FirstByte, Roles
  <1>5. PICK length \in MessageLengths : Send(length) /\ sent' = length
    BY <1>3 DEF EndHandshake, ObservedSend
  <1>6. stage' = "transfer" /\ completed' = completed
    BY <1>3 DEF EndHandshake
  <1>7. /\ UNCHANGED <<started, state>> /\ length \in Nat /\ MessageEnd(segments') = length
        /\ sndNxt'["client"] = sndNxt["client"] + HandedOver(segments', nextSeg')
    BY <1>5, SendHandsOver DEF DeliveryInv, StallInv
  <1> QED
    BY <1>2, <1>3, <1>4, <1>5, <1>6, <1>7 DEF Runs, Stages, FirstByte, MessageEnd, HandedOver

\* After the transfer close finds everything sent, acknowledged and handed over.
LEMMA TransferRuns ==
  ASSUME DeliveryInv, ConnInv', Forward, NotCutOff, EndTransfer
  PROVE  Runs'
  <1>1. stage = "transfer" /\ Idle /\ TilingInv /\ StreamInv /\ ConnInv /\ NoStall /\ HalfOpen
    BY DEF EndTransfer, Drained, NotCutOff, DeliveryInv, StallInv, TilingInv
  <1>2. /\ started /\ state["client"] = "ESTABLISHED" /\ ~completed /\ sent \in Nat
        /\ MessageEnd(segments) = sent
        /\ sndNxt["client"] = FirstByte + HandedOver(segments, nextSeg)
    BY <1>1 DEF DeliveryInv, Runs
  <1>3. /\ mgr["client"].inFlight = {} /\ rcvNxt["server"] = sndNxt["client"]
        /\ Opened("server") /\ state["server"] # "SYN_RECEIVED"
    BY <1>1, <1>2, IdleClient
  <1>4. sndNxt["client"] = FirstByte + sent
    <2>1. ~(nextSeg <= Len(segments))
      BY <1>1, <1>2, <1>3 DEF NoStall
    <2> QED
      BY <1>2, <2>1 DEF HandedOver
  <1>5. StreamEnd = FirstByte + sent
    BY <1>2, <1>3, <1>4, <1>1 DEF StreamInv, Finished
  <1>6. /\ Close /\ stage' = "closing" /\ sent' = sent /\ completed' = completed
    BY <1>2 DEF EndTransfer, ObservedClose
  <1>7. /\ started' /\ state'["client"] = "FIN_WAIT_1" /\ state'["server"] = state["server"]
        /\ sndNxt'["client"] = sndNxt["client"] + 1 /\ accepted' = accepted
    <2>1. /\ "client" \in Roles /\ "server" \in Roles
          /\ state \in [Roles -> States] /\ sndNxt \in [Roles -> Nat]
      BY <1>1, TileTypes DEF TilingInv
    <2> QED
      BY <1>2, <1>6, <2>1, Triggered DEF Close
  <1>8. FirstByte \in Nat
    BY SessionAssumption DEF FirstByte, Roles
  <1>9. Finished("client")' /\ Opened("server")' /\ state'["server"] # "SYN_RECEIVED"
    BY <1>3, <1>7 DEF Finished, Opened
  <1>10. DataEnd("client")' = FirstByte + sent
    BY <1>2, <1>4, <1>7, <1>8, <1>9 DEF DataEnd
  <1>11. StreamEnd' = FirstByte + sent
    BY <1>5, <1>7 DEF StreamEnd
  <1>12. WholeMessage'
    BY <1>6, <1>9, <1>10, <1>11 DEF WholeMessage, FirstByte
  <1> QED
    BY <1>2, <1>6, <1>12 DEF Runs, Stages

\* What is reported is what the session shows at the end.
LEMMA ClosingRuns ==
  ASSUME DeliveryInv, EndClosing
  PROVE  Runs'
  <1>1. /\ stage' = "finished" /\ completed' = Completed /\ sent' = sent
        /\ UNCHANGED <<started, state, sndNxt, accepted, now>>
    BY DEF EndClosing, observedVars, vars, endpoints
  <1>2. WholeMessage /\ sent \in Nat
    BY DEF EndClosing, DeliveryInv, Runs
  <1>3. WholeMessage' /\ Completed' = Completed
    BY <1>1, <1>2 DEF WholeMessage, Finished, Opened, DataEnd, StreamEnd, FirstByte,
                      Completed, BothClosed
  <1> QED
    BY <1>1, <1>2, <1>3 DEF Runs

LEMMA StepDelivery == DeliveryInv /\ NotCutOff /\ [RunnerNext]_runnerVars => DeliveryInv'
  <1> SUFFICES ASSUME DeliveryInv, NotCutOff, [RunnerNext]_runnerVars PROVE DeliveryInv'
    OBVIOUS
  <1>1. [Next]_vars
    BY RunnerSteps
  <1>2. TilingInv /\ ConnInv /\ StallInv /\ StreamInv /\ HalfOpen
    BY DEF DeliveryInv, StallInv, TilingInv
  <1>3. ConnInv' /\ Forward
    BY <1>1, <1>2, StepConnInv
  <1>4. StallInv' /\ StreamInv' /\ HalfOpen'
    BY <1>1, <1>2, <1>3, StepStallInv, StepStreamInv, StepHalfOpen
  <1>5. UNCHANGED runnerVars => Runs'
    <2> SUFFICES ASSUME UNCHANGED runnerVars PROVE Runs'
      OBVIOUS
    <2>1. /\ UNCHANGED <<stage, sent, completed>>
          /\ UNCHANGED <<started, state, sndNxt, accepted, segments, nextSeg, now>>
      BY DEF runnerVars, observedVars, vars, endpoints, sending
    <2>2. Runs
      BY DEF DeliveryInv
    <2>3. (WholeMessage' <=> WholeMessage) /\ Completed' = Completed
      BY <2>1 DEF WholeMessage, Finished, Opened, DataEnd, StreamEnd, FirstByte,
                  Completed, BothClosed
    <2> QED
      BY <2>1, <2>2, <2>3 DEF Runs, MessageEnd, HandedOver, FirstByte
  <1>6. Runs'
    BY <1>3, <1>5, StartRuns, DrainRuns, HandshakeRuns, TransferRuns, ClosingRuns DEF RunnerNext
  <1> QED
    BY <1>4, <1>6 DEF DeliveryInv

\* If no drain is cut off, the runner closes a session whose server has been
\* given the whole message and considers the connection established
\* (experiment_runner.py run_experiment_sync).  A drain that is cut off can
\* break it: the hypothesis is what the budgets are there to provide.
THEOREM DeliveredThenClosed == RunnerSpec /\ []NotCutOff => []ClosesAfterDelivery
  <1>1. DeliveryInv => ClosesAfterDelivery
    BY DEF DeliveryInv, Runs, WholeMessage, Opened, ClosesAfterDelivery, FirstByte
  <1> QED
    BY <1>1, InitDelivery, StepDelivery, PTL DEF RunnerSpec

\* If no drain is cut off, a run reported as completed delivered its whole
\* message, announced the close once and stayed within the virtual time
\* allowed (experiment_runner.py run_experiment_sync, ExperimentResult).
THEOREM CompletedMeansDelivered == RunnerSpec /\ []NotCutOff => []CompletedIsTrue
  <1>1. DeliveryInv => CompletedIsTrue
    <2> SUFFICES ASSUME DeliveryInv, completed PROVE CompletedIsTrue
      BY DEF CompletedIsTrue
    <2>1. WholeMessage /\ BothClosed(state) /\ now <= MaxVirtualTime
      BY DEF DeliveryInv, Runs, Completed
    <2>2. AnnouncedOnce
      BY DEF DeliveryInv, StallInv, TilingInv, ConnInv
    <2> QED
      BY <2>1, <2>2 DEF CompletedIsTrue, AnnouncedOnce, WholeMessage, Finished, FirstByte
  <1> QED
    BY <1>1, InitDelivery, StepDelivery, PTL DEF RunnerSpec

-----------------------------------------------------------------------------
(* The closing handshake of an experiment.  close() finds the scheduler     *)
(* empty, so from then on there is nothing under way but the two FINs,      *)
(* their copies and their acknowledgements.                                 *)

\* A FIN, or the acknowledgement of one.
LastWords(p) ==
  \/ p.kind = "FIN"
  \/ p.kind = "ACK" /\ Finished(Peer(p.src)) /\ p.ack = sndNxt[Peer(p.src)]

\* r no longer waits for the acknowledgement of its FIN.
PastFin(r) == state[r] \in {"FIN_WAIT_2", "TIME_WAIT", "CLOSED"}

Farewell ==
  /\ Finished("client")
  /\ \A w \in wire : LastWords(w.pkt)
  /\ \A r \in Roles : \A e \in mgr[r].inFlight : e.pkt.kind = "FIN"
  /\ \A r \in Roles : PastFin(r) => mgr[r].lastAck = sndNxt[r]

\* Nothing is acknowledged beyond what was sent, after a step as before it.
LEMMA AckedWithin ==
  ASSUME ConnInv, ConnInv', NEW r \in Roles
  PROVE  /\ mgr'[r].lastAck \in Int /\ rcvNxt'[Peer(r)] \in Nat /\ sndNxt'[r] \in Nat
         /\ mgr'[r].lastAck <= rcvNxt'[Peer(r)] /\ rcvNxt'[Peer(r)] <= sndNxt'[r]
  <1>1. TimerInv' /\ Numbers'
    BY DEF ConnInv
  <1>2. \A q \in Roles : mgr'[q].lastAck \in Int /\ rcvNxt'[q] \in Nat /\ sndNxt'[q] \in Nat
    BY <1>1, StepTypes
  <1> QED
    BY <1>1, <1>2 DEF Numbers, Roles, Peer

\* What has been acknowledged in full stays so.
LEMMA PastFinKept ==
  ASSUME ConnInv, ConnInv', Forward, Farewell, NEW r \in Roles, PastFin(r)
  PROVE  mgr'[r].lastAck = sndNxt'[r]
  <1>1. Finished(r)
    <2>1. started /\ StatePairs
      BY DEF Farewell, Finished, ConnInv
    <2>2. CASE r = "client"
      BY <2>2 DEF Farewell
    <2>3. CASE r = "server"
      BY <2>1, <2>3 DEF Finished, PastFin, StatePairs
    <2> QED
      BY <2>2, <2>3 DEF Roles
  <1>2. /\ sndNxt'[r] = sndNxt[r] /\ mgr'[r].lastAck >= mgr[r].lastAck
        /\ mgr[r].lastAck = sndNxt[r]
    BY <1>1 DEF Forward, Farewell
  <1> QED
    BY <1>2, AckedWithin

\* A packet that was one of these stays one.
LEMMA LastWordsKept ==
  ASSUME Forward, NEW p, p.src \in Roles, LastWords(p)
  PROVE  LastWords(p)'
  <1>1. Peer(p.src) \in Roles
    BY DEF Peer, Roles
  <1> QED
    BY <1>1 DEF LastWords, Forward

\* A step that sends only such packets, and takes an endpoint past its FIN only
\* when that is acknowledged.
LEMMA FarewellKept ==
  ASSUME ConnInv, ConnInv', Forward, Farewell,
         NEW r \in Roles, NEW m \in Manager, m.inFlight \subseteq mgr[r].inFlight,
         NEW out, \A p \in out : LastWords(p)',
         NEW onWire \in SUBSET wire, NEW armed, NEW t,
         Transmit(r, m, out, onWire, armed, t),
         \A q \in Roles : PastFin(q)' => PastFin(q) \/ mgr'[q].lastAck = sndNxt'[q]
  PROVE  Farewell'
  <1> DEFINE tracked == {p \in out : NeedsAckTracking(p)}
             new == {[pkt |-> p, deadline |-> t + ManagerConfig.rto, retries |-> 0] : p \in tracked}
  <1>1. PICK fate \in [out -> Delays \cup {Lost}] :
          /\ mgr' = [mgr EXCEPT ![r] = RegisterSent(m, tracked, t)]
          /\ wire' = onWire \cup {DeliveryEvent(p, t + fate[p]) :
                                    p \in out \ {p \in out : fate[p] = Lost}}
    BY DEF Transmit
  <1>2. RegisterSent(m, tracked, t).inFlight = m.inFlight \cup new
    BY DEF RegisterSent, Manager
  <1>3. \A e \in new : e.pkt.kind = "FIN"
    BY DEF LastWords, NeedsAckTracking
  <1>4. ASSUME NEW q \in Roles, NEW e \in mgr'[q].inFlight PROVE e.pkt.kind = "FIN"
    <2>1. e \in mgr[q].inFlight \/ e \in new
      <3> HIDE DEF new, tracked
      <3> QED
        BY <1>1, <1>2, <1>4, TileTypes
    <2> QED
      BY <1>3, <2>1 DEF Farewell
  <1>5. ASSUME NEW w \in wire' PROVE LastWords(w.pkt)'
    <2>1. CASE w \in onWire
      <3>1. LastWords(w.pkt) /\ w.pkt.src \in Roles
        BY <2>1, TileTypes DEF Farewell
      <3> QED
        BY <3>1, LastWordsKept
    <2>2. CASE w \notin onWire
      <3>1. w.pkt \in out
        BY <1>1, <2>2 DEF DeliveryEvent
      <3> QED
        BY <3>1
    <2> QED
      BY <2>1, <2>2
  <1>6. Finished("client")'
    BY DEF Farewell, Forward, Roles
  <1> QED
    BY <1>4, <1>5, <1>6, PastFinKept DEF Farewell

LEMMA DeliverAckFarewell ==
  ASSUME TilingInv, ConnInv', Forward, Farewell, DeliverAck
  PROVE  Farewell'
  <1>type. /\ ConnInv /\ TypeInv /\ mgr \in [Roles -> Manager] /\ state \in [Roles -> States]
           /\ \A r \in Roles : r = "client" \/ r = "server"
           /\ \A r \in Roles : \A e \in mgr[r].inFlight : e.pkt.src = r
    BY TileTypes DEF TilingInv
  <1>1. PICK w, armed :
          LET p == w.pkt
              r == Peer(p.src)
          IN  /\ w \in wire /\ p.kind = "ACK" /\ AckBookkeeping(r, p)
              /\ state' = IF CanApply(state[r], "RECV_ACK")
                          THEN [state EXCEPT ![r] = Apply(@, "RECV_ACK")] ELSE state
              /\ Transmit(r, AckedManager(r, p), AckedOutput(r, p), wire \ {w}, armed, w.due)
    BY DEF DeliverAck, Delivering
  <1> DEFINE p == w.pkt
  <1>2. PICK r \in Roles : r = Peer(p.src) /\ p.src = Peer(r)
    <2>1. p.src \in Roles
      BY <1>1, TileTypes DEF TilingInv
    <2> QED
      BY <2>1 DEF Roles, Peer
  <1>3. p \in Packet /\ p.ack = sndNxt[r] /\ Finished(r)
    BY <1>1, <1>2, TileTypes DEF TilingInv, Farewell, LastWords
  <1> DEFINE m == AckedManager(r, p)
             out == AckedOutput(r, p)
  <1>4. /\ m \in Manager /\ m.inFlight \subseteq mgr[r].inFlight
        /\ m.lastAck \in {p.ack, mgr[r].lastAck} /\ m.lastAck >= mgr[r].lastAck
    BY <1>1, <1>2, <1>3, <1>type, AckStepProperties, AckStepSource, AckStepNumbers DEF SendTypes
  <1>5. m.lastAck >= p.ack
    <2>1. mgr[r] \in Manager /\ p.ack \in Nat \cup {NoAck}
      BY <1>3, <1>type DEF Packet
    <2>2. OnAck(mgr[r], p.ack) \in Manager
      BY <2>1, OnAckProperties
    <2>3. m.lastAck = OnAck(mgr[r], p.ack).lastAck
      BY <2>2, CancelProperties DEF AckedManager
    <2>4. CASE IsNewProgress(mgr[r], p.ack)
      BY <2>1, <2>3, <2>4 DEF OnAck, IsDuplicateAck, IsNewProgress, Manager, NoAck
    <2>5. CASE ~IsNewProgress(mgr[r], p.ack)
      BY <1>4, <2>1, <2>5 DEF IsNewProgress, Manager, NoAck
    <2> QED
      BY <2>4, <2>5
  <1>6. \A q \in out : q.kind = "FIN"
    <2> DEFINE target == FastRetransmitTarget(mgr[r], p.ack)
    <2>1. target \in SUBSET Packet /\ target \subseteq {e.pkt : e \in mgr[r].inFlight}
      BY <1>3, <1>type, FastRetransmitTargetProperties DEF Packet
    <2>2. \A q \in target : q.kind = "FIN"
      BY <2>1 DEF Farewell
    <2>3. \A q \in Copies(target) : q.kind = "FIN"
      BY <2>1, <2>2 DEF Copies, Packet
    <2>4. \A c : DataPackets(m, c, segments, nextSeg) = {}
      <3>1. state["client"] # "ESTABLISHED"
        BY DEF Farewell, Finished
      <3>2. \A c : SendCount(m, c, segments, nextSeg) = 0
        BY <3>1 DEF SendCount
      <3> HIDE DEF m
      <3> QED
        BY <3>2 DEF DataPackets
    <2> HIDE DEF target, m
    <2>5. out = Copies(target) \/ out = {}
      BY <2>4 DEF AckedOutput, target, m
    <2> QED
      BY <2>3, <2>5
  <1>7. Transmit(r, m, out, wire \ {w}, armed, w.due) /\ wire \ {w} \in SUBSET wire
    BY <1>1, <1>2
  <1>8. \A q \in Roles \ {r} : state'[q] = state[q]
    BY <1>1, <1>2, <1>type
  <1> HIDE DEF m, out
  <1>9. mgr'[r].lastAck = sndNxt'[r]
    <2>1. mgr'[r].lastAck = m.lastAck /\ sndNxt'[r] = sndNxt[r]
      BY <1>3, <1>4, <1>7, <1>type, TransmitFrame DEF Forward
    <2> QED
      BY <1>3, <1>5, <1>type, <2>1, AckedWithin
  <1>10. \A q \in out : LastWords(q)'
    BY <1>6 DEF LastWords
  <1> QED
    BY <1>4, <1>7, <1>8, <1>9, <1>10, <1>type, FarewellKept DEF PastFin

\* A FIN comes when all else its sender had to send has been acknowledged.
LEMMA DeliverFinFarewell ==
  ASSUME TilingInv, ConnInv', Forward, Farewell, DeliverFin
  PROVE  Farewell'
  <1>type. /\ ConnInv /\ mgr \in [Roles -> Manager] /\ state \in [Roles -> States]
           /\ \A r \in Roles : r = "client" \/ r = "server"
    BY TileTypes DEF TilingInv
  <1>1. PICK w, armed :
          LET p == w.pkt
              r == Peer(p.src)
              passive == state[r] = "ESTABLISHED"
              fin == NewPacket(txCount + 1, "FIN", sndNxt[r], NoAck, 0, r)
          IN  /\ w \in wire /\ p.kind = "FIN"
              /\ state' = [state EXCEPT ![r] =
                             IF passive THEN Apply(Apply(state[r], "RECV_FIN"), "APP_CLOSE")
                             ELSE IF CanApply(@, "RECV_FIN") THEN Apply(state[r], "RECV_FIN")
                             ELSE @]
              /\ Transmit(r, mgr[r],
                          {PureAck(r, p.seq + 1)} \cup (IF passive THEN {fin} ELSE {}),
                          wire \ {w}, armed, w.due)
    BY DEF DeliverFin, Delivering
  <1> DEFINE p == w.pkt
  <1>2. PICK r \in Roles : r = Peer(p.src) /\ p.src = Peer(r) /\ p.src \in Roles
    <2>1. p.src \in Roles
      BY <1>1, TileTypes DEF TilingInv
    <2> QED
      BY <2>1 DEF Roles, Peer
  <1>3. p.seq + 1 = sndNxt[Peer(r)] /\ Finished(Peer(r))
    BY <1>1, <1>2, TileTypes DEF TilingInv, PacketOK
  <1> DEFINE passive == state[r] = "ESTABLISHED"
             reply == PureAck(r, p.seq + 1)
             fin == NewPacket(txCount + 1, "FIN", sndNxt[r], NoAck, 0, r)
             out == {reply} \cup (IF passive THEN {fin} ELSE {})
  <1>4. ASSUME NEW q, q = reply PROVE LastWords(q)'
    <2>1. q.kind = "ACK" /\ q.src = r /\ q.ack = p.seq + 1
      BY <1>4 DEF PureAck, NewPacket
    <2>2. p.seq + 1 = sndNxt'[Peer(r)] /\ Finished(Peer(r))'
      BY <1>2, <1>3 DEF Forward
    <2> HIDE DEF reply
    <2> QED
      BY <2>1, <2>2 DEF LastWords
  <1>5. ASSUME NEW q, q = fin PROVE LastWords(q)'
    BY <1>5 DEF NewPacket, LastWords
  <1>6. \A q \in out : LastWords(q)'
    <2> HIDE DEF reply, fin
    <2> QED
      BY <1>4, <1>5
  <1>7. ASSUME NEW q \in Roles, PastFin(q)' PROVE PastFin(q)
    <2>1. CASE q # r
      <3>1. state'[q] = state[q]
        BY <1>1, <1>2, <1>type, <2>1
      <3> QED
        BY <1>7, <3>1 DEF PastFin
    <2>2. CASE q = r
      <3>1. state'[r] = IF passive THEN "LAST_ACK"
                        ELSE IF state[r] = "FIN_WAIT_1" THEN "CLOSING"
                        ELSE IF state[r] = "FIN_WAIT_2" THEN "TIME_WAIT" ELSE state[r]
        BY <1>1, <1>2, <1>type, Triggered
      <3> QED
        BY <1>7, <2>2, <3>1 DEF PastFin
    <2> QED
      BY <2>1, <2>2
  <1>8. Transmit(r, mgr[r], out, wire \ {w}, armed, w.due) /\ wire \ {w} \in SUBSET wire
    BY <1>1, <1>2
  <1>9. mgr[r] \in Manager /\ mgr[r].inFlight \subseteq mgr[r].inFlight
    BY <1>type
  <1> HIDE DEF out
  <1> QED
    BY <1>6, <1>7, <1>8, <1>9, <1>type, FarewellKept

\* What is resent is a FIN.
LEMMA RtoCheckFarewell ==
  ASSUME TilingInv, ConnInv', Forward, Farewell, RtoCheck
  PROVE  Farewell'
  <1>type. ConnInv /\ TypeInv /\ mgr \in [Roles -> Manager]
    BY TileTypes DEF TilingInv
  <1>1. PICK x \in timers :
          LET late == TimedOutPackets(mgr[x.role], x.due)
          IN  Transmit(x.role, Cancel(CheckTimeouts(mgr[x.role], x.due), Ids(late)),
                       Copies(late), wire, timers \ {x}, x.due)
    BY DEF RtoCheck, Firing
  <1> DEFINE r == x.role
             late == TimedOutPackets(mgr[r], x.due)
             m == Cancel(CheckTimeouts(mgr[r], x.due), Ids(late))
  <1>2. r \in Roles /\ x.due \in Nat
    BY <1>type, TimerType DEF TypeInv
  <1>3. state' = state
    BY DEF RtoCheck, endpoints
  <1>4. m \in Manager /\ m.inFlight \subseteq mgr[r].inFlight
    <2>1. mgr[r] \in Manager
      BY <1>2, <1>type
    <2>2. CheckTimeouts(mgr[r], x.due) \in Manager
      BY <1>2, <2>1, CheckTimeoutsProperties
    <2>3. \A e \in mgr[r].inFlight : e.pkt.src = r
      BY <1>2, TileTypes DEF TilingInv
    <2> QED
      BY <1>2, <2>1, <2>2, <2>3, CancelProperties, TimeoutStep
  <1>5. \A q \in Copies(late) : q.kind = "FIN"
    <2>1. late \in SUBSET Packet /\ late \subseteq {e.pkt : e \in mgr[r].inFlight}
      BY <1>2, <1>type, TimedOutPacketsProperties DEF TimedOutPackets, Expired
    <2>2. \A q \in late : q.kind = "FIN"
      BY <1>2, <2>1 DEF Farewell
    <2> HIDE DEF late
    <2> QED
      BY <2>1, <2>2 DEF Copies, Packet
  <1>6. \A q \in Copies(late) : LastWords(q)'
    BY <1>5 DEF LastWords
  <1>7. Transmit(r, m, Copies(late), wire, timers \ {x}, x.due) /\ wire \in SUBSET wire
    BY <1>1
  <1>8. \A q \in Roles : PastFin(q)' => PastFin(q)
    BY <1>3 DEF PastFin
  <1> HIDE DEF r, late, m
  <1> QED
    BY <1>2, <1>4, <1>6, <1>7, <1>8, <1>type, FarewellKept

\* A step that sends nothing.
LEMMA QuietFarewell ==
  ASSUME ConnInv, ConnInv', Forward, Farewell, UNCHANGED <<mgr, wire, sndNxt>>,
         \A r \in Roles : PastFin(r)' => PastFin(r)
  PROVE  Farewell'
  <1>1. Finished("client")'
    BY DEF Farewell, Forward, Roles
  <1>2. ASSUME NEW w \in wire' PROVE LastWords(w.pkt)'
    <2>1. w \in wire /\ w.pkt.src \in Roles /\ LastWords(w.pkt)
      BY <1>2, TileTypes DEF Farewell
    <2> QED
      BY <2>1, LastWordsKept
  <1>3. \A r \in Roles : \A e \in mgr'[r].inFlight : e.pkt.kind = "FIN"
    BY DEF Farewell
  <1>4. \A r \in Roles : PastFin(r)' => mgr'[r].lastAck = sndNxt'[r]
    BY PastFinKept
  <1> QED
    BY <1>1, <1>2, <1>3, <1>4 DEF Farewell

LEMMA StepFarewell ==
  ASSUME TilingInv, ConnInv', Forward, Farewell, [Next]_vars
  PROVE  Farewell'
  <1>type. ConnInv /\ state \in [Roles -> States]
    BY TileTypes DEF TilingInv
  <1>1. started /\ state["client"] \notin {"SYN_SENT", "ESTABLISHED"}
    BY DEF Farewell, Finished
  <1>2. ~Start /\ ~SendMessage /\ ~Close
    BY <1>1 DEF Start, SendMessage, Send, Close
  <1>3. ~DeliverSyn /\ ~DeliverSynAck /\ ~DeliverData
    BY DEF DeliverSyn, DeliverSynAck, DeliverData, Delivering, Farewell, LastWords
  <1>4. CASE UpdateTcpConfig \/ UNCHANGED vars
    <2>1. UNCHANGED <<mgr, wire, sndNxt, state>>
      BY <1>4 DEF UpdateTcpConfig, vars, network, endpoints
    <2> QED
      BY <1>type, <2>1, QuietFarewell DEF PastFin
  <1>5. CASE TimeWaitExpiry
    <2>1. PICK x \in timers :
            /\ UNCHANGED <<mgr, wire, sndNxt>>
            /\ state' = IF state[x.role] = "TIME_WAIT"
                        THEN [state EXCEPT ![x.role] = Apply(@, "TIME_WAIT_EXPIRED")] ELSE state
      BY <1>5 DEF TimeWaitExpiry
    <2>2. \A r \in Roles : PastFin(r)' => PastFin(r)
      BY <1>type, <2>1 DEF PastFin
    <2> QED
      BY <1>type, <2>1, <2>2, QuietFarewell
  <1> QED
    BY <1>2, <1>3, <1>4, <1>5, DeliverAckFarewell, DeliverFinFarewell, RtoCheckFarewell
       DEF Next, Command, ProcessNext

\* close() opens the closing handshake with nothing else under way.
LEMMA CloseFarewell ==
  ASSUME DeliveryInv, ConnInv', Forward, NotCutOff, EndTransfer
  PROVE  Farewell'
  <1>1. stage = "transfer" /\ Idle /\ TilingInv /\ ConnInv /\ HalfOpen
    BY DEF EndTransfer, Drained, NotCutOff, DeliveryInv, StallInv, TilingInv
  <1>type. /\ mgr \in [Roles -> Manager] /\ state \in [Roles -> States]
           /\ "client" \in Roles /\ "server" \in Roles
           /\ \A r \in Roles : r = "client" \/ r = "server"
    BY <1>1, TileTypes
  <1>2. started /\ state["client"] = "ESTABLISHED"
    BY <1>1 DEF DeliveryInv, Runs
  <1>3. state["server"] = "ESTABLISHED" /\ mgr["client"].inFlight = {}
    <2>1. state["server"] # "SYN_RECEIVED" /\ mgr["client"].inFlight = {}
      BY <1>1, <1>2, IdleClient
    <2> QED
      BY <1>1, <1>2, <2>1 DEF ConnInv, StatePairs
  <1>4. mgr["server"].inFlight = {}
    <2>1. sndNxt["server"] > 0
      <3>1. Opened("server")
        BY <1>2, <1>3 DEF Opened
      <3>2. /\ sndNxt["server"] \in Nat
            /\ InitialSeq["server"] \in Nat /\ InitialSeq["server"] > 0
        BY <1>1, TileTypes
      <3> QED
        BY <1>1, <3>1, <3>2 DEF ConnInv, Numbers
    <2> QED
      BY <1>1, <1>type, <2>1, IdleAcked
  <1>5. Close
    BY <1>2 DEF EndTransfer, ObservedClose
  <1>6. PICK p : /\ p.kind = "FIN"
                 /\ Transmit("client", mgr["client"], {p}, wire, timers, now)
    BY <1>5 DEF Close, NewPacket
  <1>7. /\ state' = [state EXCEPT !["client"] = "FIN_WAIT_1"] /\ started' = started
    BY <1>2, <1>5, Triggered DEF Close
  <1>8. \A w \in wire' : w.pkt = p
    BY <1>1, <1>6, NewOnWire DEF Idle
  <1>9. ASSUME NEW r \in Roles, NEW e \in mgr'[r].inFlight PROVE e.pkt.kind = "FIN"
    <2> DEFINE tracked == {q \in {p} : NeedsAckTracking(q)}
               new == {[pkt |-> q, deadline |-> now + ManagerConfig.rto, retries |-> 0]
                         : q \in tracked}
    <2>1. mgr' = [mgr EXCEPT !["client"] = RegisterSent(mgr["client"], tracked, now)]
      BY <1>6 DEF Transmit
    <2>2. RegisterSent(mgr["client"], tracked, now).inFlight = mgr["client"].inFlight \cup new
      BY <1>type DEF RegisterSent, Manager
    <2>3. \A x \in new : x.pkt.kind = "FIN"
      BY <1>6
    <2> HIDE DEF new, tracked
    <2> QED
      BY <1>3, <1>4, <1>9, <1>type, <2>1, <2>2, <2>3
  <1>10. state'["client"] = "FIN_WAIT_1" /\ state'["server"] = "ESTABLISHED" /\ started'
    BY <1>2, <1>3, <1>7, <1>type
  <1>11. \A w \in wire' : LastWords(w.pkt)'
    BY <1>6, <1>8 DEF LastWords
  <1>12. Finished("client")' /\ \A r \in Roles : ~PastFin(r)'
    BY <1>10, <1>type DEF Finished, PastFin
  <1> QED
    BY <1>9, <1>11, <1>12 DEF Farewell

ClosingInv == DeliveryInv /\ (stage \in {"closing", "finished"} => Farewell)

LEMMA StepClosing == ClosingInv /\ NotCutOff /\ [RunnerNext]_runnerVars => ClosingInv'
  <1> SUFFICES ASSUME ClosingInv, NotCutOff, [RunnerNext]_runnerVars PROVE ClosingInv'
    OBVIOUS
  <1>1. DeliveryInv /\ DeliveryInv' /\ [Next]_vars
    BY StepDelivery, RunnerSteps DEF ClosingInv
  <1>2. TilingInv /\ ConnInv
    BY <1>1 DEF DeliveryInv, StallInv, TilingInv
  <1>3. ConnInv' /\ Forward
    BY <1>1, <1>2, StepConnInv
  <1>4. CASE stage \in {"closing", "finished"}
    BY <1>1, <1>2, <1>3, <1>4, StepFarewell DEF ClosingInv
  <1>5. CASE stage \notin {"closing", "finished"} /\ stage' \in {"closing", "finished"}
    <2>1. EndTransfer \/ EndHandshake
      BY <1>5 DEF RunnerNext, RunnerStart, DrainOne, EndClosing, runnerVars
    <2>2. ~EndHandshake
      <3>1. SUFFICES ASSUME EndHandshake PROVE FALSE
        OBVIOUS
      <3>2. Idle /\ started /\ state["client"] \in {"SYN_SENT", "ESTABLISHED"}
        BY <1>1, <3>1 DEF EndHandshake, Drained, NotCutOff, DeliveryInv, Runs
      <3>3. state["client"] = "ESTABLISHED"
        BY <1>1, <1>2, <3>2, IdleClient DEF DeliveryInv
      <3> QED
        BY <1>5, <3>1, <3>3 DEF EndHandshake
    <2> QED
      BY <1>1, <1>3, <2>1, <2>2, CloseFarewell DEF ClosingInv
  <1> QED
    BY <1>1, <1>4, <1>5 DEF ClosingInv

\* If no drain is cut off, no endpoint takes another ACK for that of its FIN:
\* FIN_WAIT_2, TIME_WAIT and CLOSED find everything it sent acknowledged
\* (session.py _handle_pure_ack, experiment_runner.py run_experiment_sync).
\* It is the emptiness of the scheduler at close() that rules stale ACKs out,
\* not the handler.
THEOREM FinsWaitedFor == RunnerSpec /\ []NotCutOff => []FinsAreAcked
  <1>1. RunnerInit => ClosingInv
    BY InitDelivery DEF ClosingInv, RunnerInit
  <1>2. ClosingInv => FinsAreAcked
    <2> SUFFICES ASSUME ClosingInv, started, NEW r \in Roles, PastFin(r)
                 PROVE  Unacked(r) = sndNxt[r]
      BY DEF FinsAreAcked, PastFin
    <2>1. ConnInv /\ StatePairs /\ Runs
      BY DEF ClosingInv, DeliveryInv, StallInv, TilingInv, ConnInv
    <2>2. stage \in {"closing", "finished"}
      <3>1. stage # "created"
        BY <2>1 DEF Runs
      <3>2. stage \notin {"handshake", "transfer"}
        BY <2>1, TileTypes DEF Runs, StatePairs, PastFin
      <3> QED
        BY <2>1, <3>1, <3>2 DEF Runs, Stages
    <2>3. mgr[r].lastAck = sndNxt[r] /\ sndNxt[r] \in Nat
      BY <2>1, <2>2, TileTypes DEF ClosingInv, Farewell
    <2> QED
      BY <2>3 DEF Unacked, NoAck
  <1> QED
    BY <1>1, <1>2, StepClosing, PTL DEF RunnerSpec

-----------------------------------------------------------------------------
(* Goodput.  What was sent for the first time and is still on the wire is   *)
(* the part of the stream that can still count as new.                      *)

\* What each delivery brings, and at which number it starts.
LenOf == [w \in Deliveries |-> w.pkt.len]
SeqOf == [w \in Deliveries |-> w.pkt.seq]

\* Data on the wire that is no copy.
Originals == {w \in wire : w.pkt.kind = "DATA" /\ ~IsCopy(w.pkt)}

\* What was counted as unique, and the originals that may still be, are no more
\* than the client has written.
Goodput ==
  /\ stats.bytesUnique \in Nat /\ stats.bytesTotal \in Nat
  /\ \E n \in Nat : IsSum(n, Originals, LenOf) /\ stats.bytesUnique + n <= Written - FirstByte
  /\ StreamEnd - FirstByte <= stats.bytesTotal

\* Bytes is a sum.
LEMMA BytesIsSum ==
  ASSUME NEW T \in SUBSET Packet, IsFiniteSet(T)
  PROVE  IsSum(Bytes(T), T, [p \in Packet |-> p.len])
  <1> DEFINE w == [p \in Packet |-> p.len]
             Iter(f) == f = [s \in SUBSET T |-> IF s = {} THEN 0
                               ELSE (CHOOSE x \in s : TRUE).len + f[s \ {CHOOSE x \in s : TRUE}]]
             iter == CHOOSE f : Iter(f)
  <1>1. Bytes(T) = iter[T]
    BY DEF Bytes, MapThenSumSet, MapThenFoldSet
  <1>2. w \in [Packet -> Nat]
    BY DEF Packet
  <1>3. PICK f : Sums(f, T, w)
    BY <1>2, SumsExist
  <1>4. ASSUME NEW s \in SUBSET T, s # {}
        PROVE  w[FirstOf(s)] = (CHOOSE x \in s : TRUE).len
    <2>1. FirstOf(s) \in Packet
      BY <1>4, FirstOfIn
    <2> QED
      BY <2>1 DEF FirstOf
  <1> HIDE DEF w
  <1>5. ASSUME NEW g PROVE Sums(g, T, w) <=> Iter(g)
    BY <1>4 DEF Sums, FirstOf
  <1> HIDE DEF Iter
  <1>6. \E g : Iter(g)
    BY <1>3, <1>5, Zenon
  <1>7. Iter(iter)
    BY <1>6
  <1> HIDE DEF iter
  <1> QED
    BY <1>1, <1>5, <1>7 DEF IsSum, w

\* No packet has no bytes, one packet its length.
LEMMA BytesOfOne ==
  ASSUME NEW p \in Packet
  PROVE  Bytes({}) = 0 /\ Bytes({p}) = p.len
  <1> DEFINE w == [q \in Packet |-> q.len]
  <1>1. w \in [Packet -> Nat] /\ w[p] = p.len /\ p.len \in Nat
    BY DEF Packet
  <1>2. IsSum(Bytes({}), {}, w) /\ IsSum(Bytes({p}), {p}, w)
    BY BytesIsSum, FS_EmptySet, FS_Singleton
  <1>3. {} \cup {p} = {p} /\ IsFiniteSet({}) /\ p \in Packet \ {} /\ {} \in SUBSET Packet
    BY FS_EmptySet
  <1> HIDE DEF w
  <1>4. Bytes({}) = 0
    BY <1>2, SumOfNone
  <1>5. IsSum(Bytes({p}), {} \cup {p}, w)
    BY <1>2, <1>3
  <1>6. Bytes({p}) = Bytes({}) + w[p]
    BY <1>1, <1>2, <1>3, <1>5, SumOfMore
  <1> QED
    BY <1>1, <1>4, <1>6

\* Up to where the client has written, and what its data on the wire is.
WrittenFits ==
  /\ Written \in Nat /\ FirstByte \in Nat
  /\ started => Written = DataEnd("client") /\ Written <= sndNxt["client"]
  /\ ~started => Written = FirstByte

LEMMA WrittenType == ConnInv => WrittenFits
  <1> SUFFICES ASSUME ConnInv PROVE WrittenFits
    OBVIOUS
  <1>1. /\ FirstByte \in Nat /\ FirstByte = InitialSeq["client"] + 1
        /\ sndNxt["client"] \in Nat /\ InitialSeq["client"] \in Nat
        /\ state["client"] \in ClientStates /\ Numbers /\ started \in BOOLEAN
    <2>1. TypeOK /\ "client" \in Roles /\ sndNxt["client"] \in Nat /\ InitialSeq["client"] \in Nat
      BY TileTypes
    <2> QED
      BY <2>1 DEF ConnInv, TypeOK, FirstByte
  <1>2. CASE ~started
    <2>0. state["client"] = "CLOSED"
      <3>1. TypeInv /\ "client" \in Roles
        BY TileTypes
      <3> QED
        BY <1>2, <3>1 DEF TypeInv
    <2>1. ClientSide = "idle"
      BY <1>2, <2>0 DEF ClientSide
    <2>2. Written = FirstByte
      BY <2>1 DEF Written
    <2> QED
      BY <1>1, <1>2, <2>2 DEF WrittenFits
  <1>3. CASE started
    <2>1. ClientSide # "idle" /\ (ClientSide \in {"opening", "open"} <=> ~Finished("client"))
      BY <1>1, <1>3 DEF ClientSide, Finished, ClientStates
    <2>2. Written = DataEnd("client")
      BY <2>1 DEF Written, DataEnd
    <2>3. sndNxt["client"] > InitialSeq["client"]
      BY <1>1, <1>3 DEF Numbers
    <2> QED
      BY <1>1, <1>3, <2>2, <2>3 DEF DataEnd, WrittenFits
  <1> QED
    BY <1>2, <1>3

\* The client never unwrites.
LEMMA WrittenGrows ==
  ASSUME ConnInv, ConnInv', Forward, StreamInv, [Next]_vars
  PROVE  Written' >= Written
  <1>1. Written \in Nat
    BY WrittenType DEF WrittenFits
  <1>2. Written' = Written \/ Written' > Written
    <2>1. Stream!Next \/ UNCHANGED Stream!streamVars
      BY StepMaps
    <2>2. Stream!Write => Written' > Written
      BY DEF Stream!Write
    <2>3. Stream!Connect \/ Stream!Accept \/ Stream!Confirm \/ Stream!Establish \/ Stream!Deliver
            \/ Stream!Finish \/ Stream!Respond \/ Stream!CloseClient \/ Stream!CloseServer
            => Written' = Written
      BY DEF Stream!Connect, Stream!Accept, Stream!Confirm, Stream!Establish, Stream!Deliver,
           Stream!Finish, Stream!Respond, Stream!CloseClient, Stream!CloseServer
    <2>4. UNCHANGED Stream!streamVars => Written' = Written
      BY DEF Stream!streamVars
    <2> QED
      BY <2>1, <2>2, <2>3, <2>4 DEF Stream!Next
  <1>3. Written' \in Nat
    <2>1. (ConnInv => WrittenFits)'
      BY WrittenType, PTL
    <2> QED
      BY <2>1 DEF WrittenFits
  <1> QED
    BY <1>1, <1>2, <1>3

-----------------------------------------------------------------------------
(* What a step sends for the first time.                                    *)

\* Of the packets out, those that are data and not among resent take numbers
\* from send_next_seq on, side by side.
OutFits(out, resent) ==
  LET data == {p \in out : p.kind = "DATA" /\ p.id \notin Ids(resent)}
  IN  /\ \A p \in data : p.seq >= sndNxt["client"]
      /\ \A p, q \in data : p # q => Apt(p, q)

\* A step that takes the packets gone off the wire and sends such packets.
Emits(gone, resent) ==
  \E out : /\ OutFits(out, resent)
           /\ \A v \in wire' : v \in wire \ gone \/ v.pkt \in out

\* Handshake and teardown packets carry no data.
LEMMA ControlsFit ==
  ASSUME NEW out, \A p \in out : p.kind # "DATA", NEW resent
  PROVE  OutFits(out, resent)
  BY DEF OutFits

\* A packet without data may be sent along.
LEMMA OneMoreFits ==
  ASSUME NEW out, NEW resent, OutFits(out, resent), NEW p, p.kind # "DATA"
  PROVE  OutFits(out \cup {p}, resent) /\ OutFits(out \cup {}, resent)
  BY DEF OutFits

\* A packet resent is among the copies the statistics count.
LEMMA CopiesFit ==
  ASSUME NEW resent
  PROVE  OutFits(resent, resent)
  BY DEF OutFits, Ids

\* What the window opens for is new data, side by side.
LEMMA DataFit ==
  ASSUME txCount \in Nat, sndNxt["client"] \in Nat,
         NEW m, NEW c, NEW segs, NEW next, SendTypes(m, c, segs, next),
         Apart(segs), Abut(segs), NEW resent
  PROVE  OutFits(DataPackets(m, c, segs, next), resent)
  BY DataTiles DEF OutFits, Pieces

\* What an ACK makes its receiver send.
LEMMA AckOutputFits ==
  ASSUME TilingInv, NEW r \in Roles, NEW p \in Packet
  PROVE  OutFits(AckedOutput(r, p), Copies(FastRetransmitTarget(mgr[r], p.ack)))
  <1>1. TypeInv /\ txCount \in Nat /\ sndNxt["client"] \in Nat /\ Apart(segments) /\ Abut(segments)
    <2>1. "client" \in Roles
      BY DEF Roles
    <2> QED
      BY <2>1, TileTypes DEF TilingInv, ConnInv, Tiles
  <1>2. SendTypes(AckedManager(r, p), AckedCongestion(r, p), segments, nextSeg)
    BY <1>1, AckStepProperties
  <1> QED
    BY <1>1, <1>2, DataFit, CopiesFit DEF AckedOutput

\* A delay takes time: what is sent on a delivery is due after it.
LEMMA SentOnDelivery ==
  ASSUME NEW r, NEW m, NEW out, NEW onWire, NEW armed, NEW t \in Nat,
         Transmit(r, m, out, onWire, armed, t)
  PROVE  \A v \in wire' : v \in onWire \/ (v.pkt \in out /\ v.due > t)
  <1>1. PICK fate \in [out -> Delays \cup {Lost}] :
          wire' = onWire \cup {DeliveryEvent(p, t + fate[p]) :
                                 p \in out \ {p \in out : fate[p] = Lost}}
    BY DEF Transmit
  <1>2. \A p \in out : fate[p] # Lost => t + fate[p] > t
    <2>1. \A d \in Delays : d \in Nat /\ d > 0
      BY SessionAssumption
    <2>2. \A p \in out : fate[p] # Lost => fate[p] \in Delays
      OBVIOUS
    <2> QED
      BY <2>1, <2>2
  <1>3. ASSUME NEW v \in wire', v \notin onWire PROVE v.pkt \in out /\ v.due > t
    <2>1. PICK p \in out : fate[p] # Lost /\ v = DeliveryEvent(p, t + fate[p])
      BY <1>1, <1>3
    <2>2. v.pkt = p /\ v.due = t + fate[p]
      BY <2>1 DEF DeliveryEvent
    <2> QED
      BY <1>2, <2>1, <2>2
  <1> QED
    BY <1>3

\* The scheduler's next event is one, and of one kind.
LEMMA OneNext ==
  ASSUME TypeOK, WireInv
  PROVE  /\ \A v, w \in wire : IsNext(v) /\ IsNext(w) => v = w
         /\ \A e, f \in timers : IsNext(e) /\ IsNext(f) =>
              /\ e.kind = f.kind /\ e.due = f.due
              /\ e.kind = "rto_check" => e.role = f.role
         /\ \A w \in wire : \A e \in timers : ~(IsNext(w) /\ IsNext(e))
  <1>1. /\ \A w \in wire : w.due \in Nat /\ w.order \in Nat \X {2} /\ w.order = <<w.pkt.id, 2>>
        /\ \A e \in timers : /\ e.due \in Nat
                             /\ \/ e.kind = "rto_check" /\ e.order \in Nat \X {1}
                                \/ e.kind = "time_wait_expiry" /\ e.order \in Nat \X {0}
    BY DEF TypeOK, WireInv, Deliveries, RtoTimers, TimeWaitTimers
  <1>2. ASSUME NEW a \in wire \cup timers, NEW b \in wire \cup timers, IsNext(a), IsNext(b)
        PROVE  a.due = b.due /\ a.order = b.order
    <2>1. Precedes(a, b) /\ Precedes(b, a)
      BY <1>2 DEF IsNext
    <2>2. /\ a.due \in Nat /\ a.order \in Nat \X {0, 1, 2}
          /\ b.due \in Nat /\ b.order \in Nat \X {0, 1, 2}
      BY <1>1
    <2> QED
      BY <2>1, <2>2 DEF Precedes, Earlier
  <1>3. ASSUME NEW v \in wire, NEW w \in wire, IsNext(v), IsNext(w) PROVE v = w
    <2>1. v.order = <<v.pkt.id, 2>> /\ w.order = <<w.pkt.id, 2>> /\ v.order = w.order
      BY <1>1, <1>2, <1>3
    <2>2. v.pkt.id = w.pkt.id
      BY <2>1
    <2> QED
      BY <2>2 DEF WireInv
  <1>4. ASSUME NEW e \in timers, NEW f \in timers, IsNext(e), IsNext(f)
        PROVE  /\ e.kind = f.kind /\ e.due = f.due
               /\ e.kind = "rto_check" => e.role = f.role
    <2>1. e.due = f.due /\ e.order = f.order
      BY <1>2, <1>4
    <2>2. e.kind = f.kind
      BY <1>1, <2>1
    <2> QED
      BY <2>1, <2>2 DEF WireInv
  <1>5. ASSUME NEW w \in wire, NEW e \in timers, IsNext(w), IsNext(e) PROVE FALSE
    BY <1>1, <1>2, <1>5
  <1> QED
    BY <1>3, <1>4, <1>5

\* The copies an ACK sets off.
Answers(p) ==
  IF p.ack # NoAck THEN Copies(FastRetransmitTarget(mgr[Peer(p.src)], p.ack)) ELSE {}

\* A delivery takes one packet off the wire and adds at most its data to the
\* stream the server has.
LEMMA DeliveryEmits ==
  ASSUME TilingInv, WireInv, StreamInv, ConnInv', NEW w \in wire, IsNext(w),
         DeliverSyn \/ DeliverSynAck \/ DeliverAck \/ DeliverFin \/ DeliverData
  PROVE  /\ w \notin wire' /\ Emits({w}, Answers(w.pkt))
         /\ StreamEnd' <= StreamEnd + w.pkt.len /\ StreamEnd' \in Nat
  <1>type. /\ TypeOK /\ ConnInv /\ "client" \in Roles /\ "server" \in Roles
           /\ w.due \in Nat /\ w.pkt \in Packet /\ w.pkt.len \in Nat /\ StreamEnd \in Nat
           /\ Peer(w.pkt.src) \in Roles /\ PacketOK(w.pkt)
           /\ Peer("client") = "server" /\ Peer("server") = "client"
           /\ InitialSeq["client"] \in Nat
    BY TileTypes, StreamTypes, DeliveryType DEF TilingInv
  <1>one. \A v \in wire : IsNext(v) => v = w
    BY <1>type, OneNext
  \* Whoever transmits what: it is enough that the packets fit.
  <1>sent. ASSUME NEW r, NEW m, NEW out, NEW armed, OutFits(out, Answers(w.pkt)),
                  Transmit(r, m, out, wire \ {w}, armed, w.due)
           PROVE  w \notin wire' /\ Emits({w}, Answers(w.pkt))
    <2>1. \A v \in wire' : v \in wire \ {w} \/ (v.pkt \in out /\ v.due > w.due)
      BY <1>sent, <1>type, SentOnDelivery
    <2>2. w \notin wire'
      BY <1>type, <2>1
    <2> QED
      BY <1>sent, <2>1, <2>2 DEF Emits
  <1>kept. accepted' = accepted => StreamEnd' <= StreamEnd + w.pkt.len /\ StreamEnd' \in Nat
    <2>1. accepted' = accepted => StreamEnd' = StreamEnd
      BY DEF StreamEnd
    <2> QED
      BY <1>type, <2>1
  <1>1. CASE DeliverSyn
    <2>1. PICK v \in wire :
            LET synAck == NewPacket(txCount, "SYN_ACK", InitialSeq["server"], v.pkt.seq + 1, 0,
                                    "server")
            IN  /\ IsNext(v)
                /\ \/ Transmit("server", mgr["server"], {synAck}, wire \ {v}, timers, v.due)
                   \/ Transmit("server", mgr["server"], {}, wire \ {v}, timers, v.due)
      BY <1>1 DEF DeliverSyn, Delivering
    <2> DEFINE synAck == NewPacket(txCount, "SYN_ACK", InitialSeq["server"], w.pkt.seq + 1, 0,
                                   "server")
    <2>2. \/ Transmit("server", mgr["server"], {synAck}, wire \ {w}, timers, w.due)
          \/ Transmit("server", mgr["server"], {}, wire \ {w}, timers, w.due)
      BY <1>one, <2>1
    <2>3. OutFits({synAck}, Answers(w.pkt)) /\ OutFits({}, Answers(w.pkt))
      BY ControlsFit DEF NewPacket
    <2>4. accepted' = accepted
      BY <1>1 DEF DeliverSyn
    <2> HIDE DEF synAck
    <2> QED
      BY <1>sent, <1>kept, <2>2, <2>3, <2>4
  <1>2. CASE DeliverSynAck
    <2>1. PICK v, reply :
            /\ v \in wire /\ IsNext(v) /\ v.pkt.kind = "SYN_ACK" /\ reply.kind = "ACK"
            /\ \/ Transmit("client", AckedManager("client", v.pkt),
                           AckedOutput("client", v.pkt) \cup {reply},
                           wire \ {v}, timers, v.due)
               \/ Transmit("client", AckedManager("client", v.pkt),
                           AckedOutput("client", v.pkt) \cup {},
                           wire \ {v}, timers, v.due)
      <3>1. PICK v \in wire :
              LET resent == AckedOutput("client", v.pkt)
                  opening == CanApply(state["client"], "RECV_SYN_ACK")
                  next == IF opening THEN v.pkt.seq + 1 ELSE rcvNxt["client"]
                  reply == NewPacket(txCount + Cardinality(resent), "ACK", sndNxt'["client"],
                                     next, 0, "client")
              IN  /\ IsNext(v) /\ v.pkt.kind = "SYN_ACK"
                  /\ \/ Transmit("client", AckedManager("client", v.pkt), resent \cup {reply},
                                 wire \ {v}, timers, v.due)
                     \/ Transmit("client", AckedManager("client", v.pkt), resent \cup {},
                                 wire \ {v}, timers, v.due)
        BY <1>2 DEF DeliverSynAck, Delivering
      <3>2. \A id, seq, next : NewPacket(id, "ACK", seq, next, 0, "client").kind = "ACK"
        BY DEF NewPacket
      <3> QED
        BY <3>1, <3>2
    <2>2. v = w
      BY <1>one, <2>1
    <2>3. w.pkt.ack # NoAck /\ Peer(w.pkt.src) = "client"
      BY <1>type, <2>1, <2>2 DEF PacketOK, NoAck
    <2>4. OutFits(AckedOutput("client", w.pkt), Answers(w.pkt))
      BY <1>type, <2>3, AckOutputFits DEF Answers
    <2>5. /\ OutFits(AckedOutput("client", w.pkt) \cup {reply}, Answers(w.pkt))
          /\ OutFits(AckedOutput("client", w.pkt) \cup {}, Answers(w.pkt))
      BY <2>1, <2>4, OneMoreFits
    <2>6. accepted' = accepted
      BY <1>2 DEF DeliverSynAck
    <2> QED
      BY <1>sent, <1>kept, <2>1, <2>2, <2>5, <2>6
  <1>3. CASE DeliverAck
    <2>1. PICK v, armed :
            LET r == Peer(v.pkt.src)
            IN  /\ v \in wire /\ IsNext(v) /\ v.pkt.kind = "ACK"
                /\ Transmit(r, AckedManager(r, v.pkt), AckedOutput(r, v.pkt), wire \ {v},
                            armed, v.due)
      BY <1>3 DEF DeliverAck, Delivering
    <2>2. v = w
      BY <1>one, <2>1
    <2>3. OutFits(AckedOutput(Peer(w.pkt.src), w.pkt), Answers(w.pkt))
      BY <1>type, <2>1, <2>2, AckOutputFits DEF Answers, PacketOK
    <2>4. accepted' = accepted
      BY <1>3 DEF DeliverAck
    <2> QED
      BY <1>sent, <1>kept, <2>1, <2>2, <2>3, <2>4
  <1>4. CASE DeliverFin
    <2>1. PICK v, armed :
            LET r == Peer(v.pkt.src)
                fin == NewPacket(txCount + 1, "FIN", sndNxt[r], NoAck, 0, r)
            IN  /\ v \in wire /\ IsNext(v)
                /\ \/ Transmit(r, mgr[r], {PureAck(r, v.pkt.seq + 1)} \cup {fin},
                               wire \ {v}, armed, v.due)
                   \/ Transmit(r, mgr[r], {PureAck(r, v.pkt.seq + 1)} \cup {},
                               wire \ {v}, armed, v.due)
      BY <1>4 DEF DeliverFin, Delivering
    <2> DEFINE r == Peer(w.pkt.src)
               ack == PureAck(r, w.pkt.seq + 1)
               fin == NewPacket(txCount + 1, "FIN", sndNxt[r], NoAck, 0, r)
    <2>2. v = w
      BY <1>one, <2>1
    <2>3. \/ Transmit(r, mgr[r], {ack} \cup {fin}, wire \ {w}, armed, w.due)
          \/ Transmit(r, mgr[r], {ack} \cup {}, wire \ {w}, armed, w.due)
      BY <2>1, <2>2
    <2>4. ack.kind = "ACK" /\ fin.kind = "FIN"
      BY DEF PureAck, NewPacket
    <2> HIDE DEF ack, fin
    <2>5. OutFits({ack}, Answers(w.pkt))
      BY <2>4, ControlsFit
    <2>6. OutFits({ack} \cup {fin}, Answers(w.pkt)) /\ OutFits({ack} \cup {}, Answers(w.pkt))
      BY <2>4, <2>5, OneMoreFits
    <2>7. accepted' = accepted
      BY <1>4 DEF DeliverFin
    <2> HIDE DEF r
    <2> QED
      BY <1>sent, <1>kept, <2>3, <2>6, <2>7
  <1>5. CASE DeliverData
    <2>1. PICK v, next :
            LET r == Peer(v.pkt.src)
            IN  /\ v \in wire /\ IsNext(v) /\ v.pkt.kind = "DATA"
                /\ Transmit(r, mgr[r], {PureAck(r, next)}, wire \ {v}, timers, v.due)
                /\ accepted' = IF v.pkt.seq = rcvNxt[r]
                               THEN Append(accepted, [seq |-> v.pkt.seq, len |-> v.pkt.len])
                               ELSE accepted
      <3>1. PICK v \in wire :
              LET r == Peer(v.pkt.src)
                  next == IF InOrder(r, v.pkt) THEN rcvNxt[r] + v.pkt.len ELSE rcvNxt[r]
              IN  /\ IsNext(v) /\ v.pkt.kind = "DATA"
                  /\ Transmit(r, mgr[r], {PureAck(r, next)}, wire \ {v}, timers, v.due)
                  /\ accepted' = IF InOrder(r, v.pkt)
                                 THEN Append(accepted, [seq |-> v.pkt.seq, len |-> v.pkt.len])
                                 ELSE accepted
        BY <1>5 DEF DeliverData, Delivering
      <3> QED
        BY <3>1 DEF InOrder
    <2>2. v = w
      BY <1>one, <2>1
    <2>3. Peer(w.pkt.src) = "server"
      BY <1>type, <2>1, <2>2 DEF PacketOK
    <2>4. OutFits({PureAck("server", next)}, Answers(w.pkt))
      BY ControlsFit DEF PureAck, NewPacket
    <2>5. w \notin wire' /\ Emits({w}, Answers(w.pkt))
      BY <1>sent, <2>1, <2>2, <2>3, <2>4
    <2>6. CASE w.pkt.seq # rcvNxt["server"]
      BY <1>kept, <2>1, <2>2, <2>3, <2>5, <2>6
    <2>7. CASE w.pkt.seq = rcvNxt["server"]
      <3>1. w.pkt.seq = StreamEnd /\ w.pkt.len > 0
        BY <1>type, <2>1, <2>2, <2>7, InOrderData
      <3>2. accepted' = Append(accepted, [seq |-> StreamEnd, len |-> w.pkt.len])
        BY <2>1, <2>2, <2>3, <2>7, <3>1
      <3>3. accepted \in Chunks /\ Contiguous(accepted) /\ StreamEnd = Stream!End(accepted)
        BY <1>type, StreamTypes, StreamEndIsEnd DEF StreamInv
      <3>4. Stream!End(Append(accepted, [seq |-> StreamEnd, len |-> w.pkt.len]))
              = StreamEnd + w.pkt.len
        BY <1>type, <3>1, <3>3, AppendChunk
      <3>5. StreamEnd' = StreamEnd + w.pkt.len
        BY <3>2, <3>4 DEF StreamEnd, Stream!End, FirstByte
      <3> QED
        BY <1>type, <2>5, <3>5
    <2> QED
      BY <2>6, <2>7
  <1> QED
    BY <1>1, <1>2, <1>3, <1>4, <1>5

\* A timer resends what expired and changes nothing the server has.
LEMMA TimerEmits ==
  ASSUME TilingInv, WireInv, StreamInv, ConnInv', NEW e \in timers, IsNext(e),
         RtoCheck \/ TimeWaitExpiry
  PROVE  /\ e.kind = "rto_check" => Emits({}, Copies(TimedOutPackets(mgr[e.role], e.due)))
         /\ e.kind # "rto_check" => Emits({}, {})
         /\ StreamEnd' = StreamEnd
  <1>one. TypeOK /\ \A f \in timers : IsNext(f) =>
                      /\ e.kind = f.kind /\ e.due = f.due
                      /\ e.kind = "rto_check" => e.role = f.role
    BY TileTypes, OneNext DEF TilingInv
  <1>1. CASE RtoCheck
    <2>1. PICK f \in timers :
            LET late == TimedOutPackets(mgr[f.role], f.due)
            IN  /\ f.kind = "rto_check" /\ IsNext(f)
                /\ Transmit(f.role, Cancel(CheckTimeouts(mgr[f.role], f.due), Ids(late)),
                            Copies(late), wire, timers \ {f}, f.due)
                /\ accepted' = accepted
      BY <1>1 DEF RtoCheck, Firing, endpoints
    <2> DEFINE resent == Copies(TimedOutPackets(mgr[f.role], f.due))
    <2>2. \A v \in wire' : v \in wire \/ v.pkt \in resent
      BY <2>1, NewOnWire
    <2>3. resent = Copies(TimedOutPackets(mgr[e.role], e.due)) /\ e.kind = "rto_check"
      BY <1>one, <2>1
    <2>4. StreamEnd' = StreamEnd
      BY <2>1 DEF StreamEnd
    <2> HIDE DEF resent
    <2>5. Emits({}, resent)
      BY <2>2, CopiesFit DEF Emits
    <2> QED
      BY <2>3, <2>4, <2>5
  <1>2. CASE TimeWaitExpiry
    <2>1. \E f \in timers : f.kind = "time_wait_expiry" /\ IsNext(f)
      BY <1>2 DEF TimeWaitExpiry, Firing
    <2>2. e.kind # "rto_check"
      BY <1>one, <2>1
    <2>3. wire' = wire /\ accepted' = accepted
      BY <1>2 DEF TimeWaitExpiry
    <2>4. OutFits({}, {})
      BY ControlsFit
    <2> QED
      BY <2>2, <2>3, <2>4 DEF Emits, StreamEnd
  <1> QED
    BY <1>1, <1>2

\* A command takes nothing off the wire and resends nothing.
LEMMA CommandEmits ==
  ASSUME TilingInv, Start \/ SendMessage \/ Close
  PROVE  Emits({}, {}) /\ StreamEnd' = StreamEnd
  <1>type. /\ TypeInv /\ TypeOK /\ txCount \in Nat /\ "client" \in Roles
           /\ sndNxt["client"] \in Nat /\ mgr["client"] \in Manager
    BY TileTypes DEF TilingInv
  <1>end. StreamEnd' = StreamEnd
    <2>1. accepted' = accepted
      BY DEF Start, SendMessage, Send, Close
    <2> QED
      BY <2>1 DEF StreamEnd
  <1>sent. ASSUME NEW out, OutFits(out, {}), Transmit("client", mgr["client"], out, wire, timers, now)
           PROVE  Emits({}, {})
    BY <1>sent, NewOnWire DEF Emits
  <1>1. CASE Start \/ Close
    <2>1. PICK p : /\ p.kind # "DATA"
                   /\ Transmit("client", mgr["client"], {p}, wire, timers, now)
      BY <1>1 DEF Start, Close, NewPacket
    <2>2. OutFits({p}, {})
      BY <2>1, ControlsFit
    <2> QED
      BY <1>end, <1>sent, <2>1, <2>2
  <1>2. ASSUME NEW length \in MessageLengths, Send(length) PROVE Emits({}, {})
    <2> DEFINE segs == Segment(length, tcpConfig.mss)
               m == mgr["client"]
               c == cong["client"]
    <2>1. Transmit("client", m, DataPackets(m, c, segs, 1), wire, timers, now)
      BY <1>2 DEF Send
    <2>2. SendTypes(m, c, segs, 1) /\ Apart(segs) /\ Abut(segs)
      <3>1. length \in Nat /\ tcpConfig \in TcpConfigs
        BY SessionAssumption, <1>type DEF TypeOK
      <3>2. tcpConfig.mss \in Nat \ {0}
        BY <3>1 DEF TcpConfigs
      <3>3. segs \in Seq(SegmentRecords) /\ Ordered(segs)
        BY <3>1, <3>2, SegmentProperties
      <3>4. 1 \in 1 .. Len(segs) + 1
        BY <3>3
      <3>5. Apart(segs) /\ Abut(segs)
        BY <3>1, <3>2, SegmentApart, SegmentAbut
      <3> QED
        BY <1>type, <3>3, <3>4, <3>5 DEF SendTypes, TypeOK
    <2> HIDE DEF segs, c
    <2>3. OutFits(DataPackets(m, c, segs, 1), {})
      BY <1>type, <2>2, DataFit
    <2> QED
      BY <1>sent, <2>1, <2>3
  <1> QED
    BY <1>1, <1>2, <1>end DEF SendMessage

-----------------------------------------------------------------------------
(* The account of a step: what arrives for the first time leaves the        *)
(* originals on the wire, what is sent for the first time is written anew.  *)

\* The sum over part of a set is no more than over all of it.
LEMMA SumOfPart ==
  ASSUME NEW D, NEW w \in [D -> Nat], NEW T \in SUBSET D, IsFiniteSet(T), NEW U \in SUBSET T,
         NEW t, IsSum(t, T, w), NEW u, IsSum(u, U, w)
  PROVE  u <= t
  <1> DEFINE R == T \ U
  <1>1. /\ U \in SUBSET D /\ IsFiniteSet(U) /\ R \in SUBSET D /\ IsFiniteSet(R)
        /\ U \cap R = {} /\ U \cup R = T
    BY FS_Subset
  <1> HIDE DEF R
  <1>2. PICK s \in Nat : IsSum(s, R, w)
    BY <1>1, SumOfEach
  <1>3. IsSum(t, U \cup R, w)
    BY <1>1
  <1>4. t = u + s
    BY <1>1, <1>2, <1>3, SumOfBoth
  <1>5. u \in Nat
    BY <1>1, SumIsNat
  <1> QED
    BY <1>2, <1>4, <1>5

\* What is new on the wire and no copy takes numbers that were not written
\* before, and no number twice.
LEMMA NewOriginals ==
  ASSUME ConnInv, ConnInv', WireInv', Written' >= Written,
         NEW gone, NEW resent, Emits(gone, resent),
         copies' = (copies \cup Ids(resent)) \cap {w.pkt.id : w \in wire'},
         NEW N, N = Originals' \ wire, NEW n, IsSum(n, N, LenOf)
  PROVE  n \in Nat /\ n <= Written' - Written
  <1>fits. WrittenFits /\ WrittenFits'
    <2>1. (ConnInv => WrittenFits)'
      BY WrittenType, PTL
    <2> QED
      BY <2>1, WrittenType
  <1>type. /\ LenOf \in [Deliveries -> Nat] /\ SeqOf \in [Deliveries -> Nat]
           /\ wire' \subseteq Deliveries /\ FirstByte = InitialSeq["client"] + 1
           /\ InitialSeq["client"] \in Nat /\ sndNxt["client"] \in Nat
    <2>1. LenOf \in [Deliveries -> Nat] /\ SeqOf \in [Deliveries -> Nat]
      BY DEF LenOf, SeqOf, Deliveries, Packet
    <2>2. InitialSeq["client"] \in Nat /\ sndNxt["client"] \in Nat
      <3>1. "client" \in Roles
        BY DEF Roles
      <3> QED
        BY <3>1, TileTypes
    <2>3. wire' \subseteq Deliveries
      BY DEF ConnInv, TimerInv, TypeInv, TypeOK
    <2> QED
      BY <2>1, <2>2, <2>3 DEF FirstByte
  <1>1. PICK out : /\ OutFits(out, resent)
                   /\ \A v \in wire' : v \in wire \ gone \/ v.pkt \in out
    BY DEF Emits
  <1> DEFINE data == {p \in out : p.kind = "DATA" /\ p.id \notin Ids(resent)}
  <1>2. ASSUME NEW v \in N
        PROVE  /\ v \in wire' /\ v.pkt \in data /\ SegmentEndSeq(v.pkt) = v.pkt.seq + v.pkt.len
               /\ v.pkt.seq \in Nat /\ v.pkt.len \in Nat /\ v.pkt.len > 0
               /\ Written <= v.pkt.seq /\ v.pkt.seq + v.pkt.len <= Written'
               /\ LenOf[v] = v.pkt.len /\ SeqOf[v] = v.pkt.seq
    <2>1. v \in wire' /\ v \notin wire /\ v.pkt.kind = "DATA" /\ v.pkt.id \notin copies'
      BY DEF Originals, IsCopy
    <2>2. v.pkt.id \notin Ids(resent)
      BY <2>1
    <2>3. v.pkt \in data
      BY <1>1, <2>1, <2>2
    <2>4. v \in Deliveries /\ v.pkt \in Packet /\ v.pkt.seq \in Nat /\ v.pkt.len \in Nat
      BY <1>type, <2>1 DEF Deliveries, Packet
    <2>5. PacketOK(v.pkt)'
      BY <2>1 DEF ConnInv, Packets
    <2>6. /\ started' /\ v.pkt.seq > InitialSeq["client"] /\ v.pkt.len > 0
          /\ v.pkt.seq + v.pkt.len <= DataEnd("client")'
      BY <2>1, <2>5 DEF PacketOK
    <2>7. v.pkt.seq + v.pkt.len <= Written'
      BY <1>fits, <2>6 DEF WrittenFits
    <2>8. Written <= v.pkt.seq
      <3>1. v.pkt.seq >= sndNxt["client"]
        BY <1>1, <2>3 DEF OutFits
      <3> QED
        BY <1>fits, <1>type, <2>4, <2>6, <3>1 DEF WrittenFits
    <2>9. SegmentEndSeq(v.pkt) = v.pkt.seq + v.pkt.len
      BY <2>1, <2>4 DEF SegmentEndSeq
    <2> QED
      BY <2>1, <2>3, <2>4, <2>6, <2>7, <2>8, <2>9 DEF LenOf, SeqOf
  <1>3. N \in SUBSET Deliveries /\ IsFiniteSet(N)
    <2>1. N \subseteq wire'
      BY <1>2
    <2> QED
      BY <1>type, <2>1, FS_Subset DEF WireInv
  <1>4. ASSUME NEW u \in N, NEW v \in N, u # v
        PROVE  SeqOf[u] + LenOf[u] <= SeqOf[v] \/ SeqOf[v] + LenOf[v] <= SeqOf[u]
    <2>1. u.pkt # v.pkt
      BY <1>2, <1>4 DEF WireInv
    <2>2. u.pkt \in data /\ v.pkt \in data
      BY <1>2
    <2>3. Apt(u.pkt, v.pkt)
      BY <1>1, <2>1, <2>2 DEF OutFits
    <2> HIDE DEF data
    <2> QED
      BY <1>2, <2>3 DEF Apt
  <1> HIDE DEF data
  <1>5. /\ \A v \in N : LenOf[v] > 0
        /\ \A v \in N : Written <= SeqOf[v] /\ SeqOf[v] + LenOf[v] <= Written'
    BY <1>2
  <1>6. Written \in Nat /\ Written' \in Nat /\ Written <= Written'
    BY <1>fits DEF WrittenFits
  <1>7. n <= Written' - Written
    BY <1>type, <1>3, <1>4, <1>5, <1>6, SumInside
  <1>8. n \in Nat
    BY <1>type, <1>3, SumIsNat
  <1> QED
    BY <1>7, <1>8

\* What leaves the wire for the first time is what the fold counts as unique.
LEMMA UniqueArrived ==
  ASSUME TypeOK, NEW w \in wire, PacketOK(w.pkt),
         NEW g, IsSum(g, {v \in {w} : v \in Originals}, LenOf)
  PROVE  g = Bytes({p \in {w.pkt} : ~IsCopy(p)})
  <1>1. w \in Deliveries /\ w.pkt \in Packet /\ w.pkt.len \in Nat /\ LenOf[w] = w.pkt.len
    BY DeliveryType DEF TypeOK, LenOf
  <1>2. Bytes({}) = 0 /\ Bytes({w.pkt}) = w.pkt.len
    BY <1>1, BytesOfOne
  <1>3. CASE w \in Originals
    <2>1. {v \in {w} : v \in Originals} = {} \cup {w}
      BY <1>3
    <2>a. {p \in {w.pkt} : ~IsCopy(p)} = {w.pkt}
      BY <1>3 DEF Originals
    <2>2. LenOf \in [Deliveries -> Nat] /\ {} \in SUBSET Deliveries /\ IsFiniteSet({})
          /\ w \in Deliveries \ {}
      BY <1>1, FS_EmptySet DEF LenOf, Deliveries, Packet
    <2>3. PICK z \in Nat : IsSum(z, {}, LenOf)
      BY <2>2, SumOfEach
    <2>4. z = 0
      BY <2>3, SumOfNone
    <2>5. IsSum(g, {} \cup {w}, LenOf)
      BY <2>1
    <2>6. g = z + LenOf[w]
      BY <2>2, <2>3, <2>5, SumOfMore
    <2>7. g = w.pkt.len
      BY <1>1, <2>4, <2>6
    <2> QED
      BY <1>2, <2>7, <2>a
  <1>4. CASE w \notin Originals
    <2>1. {v \in {w} : v \in Originals} = {}
      BY <1>4
    <2>2. g = 0
      BY <2>1, SumOfNone
    <2>3. w.pkt.kind = "DATA" => IsCopy(w.pkt)
      BY <1>4 DEF Originals
    <2>4. w.pkt.kind # "DATA" => w.pkt.len = 0
      BY <1>1 DEF PacketOK, Packet, Kinds
    <2>5. {p \in {w.pkt} : ~IsCopy(p)} = {} \/ {p \in {w.pkt} : ~IsCopy(p)} = {w.pkt}
      OBVIOUS
    <2>6. IsCopy(w.pkt) => {p \in {w.pkt} : ~IsCopy(p)} = {}
      OBVIOUS
    <2> QED
      BY <1>2, <2>2, <2>3, <2>4, <2>5, <2>6
  <1> QED
    BY <1>3, <1>4

\* The account of the originals on the wire, when the packets gone leave it.
LEMMA OriginalsKept ==
  ASSUME ConnInv, ConnInv', WireInv, WireInv', Written' >= Written,
         NEW gone \in SUBSET wire, gone \cap wire' = {},
         NEW resent, Emits(gone, resent),
         copies' = (copies \cup Ids(resent)) \cap {w.pkt.id : w \in wire'},
         NEW n, IsSum(n, Originals, LenOf), NEW g, IsSum(g, gone \cap Originals, LenOf)
  PROVE  \E e \in Nat : IsSum(e, Originals', LenOf) /\ e + g <= n + (Written' - Written)
  <1>sets. PICK N, K, G, O, P :
             /\ N = Originals' \ wire /\ K = Originals' \cap wire /\ G = gone \cap Originals
             /\ O = Originals /\ P = Originals'
    OBVIOUS
  <1>type. /\ LenOf \in [Deliveries -> Nat] /\ wire \subseteq Deliveries
           /\ wire' \subseteq Deliveries /\ Written \in Nat /\ Written' \in Int
    <2>1. wire \subseteq Deliveries /\ wire' \subseteq Deliveries
      BY DEF ConnInv, TimerInv, TypeInv, TypeOK
    <2>2. (ConnInv => WrittenFits)'
      BY WrittenType, PTL
    <2>3. Written \in Nat /\ Written' \in Int
      BY <2>2, WrittenType DEF WrittenFits
    <2> QED
      BY <2>1, <2>3 DEF LenOf, Deliveries, Packet
  <1>1. Originals \subseteq wire /\ Originals' \subseteq wire'
    BY DEF Originals
  <1>2. /\ Originals' \in SUBSET Deliveries /\ IsFiniteSet(Originals')
        /\ Originals \in SUBSET Deliveries /\ IsFiniteSet(Originals)
    BY <1>1, <1>type, FS_Subset DEF WireInv
  <1>3. K \subseteq Originals
    <2> SUFFICES ASSUME NEW v \in K PROVE v \in Originals
      OBVIOUS
    <2>1. v \in wire' /\ v \in wire /\ v.pkt.kind = "DATA" /\ v.pkt.id \notin copies'
      BY <1>sets DEF Originals, IsCopy
    <2>2. v.pkt.id \notin copies
      BY <2>1
    <2> QED
      BY <2>1, <2>2 DEF Originals, IsCopy
  <1>4. /\ K \in SUBSET Deliveries /\ IsFiniteSet(K) /\ G \in SUBSET Deliveries /\ IsFiniteSet(G)
        /\ K \cap G = {} /\ K \cup G \in SUBSET Originals
        /\ N \in SUBSET Deliveries /\ IsFiniteSet(N) /\ K \cap N = {} /\ K \cup N = Originals'
    <2>1. K \cap G = {}
      BY <1>1, <1>sets
    <2>2. IsFiniteSet(K) /\ IsFiniteSet(G) /\ IsFiniteSet(N)
      BY <1>2, <1>sets, FS_Subset
    <2> QED
      BY <1>2, <1>3, <1>sets, <2>1, <2>2
  <1>5. IsFiniteSet(K \cup G)
    BY <1>4, FS_Union
  <1>6. IsSum(n, O, LenOf) /\ IsSum(g, G, LenOf) /\ P \in SUBSET Deliveries /\ IsFiniteSet(P)
        /\ O \in SUBSET Deliveries /\ IsFiniteSet(O) /\ K \cup G \in SUBSET O /\ K \cup N = P
    BY <1>2, <1>4, <1>sets
  <1>7. ASSUME NEW v \in Nat, IsSum(v, N, LenOf) PROVE v <= Written' - Written
    BY <1>7, <1>sets, NewOriginals
  <1>8. PICK k \in Nat : IsSum(k, K, LenOf)
    BY <1>4, <1>type, SumOfEach
  <1>9. PICK v \in Nat : IsSum(v, N, LenOf)
    BY <1>4, <1>type, SumOfEach
  <1>10. PICK e \in Nat : IsSum(e, K \cup N, LenOf)
    BY <1>6, <1>type, SumOfEach
  <1>11. PICK b \in Nat : IsSum(b, K \cup G, LenOf)
    BY <1>5, <1>6, <1>type, SumOfEach
  <1>12. e = k + v
    <2>1. /\ K \in SUBSET Deliveries /\ IsFiniteSet(K)
          /\ N \in SUBSET Deliveries /\ IsFiniteSet(N) /\ K \cap N = {}
      BY <1>4
    <2>2. LenOf \in [Deliveries -> Nat]
      BY <1>type
    <2>3. \A a, c : IsSum(a, K, LenOf) /\ IsSum(c, N, LenOf) =>
                     \A d : IsSum(d, K \cup N, LenOf) => d = a + c
      <3> SUFFICES ASSUME NEW a, NEW c, NEW d, IsSum(a, K, LenOf), IsSum(c, N, LenOf),
                          IsSum(d, K \cup N, LenOf)
                   PROVE  d = a + c
        OBVIOUS
      <3> QED
        BY <2>1, <2>2, SumOfBoth
    <2> QED
      BY <1>8, <1>9, <1>10, <2>3
  <1>13. b = k + g
    BY <1>4, <1>6, <1>8, <1>11, <1>type, SumOfBoth
  <1>14. b <= n
    BY <1>6, <1>11, <1>type, SumOfPart
  <1>15. v <= Written' - Written
    BY <1>7, <1>9
  <1>16. n \in Nat /\ g \in Nat
    BY <1>4, <1>6, <1>type, SumIsNat
  <1>17. e + g <= n + (Written' - Written)
    BY <1>8, <1>9, <1>12, <1>13, <1>14, <1>15, <1>16, <1>type
  <1> QED
    BY <1>6, <1>10, <1>17, <1>sets

\* A step that takes packets off the wire, counts them and sends others.
LEMMA GoodputKept ==
  ASSUME ConnInv, ConnInv', WireInv, WireInv', Goodput, Written' >= Written,
         NEW gone \in SUBSET wire, gone \cap wire' = {},
         gone = {} \/ \E w \in wire : gone = {w},
         NEW arrived, arrived = {w.pkt : w \in gone},
         NEW duplicate, NEW fast, NEW expired, NEW resent,
         Fold(arrived, duplicate, fast, expired, resent), Emits(gone, resent),
         StreamEnd \in Nat, StreamEnd' \in Nat, StreamEnd' <= StreamEnd + Bytes(arrived)
  PROVE  Goodput'
  <1> DEFINE unique == {p \in arrived : ~IsCopy(p)}
  <1>1. /\ stats'.bytesTotal = stats.bytesTotal + Bytes(arrived)
        /\ stats'.bytesUnique = stats.bytesUnique + Bytes(unique)
        /\ copies' = (copies \cup Ids(resent)) \cap {w.pkt.id : w \in wire'}
    BY DEF Fold
  <1>type. /\ TypeOK /\ FirstByte \in Nat /\ FirstByte' = FirstByte
           /\ LenOf \in [Deliveries -> Nat] /\ wire \subseteq Deliveries
           /\ Written \in Nat /\ Written' \in Int
    <2>1. TypeOK /\ wire \subseteq Deliveries
      BY DEF ConnInv, TimerInv, TypeInv, TypeOK
    <2>2. (ConnInv => WrittenFits)'
      BY WrittenType, PTL
    <2>3. Written \in Nat /\ Written' \in Int /\ FirstByte \in Nat
      BY <2>2, WrittenType DEF WrittenFits
    <2>4. FirstByte' = FirstByte
      BY DEF FirstByte
    <2>5. LenOf \in [Deliveries -> Nat]
      BY DEF LenOf, Deliveries, Packet
    <2> QED
      BY <2>1, <2>3, <2>4, <2>5
  <1>2. PICK n \in Nat : /\ IsSum(n, Originals, LenOf)
                         /\ stats.bytesUnique + n <= Written - FirstByte
    BY DEF Goodput
  <1>3. \E g \in Nat : /\ IsSum(g, gone \cap Originals, LenOf) /\ g = Bytes(unique)
                       /\ Bytes(arrived) \in Nat
    <2>1. CASE gone = {}
      <3>1. gone \cap Originals = {} /\ arrived = {} /\ unique = {}
        BY <2>1
      <3>2. IsFiniteSet({}) /\ {} \in SUBSET Deliveries
        BY FS_EmptySet
      <3>3. PICK g \in Nat : IsSum(g, {}, LenOf)
        BY <1>type, <3>2, SumOfEach
      <3>4. g = 0
        BY <3>3, SumOfNone
      <3>5. Bytes({}) = 0
        <4>1. IsSum(Bytes({}), {}, [p \in Packet |-> p.len])
          BY FS_EmptySet, BytesIsSum
        <4> QED
          BY <4>1, SumOfNone
      <3> QED
        BY <3>1, <3>3, <3>4, <3>5
    <2>2. ASSUME NEW w \in wire, gone = {w}
          PROVE  \E g \in Nat : /\ IsSum(g, gone \cap Originals, LenOf) /\ g = Bytes(unique)
                                /\ Bytes(arrived) \in Nat
      <3>1. gone \cap Originals = {v \in {w} : v \in Originals} /\ arrived = {w.pkt}
        BY <2>2
      <3>2. PacketOK(w.pkt) /\ w.pkt \in Packet /\ w.pkt.len \in Nat
        BY <1>type, DeliveryType DEF ConnInv, Packets
      <3>3. IsFiniteSet(gone \cap Originals) /\ gone \cap Originals \in SUBSET Deliveries
        <4>1. IsFiniteSet({w}) /\ gone \cap Originals \subseteq {w}
          BY <2>2, FS_Singleton
        <4> QED
          BY <1>type, <4>1, FS_Subset
      <3>4. PICK g \in Nat : IsSum(g, gone \cap Originals, LenOf)
        BY <1>type, <3>3, SumOfEach
      <3>5. IsSum(g, {v \in {w} : v \in Originals}, LenOf)
        BY <3>1, <3>4
      <3>6. g = Bytes({p \in {w.pkt} : ~IsCopy(p)})
        BY <1>type, <3>2, <3>5, UniqueArrived
      <3>7. Bytes(arrived) \in Nat
        BY <3>1, <3>2, BytesOfOne
      <3> QED
        BY <3>1, <3>4, <3>6, <3>7
    <2> QED
      BY <2>1, <2>2
  <1>4. PICK g \in Nat : /\ IsSum(g, gone \cap Originals, LenOf) /\ g = Bytes(unique)
                         /\ Bytes(arrived) \in Nat
    BY <1>3
  <1>5. PICK e \in Nat : IsSum(e, Originals', LenOf) /\ e + g <= n + (Written' - Written)
    BY <1>1, <1>2, <1>4, OriginalsKept
  <1> HIDE DEF unique
  <1>6. stats'.bytesUnique \in Nat /\ stats'.bytesTotal \in Nat
    BY <1>1, <1>4 DEF Goodput
  <1>7. stats'.bytesUnique + e <= Written' - FirstByte'
    BY <1>1, <1>2, <1>4, <1>5, <1>type DEF Goodput
  <1>8. StreamEnd' - FirstByte' <= stats'.bytesTotal
    BY <1>1, <1>4, <1>type DEF Goodput
  <1>9. LenOf' = LenOf
    BY DEF LenOf, Deliveries, Packet
  <1> QED
    BY <1>5, <1>6, <1>7, <1>8, <1>9 DEF Goodput

\* A step that delivers nothing.
LEMMA NothingArrives ==
  ASSUME ConnInv, ConnInv', WireInv, WireInv', Goodput, Written' >= Written,
         NEW expired, NEW resent, Fold({}, FALSE, FALSE, expired, resent), Emits({}, resent),
         StreamEnd \in Nat, StreamEnd' = StreamEnd
  PROVE  Goodput'
  <1> DEFINE none == {}
  <1>1. /\ none \in SUBSET wire /\ none \cap wire' = {} /\ none = {}
        /\ none = {w.pkt : w \in none}
        /\ Fold(none, FALSE, FALSE, expired, resent) /\ Emits(none, resent)
    OBVIOUS
  <1>2. Bytes(none) = 0
    <2>1. IsSum(Bytes({}), {}, [p \in Packet |-> p.len])
      BY FS_EmptySet, BytesIsSum
    <2> QED
      BY <2>1, SumOfNone
  <1> HIDE DEF none
  <1>3. StreamEnd' \in Nat /\ StreamEnd' <= StreamEnd + Bytes(none)
    BY <1>2
  <1> QED
    BY <1>1, <1>3, GoodputKept

-----------------------------------------------------------------------------
(* The invariant.                                                           *)

\* The inductive invariant.
GoodputInv == CounterInv /\ StreamInv /\ Goodput

\* A session opens with nothing written and nothing counted.
LEMMA InitGoodput == RunnerInit => GoodputInv
  <1> SUFFICES ASSUME RunnerInit PROVE GoodputInv
    OBVIOUS
  <1>1. Init /\ InitStatistics
    BY DEF RunnerInit
  <1>2. CounterInv /\ StreamInv
    BY <1>1, InitCounterInv, InitStreamInv
  <1>3. wire = {} /\ accepted = << >> /\ ~started
    BY <1>1 DEF Init
  <1>4. Originals = {} /\ StreamEnd = FirstByte
    BY <1>3 DEF Originals, StreamEnd, FirstByte
  <1>5. Written = FirstByte /\ FirstByte \in Nat
    <2>1. ConnInv
      BY <1>2 DEF CounterInv, TilingInv
    <2> QED
      BY <1>3, <2>1, WrittenType DEF WrittenFits
  <1>6. PICK n \in Nat : IsSum(n, {}, LenOf)
    <2>1. LenOf \in [Deliveries -> Nat] /\ {} \in SUBSET Deliveries /\ IsFiniteSet({})
      BY FS_EmptySet DEF LenOf, Deliveries, Packet
    <2> QED
      BY <2>1, SumOfEach
  <1>7. n = 0
    BY <1>6, SumOfNone
  <1>8. stats.bytesUnique = 0 /\ stats.bytesTotal = 0
    BY <1>1 DEF InitStatistics
  <1>9. Goodput
    BY <1>4, <1>5, <1>6, <1>7, <1>8 DEF Goodput
  <1> QED
    BY <1>2, <1>9 DEF GoodputInv

\* The packet that FoldDelivery counts is the one the session's step takes
\* off the wire, and the copies FoldTimer counts are those it sends.
LEMMA ObservedGoodput ==
  ASSUME GoodputInv, CounterInv', Written' >= Written, ObservedProcessNext
  PROVE  Goodput'
  <1>type. /\ TilingInv /\ ConnInv /\ ConnInv' /\ WireInv /\ WireInv' /\ StreamInv /\ Goodput
           /\ StreamEnd \in Nat
    <2>1. ConnInv /\ ConnInv'
      BY DEF GoodputInv, CounterInv, TilingInv
    <2> QED
      BY <2>1, StreamTypes DEF GoodputInv, CounterInv
  <1>next. TypeOK /\ \A w \in wire : \A e \in timers : ~(IsNext(w) /\ IsNext(e))
    BY <1>type, TileTypes, OneNext
  <1>1. CASE FoldDelivery
    <2>1. PICK w \in wire :
            LET p == w.pkt
                m == mgr[Peer(p.src)]
            IN  /\ IsNext(w)
                /\ IF p.ack # NoAck
                   THEN Fold({p}, IsDuplicateAck(m, p.ack), TriggersFastRetransmit(m, p.ack),
                             {}, Copies(FastRetransmitTarget(m, p.ack)))
                   ELSE Fold({p}, FALSE, FALSE, {}, {})
      BY <1>1 DEF FoldDelivery
    <2>2. PICK duplicate, fast : Fold({w.pkt}, duplicate, fast, {}, Answers(w.pkt))
      BY <2>1 DEF Answers
    <2>3. ~(RtoCheck \/ TimeWaitExpiry)
      <3>1. RtoCheck \/ TimeWaitExpiry => \E e \in timers : IsNext(e)
        BY DEF RtoCheck, TimeWaitExpiry, Firing
      <3> QED
        BY <1>next, <2>1, <3>1
    <2>4. DeliverSyn \/ DeliverSynAck \/ DeliverAck \/ DeliverFin \/ DeliverData
      BY <2>3 DEF ObservedProcessNext, ProcessNext
    <2>5. /\ w \notin wire' /\ Emits({w}, Answers(w.pkt))
          /\ StreamEnd' <= StreamEnd + w.pkt.len /\ StreamEnd' \in Nat
      BY <1>type, <2>1, <2>4, DeliveryEmits
    <2>6. w.pkt \in Packet /\ Bytes({w.pkt}) = w.pkt.len
      BY <1>next, DeliveryType, BytesOfOne
    <2> DEFINE gone == {w}
               arrived == {w.pkt}
    <2>7. /\ gone \in SUBSET wire /\ gone \cap wire' = {} /\ (\E v \in wire : gone = {v})
          /\ arrived = {v.pkt : v \in gone}
          /\ Emits(gone, Answers(w.pkt)) /\ StreamEnd' <= StreamEnd + Bytes(arrived)
          /\ Fold(arrived, duplicate, fast, {}, Answers(w.pkt))
      BY <2>2, <2>5, <2>6
    <2> HIDE DEF gone, arrived
    <2> QED
      BY <1>type, <2>5, <2>7, GoodputKept
  <1>2. CASE FoldTimer
    <2>1. PICK e \in timers :
            LET m == mgr[e.role]
            IN  /\ IsNext(e)
                /\ IF e.kind = "rto_check"
                   THEN Fold({}, FALSE, FALSE, Expired(m, e.due),
                             Copies(TimedOutPackets(m, e.due)))
                   ELSE FoldCommand
      BY <1>2 DEF FoldTimer
    <2>2. ~(DeliverSyn \/ DeliverSynAck \/ DeliverAck \/ DeliverFin \/ DeliverData)
      <3>1. DeliverSyn \/ DeliverSynAck \/ DeliverAck \/ DeliverFin \/ DeliverData
              => \E w \in wire : IsNext(w)
        BY DEF DeliverSyn, DeliverSynAck, DeliverAck, DeliverFin, DeliverData, Delivering
      <3> QED
        BY <1>next, <2>1, <3>1
    <2>3. RtoCheck \/ TimeWaitExpiry
      BY <2>2 DEF ObservedProcessNext, ProcessNext
    <2>4. PICK expired, resent : Fold({}, FALSE, FALSE, expired, resent) /\ Emits({}, resent)
      <3>1. CASE e.kind = "rto_check"
        BY <1>type, <2>1, <2>3, <3>1, TimerEmits
      <3>2. CASE e.kind # "rto_check"
        BY <1>type, <2>1, <2>3, <3>2, TimerEmits DEF FoldCommand
      <3> QED
        BY <3>1, <3>2
    <2>5. StreamEnd' = StreamEnd
      BY <1>type, <2>1, <2>3, TimerEmits
    <2> QED
      BY <1>type, <2>4, <2>5, NothingArrives
  <1> QED
    BY <1>1, <1>2 DEF ObservedProcessNext

\* Commands count nothing, deliveries and timers keep the account.
LEMMA StepGoodput == GoodputInv /\ [RunnerNext]_runnerVars => GoodputInv'
  <1> SUFFICES ASSUME GoodputInv, [RunnerNext]_runnerVars PROVE GoodputInv'
    OBVIOUS
  <1>1. CounterInv /\ CounterInv'
    BY StepCounterInv DEF GoodputInv
  <1>2. /\ TilingInv /\ ConnInv /\ ConnInv' /\ WireInv /\ WireInv' /\ StreamInv /\ Goodput
        /\ [Next]_vars
    BY <1>1, RunnerSteps DEF CounterInv, TilingInv, GoodputInv
  <1>3. Forward /\ StreamInv'
    BY <1>2, StepConnInv, StepStreamInv
  <1>4. Written' >= Written
    BY <1>2, <1>3, WrittenGrows
  <1>5. StreamEnd \in Nat
    BY <1>2, StreamTypes
  <1>6. CASE UNCHANGED observedVars
    <2>1. UNCHANGED <<wire, stats, copies, accepted, started, state, sndNxt>>
      BY <1>6 DEF observedVars, vars, network, endpoints
    <2>2. Originals' = Originals /\ StreamEnd' = StreamEnd /\ Written' = Written
      BY <2>1 DEF Originals, IsCopy, StreamEnd, Written, ClientSide, FirstByte
    <2>3. FirstByte' = FirstByte /\ LenOf' = LenOf
      BY DEF FirstByte, LenOf, Deliveries, Packet
    <2>4. Goodput'
      BY <1>2, <2>1, <2>2, <2>3 DEF Goodput
    <2> QED
      BY <1>1, <1>3, <2>4 DEF GoodputInv
  <1>7. CASE (Start \/ SendMessage \/ Close) /\ FoldCommand
    <2>1. Emits({}, {}) /\ StreamEnd' = StreamEnd /\ Fold({}, FALSE, FALSE, {}, {})
      BY <1>2, <1>7, CommandEmits DEF FoldCommand
    <2>2. Goodput'
      BY <1>2, <1>4, <1>5, <2>1, NothingArrives
    <2> QED
      BY <1>1, <1>3, <2>2 DEF GoodputInv
  <1>8. CASE ObservedProcessNext
    <2>1. Goodput'
      BY <1>1, <1>4, <1>8, ObservedGoodput
    <2> QED
      BY <1>1, <1>3, <2>1 DEF GoodputInv
  <1> QED
    BY <1>6, <1>7, <1>8, RunnerSteps

\* Goodput never exceeds what the client has written, however many spurious
\* copies arrive, and whatever the server's application was given was counted
\* as delivered (statistics_engine.py reduce_event, bytes_delivered_unique).
THEOREM GoodputInvariant == RunnerSpec => []GoodputBounded
  <1>1. GoodputInv => GoodputBounded
    <2> SUFFICES ASSUME GoodputInv PROVE GoodputBounded
      OBVIOUS
    <2>1. PICK n \in Nat : stats.bytesUnique + n <= Written - FirstByte
      BY DEF GoodputInv, Goodput
    <2>2. Written \in Nat /\ FirstByte \in Nat /\ stats.bytesUnique \in Nat
      BY WrittenType DEF GoodputInv, Goodput, CounterInv, TilingInv, WrittenFits
    <2> QED
      BY <2>1, <2>2 DEF GoodputInv, Goodput, GoodputBounded
  <1> QED
    BY <1>1, InitGoodput, StepGoodput, PTL DEF RunnerSpec

=============================================================================
