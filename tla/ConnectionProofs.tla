--------------------------- MODULE ConnectionProofs ---------------------------
(***************************************************************************)
(* The connection as a whole: one invariant of where the two state         *)
(* machines may be given each other, of what the sequence and              *)
(* acknowledgement numbers of the two sides have to do with each other,    *)
(* and of what is announced, for all configurations, delays, message       *)
(* lengths and bounds; and the theorems it gives at once.                  *)
(*                                                                         *)
(* None of it is inductive by itself.  What an endpoint does on a packet   *)
(* is right because of what the packet says, so the invariant speaks of    *)
(* the packets: everything on the wire or tracked for retransmission says  *)
(* something that was true when it was sent and stays true (PacketOK),     *)
(* which is why late, repeated and overtaken packets do no harm.           *)
(***************************************************************************)
EXTENDS TcpSessionProofs

\* r has left the state it opened the connection in.
Opened(r) == started /\ state[r] # (IF r = "client" THEN "SYN_SENT" ELSE "LISTEN")

\* r has sent its FIN.
Finished(r) ==
  started /\ IF r = "client" THEN state[r] \notin {"SYN_SENT", "ESTABLISHED"}
             ELSE state[r] \in {"LAST_ACK", "CLOSED"}

\* One past the last data r has sent: its FIN takes the number after it.
DataEnd(r) == IF Finished(r) THEN sndNxt[r] - 1 ELSE sndNxt[r]

\* What a packet under way says is so.
PacketOK(p) ==
  /\ started
  /\ p.ack <= rcvNxt[p.src]
  /\ p.kind = "SYN" =>
       p.src = "client" /\ p.seq = InitialSeq["client"] /\ p.len = 0
  /\ p.kind = "SYN_ACK" =>
       /\ p.src = "server" /\ p.seq = InitialSeq["server"] /\ p.len = 0
       /\ p.ack = InitialSeq["client"] + 1 /\ Opened("server")
  /\ p.kind = "ACK" => p.ack # NoAck /\ Opened(p.src) /\ p.len = 0
  /\ p.kind = "DATA" =>
       /\ p.src = "client" /\ Opened("client")
       /\ p.seq > InitialSeq["client"] /\ p.len > 0
       /\ p.seq + p.len <= DataEnd("client")
  /\ p.kind = "FIN" => Finished(p.src) /\ p.seq + 1 = sndNxt[p.src] /\ p.len = 0

Packets ==
  /\ \A w \in wire : PacketOK(w.pkt)
  /\ \A r \in Roles : \A e \in mgr[r].inFlight :
       PacketOK(e.pkt) /\ NeedsAckTracking(e.pkt) /\ e.retries = 0

\* Where the numbers of the two sides stand.
Numbers ==
  /\ ~started => sndUna["client"] = 0 /\ sndNxt["client"] = 0
  /\ started => sndNxt["client"] > InitialSeq["client"]
  /\ ~Opened("client") => rcvNxt["client"] = 0
  /\ ~Opened("server") => rcvNxt["server"] = 0 /\ sndUna["server"] = 0 /\ sndNxt["server"] = 0
  /\ Opened("server") => sndNxt["server"] > InitialSeq["server"]
  /\ rcvNxt["server"] <= sndNxt["client"] /\ mgr["client"].lastAck <= rcvNxt["server"]
  /\ rcvNxt["client"] <= sndNxt["server"] /\ mgr["server"].lastAck <= rcvNxt["client"]

ClientStates == {"CLOSED", "SYN_SENT", "ESTABLISHED", "FIN_WAIT_1", "FIN_WAIT_2",
                 "CLOSING", "TIME_WAIT"}

\* Segments of the current message do not overlap.
Apart(segs) ==
  \A i, j \in 1 .. Len(segs) : i < j => segs[i].offset + segs[i].len <= segs[j].offset

ConnInv ==
  /\ TimerInv
  /\ Packets /\ Numbers
  /\ StatePairs /\ state["client"] \in ClientStates
  /\ AnnouncedOnce /\ TimeWaitEnds
  /\ Apart(segments)

\* What no step takes back.
Forward ==
  /\ started => started'
  /\ \A r \in Roles :
       /\ rcvNxt'[r] >= rcvNxt[r] /\ sndNxt'[r] >= sndNxt[r] /\ sndUna'[r] >= sndUna[r]
       /\ mgr'[r].lastAck >= mgr[r].lastAck
       /\ Opened(r) => Opened(r)'
       /\ Finished(r) => Finished(r)' /\ sndNxt'[r] = sndNxt[r]
  /\ DataEnd("client")' >= DataEnd("client")

-----------------------------------------------------------------------------
(* The transition table, read by trigger.                                   *)

LEMMA Triggered ==
  /\ Apply("CLOSED", "APP_OPEN") = "SYN_SENT" /\ Apply("CLOSED", "APP_PASSIVE_OPEN") = "LISTEN"
  /\ Apply("ESTABLISHED", "APP_CLOSE") = "FIN_WAIT_1"
  /\ \A s : CanApply(s, "RECV_SYN") <=> s = "LISTEN"
  /\ Apply("LISTEN", "RECV_SYN") = "SYN_RECEIVED"
  /\ \A s : CanApply(s, "RECV_SYN_ACK") <=> s = "SYN_SENT"
  /\ Apply("SYN_SENT", "RECV_SYN_ACK") = "ESTABLISHED"
  /\ \A s : CanApply(s, "RECV_ACK")
              <=> s \in {"SYN_RECEIVED", "FIN_WAIT_1", "CLOSING", "LAST_ACK"}
  /\ Apply("SYN_RECEIVED", "RECV_ACK") = "ESTABLISHED"
  /\ Apply("FIN_WAIT_1", "RECV_ACK") = "FIN_WAIT_2"
  /\ Apply("CLOSING", "RECV_ACK") = "TIME_WAIT"
  /\ Apply("LAST_ACK", "RECV_ACK") = "CLOSED"
  /\ \A s : CanApply(s, "RECV_FIN") <=> s \in {"ESTABLISHED", "FIN_WAIT_1", "FIN_WAIT_2"}
  /\ Apply("FIN_WAIT_1", "RECV_FIN") = "CLOSING"
  /\ Apply("FIN_WAIT_2", "RECV_FIN") = "TIME_WAIT"
  /\ Apply(Apply("ESTABLISHED", "RECV_FIN"), "APP_CLOSE") = "LAST_ACK"
  /\ Apply("TIME_WAIT", "TIME_WAIT_EXPIRED") = "CLOSED"
  BY DEF Apply, CanApply, Transition, NoState

-----------------------------------------------------------------------------
(* Packets stay true.                                                       *)

LEMMA PacketKept ==
  ASSUME TypeInv, TypeInv', Forward, NEW p \in Packet, PacketOK(p)
  PROVE  PacketOK(p)'
  <1>1. /\ p.src \in Roles /\ "client" \in Roles /\ "server" \in Roles
        /\ p.ack \in Int /\ p.seq \in Nat /\ p.len \in Nat
    BY DEF Packet, Roles, NoAck
  <1>2. /\ \A r \in Roles : rcvNxt[r] \in Nat /\ rcvNxt'[r] \in Nat
        /\ \A r \in Roles : sndNxt[r] \in Nat /\ sndNxt'[r] \in Nat
    BY DEF TypeInv, TypeOK
  <1>3. DataEnd("client") \in Int /\ DataEnd("client")' \in Int
    BY <1>1, <1>2 DEF DataEnd
  <1>4. p.ack <= rcvNxt'[p.src]
    BY <1>1, <1>2 DEF Forward, PacketOK
  <1>5. p.seq + p.len <= DataEnd("client") => p.seq + p.len <= DataEnd("client")'
    BY <1>1, <1>3 DEF Forward
  <1>6. /\ \A r \in Roles : Opened(r) => Opened(r)'
        /\ \A r \in Roles : Finished(r) => Finished(r)' /\ sndNxt'[r] = sndNxt[r]
        /\ started'
    BY DEF Forward, PacketOK
  <1> HIDE DEF Forward
  <1> QED
    BY <1>1, <1>4, <1>5, <1>6 DEF PacketOK

\* A copy says what its original says.
LEMMA CopyOK ==
  ASSUME NEW P \in SUBSET Packet, \A p \in P : PacketOK(p) /\ NeedsAckTracking(p)
  PROVE  \A p \in Copies(P) : PacketOK(p)
  <1> SUFFICES ASSUME NEW p \in P, NEW i
               PROVE  PacketOK([p EXCEPT !.id = i])
    BY DEF Copies
  <1>1. PacketOK(p) /\ p \in Packet
    OBVIOUS
  <1> DEFINE q == [p EXCEPT !.id = i]
  <1>2. /\ q.seq = p.seq /\ q.ack = p.ack /\ q.kind = p.kind
        /\ q.len = p.len /\ q.src = p.src
    BY <1>1 DEF Packet
  <1> HIDE DEF q
  <1>3. PacketOK(q)
    BY <1>1, <1>2 DEF PacketOK
  <1> QED
    BY <1>3 DEF q

\* What _transmit leaves alone, and the timers it never disarms.
LEMMA TransmitFrame ==
  ASSUME TypeInv, NEW r \in Roles, NEW m \in Manager, NEW out, NEW onWire, NEW armed, NEW t,
         Transmit(r, m, out, onWire, armed, t)
  PROVE  /\ mgr'[r].lastAck = m.lastAck
         /\ \A q \in Roles \ {r} : mgr'[q] = mgr[q]
         /\ armed \subseteq timers'
  <1> DEFINE tracked == {p \in out : NeedsAckTracking(p)}
  <1>1. /\ mgr' = [mgr EXCEPT ![r] = RegisterSent(m, tracked, t)]
        /\ armed \subseteq timers'
    BY DEF Transmit
  <1>2. RegisterSent(m, tracked, t).lastAck = m.lastAck
    BY DEF RegisterSent, Manager
  <1>3. mgr \in [Roles -> Manager]
    BY DEF TypeInv, TypeOK
  <1> HIDE DEF tracked
  <1> QED
    BY <1>1, <1>2, <1>3

\* A step that sends only true packets leaves only true packets.
LEMMA TransmitPackets ==
  ASSUME TypeInv, TypeInv', Packets, Forward,
         NEW r \in Roles, NEW m \in Manager, m.inFlight \subseteq mgr[r].inFlight,
         NEW out \in SUBSET Packet, \A p \in out : PacketOK(p)',
         NEW onWire \in SUBSET wire, NEW armed, NEW t,
         Transmit(r, m, out, onWire, armed, t)
  PROVE  Packets'
  <1> DEFINE tracked == {p \in out : NeedsAckTracking(p)}
             new == {[pkt |-> p, deadline |-> t + ManagerConfig.rto, retries |-> 0] : p \in tracked}
  <1>1. PICK fate \in [out -> Delays \cup {Lost}] :
          /\ mgr' = [mgr EXCEPT ![r] = RegisterSent(m, tracked, t)]
          /\ wire' = onWire \cup {DeliveryEvent(p, t + fate[p]) :
                                    p \in out \ {p \in out : fate[p] = Lost}}
    BY DEF Transmit
  <1>2. RegisterSent(m, tracked, t).inFlight = m.inFlight \cup new
    BY DEF RegisterSent, Manager
  <1>3. mgr \in [Roles -> Manager]
    BY DEF TypeInv, TypeOK
  <1>4. \A e \in new : e.pkt \in out /\ NeedsAckTracking(e.pkt) /\ e.retries = 0
    OBVIOUS
  <1>5. ASSUME NEW q \in Roles, NEW e \in mgr'[q].inFlight
        PROVE  e \in mgr[q].inFlight \/ e \in new
    <2> HIDE DEF new, tracked
    <2> QED
      BY <1>1, <1>2, <1>3, <1>5
  <1>6. \A q \in Roles : \A e \in mgr[q].inFlight : e.pkt \in Packet
    BY <1>3 DEF Manager, Entry
  <1>7. \A w \in wire : w.pkt \in Packet
    BY DeliveryType DEF TypeInv
  <1>8. \A q \in Roles : \A e \in mgr'[q].inFlight :
          PacketOK(e.pkt)' /\ NeedsAckTracking(e.pkt) /\ e.retries = 0
    <2> SUFFICES ASSUME NEW q \in Roles, NEW e \in mgr'[q].inFlight
                 PROVE  PacketOK(e.pkt)' /\ NeedsAckTracking(e.pkt) /\ e.retries = 0
      OBVIOUS
    <2>1. CASE e \in new
      BY <1>4, <2>1
    <2>2. CASE e \in mgr[q].inFlight
      <3>1. PacketOK(e.pkt) /\ NeedsAckTracking(e.pkt) /\ e.retries = 0 /\ e.pkt \in Packet
        BY <1>6, <2>2 DEF Packets
      <3> QED
        BY <3>1, PacketKept
    <2> QED
      BY <1>5, <2>1, <2>2
  <1>9. \A w \in wire' : PacketOK(w.pkt)'
    <2> SUFFICES ASSUME NEW w \in wire' PROVE PacketOK(w.pkt)'
      OBVIOUS
    <2>1. CASE w \in onWire
      <3>1. PacketOK(w.pkt) /\ w.pkt \in Packet
        BY <1>7, <2>1 DEF Packets
      <3> QED
        BY <3>1, PacketKept
    <2>2. CASE w \notin onWire
      <3>1. w.pkt \in out
        BY <1>1, <2>2 DEF DeliveryEvent
      <3> QED
        BY <3>1
    <2> QED
      BY <2>1, <2>2
  <1> QED
    BY <1>8, <1>9 DEF Packets

\* Once TIME_WAIT has its expiry it keeps it, while other timers come and go.
LEMMA TimeWaitKept ==
  ASSUME TimeWaitEnds,
         \A t \in timers : t.kind = "time_wait_expiry" => t \in timers',
         \A r \in Roles : state'[r] = "TIME_WAIT" => state[r] = "TIME_WAIT"
  PROVE  TimeWaitEnds'
  BY DEF TimeWaitEnds

-----------------------------------------------------------------------------
(* What data and ACK bookkeeping add.                                       *)

\* segment_message cuts the message into pieces that do not overlap.
LEMMA SegmentApart ==
  ASSUME NEW length \in Nat, NEW mss \in Nat \ {0}
  PROVE  Apart(Segment(length, mss))
  <1> DEFINE n == (length + mss - 1) \div mss
             segs == Segment(length, mss)
  <1>1. n \in Nat
    BY QuotientIsNat
  <1>2. segs = [i \in 1 .. n |-> [offset |-> (i - 1) * mss,
                                  len |-> Smaller(mss, length - (i - 1) * mss)]]
    BY DEF Segment
  <1>3. Len(segs) = n
    BY <1>1, <1>2
  <1> HIDE DEF n, segs
  <1> SUFFICES ASSUME NEW i \in 1 .. n, NEW j \in 1 .. n, i < j
               PROVE  segs[i].offset + segs[i].len <= segs[j].offset
    BY <1>3 DEF Apart, segs
  <1>4. i * mss <= (j - 1) * mss /\ (i - 1) * mss + mss = i * mss
    BY <1>1, ProductMonotone
  <1>5. (i - 1) * mss \in Int /\ (j - 1) * mss \in Int /\ i * mss \in Int
    BY <1>1
  <1>6. segs[i].offset = (i - 1) * mss /\ segs[j].offset = (j - 1) * mss
        /\ segs[i].len = Smaller(mss, length - (i - 1) * mss)
    BY <1>2
  <1>7. segs[i].len <= mss /\ segs[i].len \in Int
    BY <1>5, <1>6 DEF Smaller
  <1> QED
    BY <1>4, <1>5, <1>6, <1>7

\* What _try_send_more_data sends are data packets of the client, non-empty,
\* within the numbers it takes; outside ESTABLISHED it sends nothing.
LEMMA DataPacketsExtent ==
  ASSUME txCount \in Nat, sndNxt["client"] \in Nat,
         NEW m, NEW c, NEW segs, NEW next, SendTypes(m, c, segs, next), Apart(segs)
  PROVE  /\ \A p \in DataPackets(m, c, segs, next) :
              /\ p.kind = "DATA" /\ p.src = "client" /\ p.ack = NoAck
              /\ p.len > 0 /\ p.seq >= sndNxt["client"]
              /\ p.seq + p.len <= sndNxt["client"] + DataBytes(m, c, segs, next)
              /\ state["client"] = "ESTABLISHED"
         /\ state["client"] # "ESTABLISHED" => DataBytes(m, c, segs, next) = 0
  <1> DEFINE n == SendCount(m, c, segs, next)
  <1>1. n \in 0 .. Len(segs) - next + 1 /\ next \in 1 .. Len(segs) + 1 /\ Len(segs) \in Nat
    BY SendCountProperties DEF SendTypes
  <1>2. state["client"] # "ESTABLISHED" => n = 0
    BY DEF SendCount
  <1> SUFFICES ASSUME NEW k \in 0 .. n - 1
               PROVE  LET p == NewPacket(txCount + k, "DATA",
                                 sndNxt["client"] + segs[next + k].offset - segs[next].offset,
                                 NoAck, segs[next + k].len, "client")
                      IN  /\ p.kind = "DATA" /\ p.src = "client" /\ p.ack = NoAck
                          /\ p.len > 0 /\ p.seq >= sndNxt["client"]
                          /\ p.seq + p.len <= sndNxt["client"] + DataBytes(m, c, segs, next)
    BY <1>1, <1>2 DEF DataPackets, DataBytes
  <1> DEFINE a == segs[next]
             b == segs[next + k]
             z == segs[next + n - 1]
  <1>3. n # 0 /\ next \in 1 .. Len(segs) /\ next + k \in 1 .. Len(segs)
        /\ next + n - 1 \in 1 .. Len(segs)
    BY <1>1
  <1>4. a \in SegmentRecords /\ b \in SegmentRecords /\ z \in SegmentRecords
    BY <1>3, ElementOfSeq DEF SendTypes
  <1>5. a.offset <= b.offset
    BY <1>1, <1>3 DEF SendTypes, Ordered
  <1>6. b.offset + b.len <= z.offset + z.len
    <2>1. CASE k = n - 1
      <3>1. next + k = next + n - 1
        BY <1>1, <2>1
      <3>2. b = z
        BY <3>1
      <3> QED
        BY <1>4, <3>2 DEF SegmentRecords
    <2>2. CASE k < n - 1
      <3>1. b.offset + b.len <= z.offset
        BY <1>1, <1>3, <2>2 DEF Apart
      <3> QED
        BY <1>4, <3>1 DEF SegmentRecords
    <2> QED
      BY <1>1, <2>1, <2>2
  <1>7. DataBytes(m, c, segs, next) = z.offset + z.len - a.offset
    BY <1>3 DEF DataBytes
  <1> HIDE DEF a, b, z
  <1>8. /\ b.len > 0 /\ b.len \in Nat
        /\ sndNxt["client"] + b.offset - a.offset >= sndNxt["client"]
        /\ sndNxt["client"] + b.offset - a.offset + b.len
              <= sndNxt["client"] + DataBytes(m, c, segs, next)
    BY <1>4, <1>5, <1>6, <1>7 DEF SegmentRecords
  <1> QED
    BY <1>8 DEF NewPacket, a, b

\* on_ack takes an acknowledgement for the highest seen if it is higher.
LEMMA OnAckLast ==
  ASSUME NEW m \in Manager, NEW a \in Nat \cup {NoAck}
  PROVE  /\ OnAck(m, a).lastAck \in {a, m.lastAck}
         /\ OnAck(m, a).lastAck >= m.lastAck
  <1>1. a \in Int /\ m.lastAck \in Int /\ (m.lastAck = NoAck => a >= m.lastAck)
    BY DEF Manager, NoAck
  <1>2. CASE IsNewProgress(m, a)
    <2>1. OnAck(m, a).lastAck = a
      BY <1>2 DEF OnAck, IsDuplicateAck
    <2> QED
      BY <1>1, <1>2, <2>1 DEF IsNewProgress
  <1>3. CASE ~IsNewProgress(m, a)
    <2>1. OnAck(m, a).lastAck = m.lastAck
      BY <1>3 DEF OnAck, Manager
    <2> QED
      BY <1>1, <2>1
  <1> QED
    BY <1>2, <1>3

\* The numbers after ACK bookkeeping at r, and what it sends: copies of tracked
\* packets, or data within the numbers it takes.
LEMMA AckStepNumbers ==
  ASSUME ConnInv, NEW r \in Roles, NEW p \in Packet, AckBookkeeping(r, p)
  PROVE  /\ AckedManager(r, p).lastAck \in {p.ack, mgr[r].lastAck}
         /\ AckedManager(r, p).lastAck >= mgr[r].lastAck
         /\ \A q \in Roles : sndUna'[q] >= sndUna[q] /\ sndNxt'[q] >= sndNxt[q]
         /\ sndNxt'["server"] = sndNxt["server"]
         /\ state["client"] # "ESTABLISHED" => sndNxt' = sndNxt
         /\ \A q \in AckedOutput(r, p) :
              \/ /\ q.kind = "DATA" /\ q.src = "client" /\ q.ack = NoAck
                 /\ q.len > 0 /\ q.seq >= sndNxt["client"]
                 /\ q.seq + q.len <= sndNxt'["client"]
                 /\ state["client"] = "ESTABLISHED"
              \/ PacketOK(q)
  <1> DEFINE m == AckedManager(r, p)
             c == AckedCongestion(r, p)
             bytes == DataBytes(m, c, segments, nextSeg)
             target == FastRetransmitTarget(mgr[r], p.ack)
  <1>type. TypeInv /\ mgr[r] \in Manager /\ p.ack \in Nat \cup {NoAck}
           /\ txCount \in Nat /\ "client" \in Roles /\ "server" \in Roles
           /\ sndNxt \in [Roles -> Nat] /\ sndUna \in [Roles -> Nat]
    BY DEF ConnInv, TimerInv, TypeInv, TypeOK, Packet, Roles
  <1>1. OnAck(mgr[r], p.ack) \in Manager
    BY <1>type, OnAckProperties
  <1>2. m.lastAck = OnAck(mgr[r], p.ack).lastAck
    BY <1>1, CancelProperties DEF AckedManager
  <1>3. SendTypes(m, c, segments, nextSeg)
    BY <1>type, AckStepProperties
  <1>4. bytes \in Nat /\ (state["client"] # "ESTABLISHED" => bytes = 0)
        /\ \A q \in DataPackets(m, c, segments, nextSeg) :
              /\ q.kind = "DATA" /\ q.src = "client" /\ q.ack = NoAck
              /\ q.len > 0 /\ q.seq >= sndNxt["client"]
              /\ q.seq + q.len <= sndNxt["client"] + bytes
              /\ state["client"] = "ESTABLISHED"
    BY <1>type, <1>3, DataPacketsProperties, DataPacketsExtent DEF ConnInv
  <1>5. /\ sndUna' = (IF Acked(mgr[r], p.ack) # {}
                       THEN [sndUna EXCEPT ![r] = Larger(@, p.ack)] ELSE sndUna)
        /\ sndNxt' = (IF Resumes(r, p)
                       THEN [sndNxt EXCEPT ![r] = @ + bytes] ELSE sndNxt)
    BY DEF AckBookkeeping
  <1>6. \A q \in Copies(target) : PacketOK(q)
    <2>1. target \in SUBSET Packet /\ target \subseteq {e.pkt : e \in mgr[r].inFlight}
      BY <1>type, FastRetransmitTargetProperties
    <2>2. \A q \in target : PacketOK(q) /\ NeedsAckTracking(q)
      BY <2>1 DEF ConnInv, Packets
    <2> HIDE DEF target
    <2> QED
      BY <2>1, <2>2, CopyOK
  <1> HIDE DEF m, c, bytes, target
  <1>7. \A q \in Roles : sndUna'[q] >= sndUna[q]
    <2>1. Larger(sndUna[r], p.ack) >= sndUna[r]
      BY <1>type DEF Larger, NoAck
    <2>2. CASE Acked(mgr[r], p.ack) = {}
      BY <1>5, <1>type, <2>2
    <2>3. CASE Acked(mgr[r], p.ack) # {}
      <3>1. sndUna' = [sndUna EXCEPT ![r] = Larger(sndUna[r], p.ack)]
        BY <1>5, <2>3
      <3> QED
        BY <1>type, <2>1, <3>1
    <2> QED
      BY <2>2, <2>3
  <1>8. /\ \A q \in Roles : sndNxt'[q] >= sndNxt[q]
        /\ sndNxt'["server"] = sndNxt["server"]
        /\ state["client"] # "ESTABLISHED" => sndNxt' = sndNxt
    BY <1>4, <1>5, <1>type DEF Resumes
  <1>9. ASSUME NEW q \in AckedOutput(r, p)
        PROVE  \/ /\ q.kind = "DATA" /\ q.src = "client" /\ q.ack = NoAck
                  /\ q.len > 0 /\ q.seq >= sndNxt["client"]
                  /\ q.seq + q.len <= sndNxt'["client"]
                  /\ state["client"] = "ESTABLISHED"
               \/ PacketOK(q)
    <2>1. CASE Resumes(r, p)
      <3>1. q \in DataPackets(m, c, segments, nextSeg) /\ r = "client"
        BY <2>1, <1>9 DEF AckedOutput, Resumes, m, c
      <3>2. sndNxt'["client"] = sndNxt["client"] + bytes
        BY <1>5, <1>type, <2>1, <3>1
      <3> QED
        BY <1>4, <3>1, <3>2
    <2>2. CASE ~Resumes(r, p)
      BY <1>6, <1>9, <2>2 DEF AckedOutput, target
    <2> QED
      BY <2>1, <2>2
  <1>10. m.lastAck \in {p.ack, mgr[r].lastAck} /\ m.lastAck >= mgr[r].lastAck
    BY <1>2, <1>type, OnAckLast
  <1> QED
    BY <1>7, <1>8, <1>9, <1>10 DEF m

-----------------------------------------------------------------------------
(* The commands.                                                            *)

\* The types a step starts from and ends in.
LEMMA StepTypes ==
  ASSUME ConnInv, TimerInv'
  PROVE  /\ TypeInv /\ TypeInv' /\ TypeOK
         /\ "client" \in Roles /\ "server" \in Roles
         /\ \A r \in Roles : r = "client" \/ r = "server"
         /\ Peer("client") = "server" /\ Peer("server") = "client"
         /\ state \in [Roles -> States]
         /\ sndNxt \in [Roles -> Nat] /\ sndUna \in [Roles -> Nat] /\ rcvNxt \in [Roles -> Nat]
         /\ \A r \in Roles : sndNxt'[r] \in Nat /\ sndUna'[r] \in Nat /\ rcvNxt'[r] \in Nat
         /\ \A r \in Roles : mgr[r] \in Manager /\ mgr[r].lastAck \in Int
         /\ \A r \in Roles : mgr'[r].lastAck \in Int
         /\ \A r \in Roles : InitialSeq[r] \in Nat /\ InitialSeq[r] > 0
         /\ started \in BOOLEAN /\ txCount \in Nat
         /\ announced \in [established : Nat, closed : Nat]
  <1>1. TypeInv /\ TypeInv'
    BY DEF ConnInv, TimerInv
  <1>2. mgr \in [Roles -> Manager] /\ mgr' \in [Roles -> Manager]
    BY <1>1 DEF TypeInv, TypeOK
  <1>3. \A r \in Roles : /\ mgr[r] \in Manager /\ mgr[r].lastAck \in Int
                         /\ mgr'[r].lastAck \in Int
    BY <1>2 DEF Manager, NoAck
  <1>4. /\ "client" \in Roles /\ "server" \in Roles
        /\ \A r \in Roles : r = "client" \/ r = "server"
        /\ Peer("client") = "server" /\ Peer("server") = "client"
    BY DEF Roles, Peer
  <1>5. \A r \in Roles : InitialSeq[r] \in Nat /\ InitialSeq[r] > 0
    BY SessionAssumption
  <1>6. /\ sndNxt' \in [Roles -> Nat] /\ sndUna' \in [Roles -> Nat] /\ rcvNxt' \in [Roles -> Nat]
    BY <1>1 DEF TypeInv, TypeOK
  <1> QED
    BY <1>1, <1>3, <1>4, <1>5, <1>6 DEF TypeInv, TypeOK

LEMMA StartStep ==
  ASSUME ConnInv, TimerInv', Start
  PROVE  ConnInv' /\ Forward
  <1> DEFINE syn == NewPacket(txCount, "SYN", InitialSeq["client"], NoAck, 0, "client")
             ISN == InitialSeq["client"]
  <1>type. /\ TypeInv /\ TypeInv' /\ "client" \in Roles /\ "server" \in Roles
           /\ (\A r \in Roles : r = "client" \/ r = "server")
           /\ state \in [Roles -> States]
           /\ sndNxt \in [Roles -> Nat] /\ sndUna \in [Roles -> Nat] /\ rcvNxt \in [Roles -> Nat]
           /\ (\A r \in Roles : mgr[r] \in Manager /\ mgr[r].lastAck \in Int)
           /\ ISN \in Nat /\ txCount \in Nat
    BY StepTypes
  <1>1. /\ ~started /\ started'
        /\ sndNxt' = [sndNxt EXCEPT !["client"] = ISN + 1]
        /\ sndUna' = [sndUna EXCEPT !["client"] = ISN]
        /\ Transmit("client", mgr["client"], {syn}, wire, timers, now)
        /\ UNCHANGED <<rcvNxt, announced, segments>>
    BY DEF Start, sending
  <1>2. /\ state["client"] = "CLOSED" /\ state["server"] = "CLOSED"
        /\ state' = [client |-> "SYN_SENT", server |-> "LISTEN"]
    BY <1>1, <1>type, Triggered DEF TypeInv, Start
  <1>3. mgr'["client"].lastAck = mgr["client"].lastAck /\ mgr'["server"] = mgr["server"]
        /\ timers \subseteq timers'
    BY <1>1, <1>type, TransmitFrame
  <1>4. /\ Numbers
        /\ sndNxt["client"] = 0 /\ sndUna["client"] = 0
    BY <1>1 DEF ConnInv, Numbers
  <1>5. Forward
    BY <1>1, <1>2, <1>3, <1>4, <1>type DEF Forward, Opened, Finished, DataEnd
  <1>6. ASSUME NEW p \in {syn} PROVE PacketOK(p)'
    BY <1>1, <1>type DEF PacketOK, NewPacket, NoAck
  <1>7. Packets'
    <2>1. {syn} \in SUBSET Packet
      BY <1>type DEF NewPacket, Packet, Kinds
    <2>2. \A p \in {syn} : PacketOK(p)'
      BY <1>6
    <2>3. Packets /\ mgr["client"].inFlight \subseteq mgr["client"].inFlight
          /\ wire \in SUBSET wire
      BY DEF ConnInv
    <2> HIDE DEF syn
    <2> QED
      BY <1>1, <1>5, <1>type, <2>1, <2>2, <2>3, TransmitPackets
  <1>8. Numbers'
    BY <1>1, <1>2, <1>3, <1>4, <1>type DEF Numbers, Opened
  <1>9. StatePairs' /\ state'["client"] \in ClientStates
    BY <1>2 DEF StatePairs, ClientStates
  <1>10. AnnouncedOnce'
    BY <1>1, <1>2, <1>type DEF ConnInv, AnnouncedOnce, BothClosed
  <1>11. TimeWaitEnds'
    BY <1>2, <1>type DEF TimeWaitEnds
  <1>12. Apart(segments)'
    BY <1>1 DEF ConnInv, Apart
  <1> QED
    BY <1>5, <1>7, <1>8, <1>9, <1>10, <1>11, <1>12 DEF ConnInv

LEMMA SendStep ==
  ASSUME ConnInv, TimerInv', NEW length \in MessageLengths, Send(length)
  PROVE  ConnInv' /\ Forward
  <1> DEFINE segs == Segment(length, tcpConfig.mss)
             m == mgr["client"]
             c == cong["client"]
             out == DataPackets(m, c, segs, 1)
             bytes == DataBytes(m, c, segs, 1)
  <1>type. /\ TypeInv /\ TypeInv' /\ TypeOK /\ "client" \in Roles /\ "server" \in Roles
           /\ (\A r \in Roles : r = "client" \/ r = "server")
           /\ sndNxt \in [Roles -> Nat] /\ sndUna \in [Roles -> Nat] /\ rcvNxt \in [Roles -> Nat]
           /\ (\A r \in Roles : mgr[r] \in Manager /\ mgr[r].lastAck \in Int)
           /\ txCount \in Nat
    BY StepTypes
  <1>1. /\ state["client"] = "ESTABLISHED"
        /\ segments' = segs
        /\ sndNxt' = [sndNxt EXCEPT !["client"] = @ + bytes]
        /\ Transmit("client", m, out, wire, timers, now)
        /\ UNCHANGED <<started, state, sndUna, rcvNxt, announced>>
    BY DEF Send
  <1>2. started
    BY <1>1, <1>type DEF TypeInv
  <1>3. mgr'["client"].lastAck = mgr["client"].lastAck /\ mgr'["server"] = mgr["server"]
        /\ timers \subseteq timers'
    BY <1>1, <1>type, TransmitFrame
  <1>4. segs \in Seq(SegmentRecords) /\ Ordered(segs) /\ Apart(segs)
    <2>1. length \in Nat /\ tcpConfig \in TcpConfigs
      BY SessionAssumption, <1>type DEF TypeOK
    <2>2. tcpConfig.mss \in Nat \ {0}
      BY <2>1 DEF TcpConfigs
    <2> QED
      BY <2>1, <2>2, SegmentProperties, SegmentApart
  <1>5. SendTypes(m, c, segs, 1)
    BY <1>4, <1>type DEF SendTypes, TypeOK
  <1> HIDE DEF segs
  <1>6. /\ out \in SUBSET Packet /\ bytes \in Nat
        /\ \A p \in out : /\ p.kind = "DATA" /\ p.src = "client" /\ p.ack = NoAck
                          /\ p.len > 0 /\ p.seq >= sndNxt["client"]
                          /\ p.seq + p.len <= sndNxt["client"] + bytes
    BY <1>4, <1>5, <1>type, DataPacketsProperties, DataPacketsExtent
  <1> HIDE DEF m, c, out, bytes
  <1>7. Forward
    BY <1>1, <1>3, <1>6, <1>type DEF Forward, Opened, Finished, DataEnd
  <1>8. Numbers
    BY DEF ConnInv
  <1>9. ASSUME NEW p \in out PROVE PacketOK(p)'
    <2>1. sndNxt'["client"] = sndNxt["client"] + bytes
      BY <1>1, <1>type
    <2>2. p \in Packet /\ sndNxt["client"] > InitialSeq["client"]
      BY <1>2, <1>6, <1>8 DEF Numbers
    <2>3. p.seq > InitialSeq["client"]
      <3>1. p.seq \in Nat /\ InitialSeq["client"] \in Nat
        BY <2>2, StepTypes DEF Packet
      <3> QED
        BY <1>6, <1>type, <2>2, <3>1
    <2>4. p.ack <= rcvNxt'["client"]
      BY <1>1, <1>6, <1>type DEF NoAck
    <2> QED
      BY <1>1, <1>2, <1>6, <1>type, <2>1, <2>3, <2>4
         DEF PacketOK, Opened, Finished, DataEnd
  <1>10. Packets'
    <2>1. Packets /\ m \in Manager /\ m.inFlight \subseteq mgr["client"].inFlight
          /\ wire \in SUBSET wire
      BY <1>type DEF ConnInv, m
    <2> QED
      BY <1>1, <1>6, <1>7, <1>9, <1>type, <2>1, TransmitPackets
  <1>11. Numbers'
    BY <1>1, <1>2, <1>3, <1>6, <1>8, <1>type, StepTypes DEF Numbers, Opened
  <1>12. StatePairs' /\ state'["client"] \in ClientStates
    BY <1>1 DEF ConnInv, StatePairs
  <1>13. AnnouncedOnce'
    BY <1>1 DEF ConnInv, AnnouncedOnce, BothClosed
  <1>14. TimeWaitEnds'
    BY <1>1, <1>3, TimeWaitKept DEF ConnInv
  <1>15. Apart(segments)'
    BY <1>1, <1>4 DEF Apart
  <1> QED
    BY <1>7, <1>10, <1>11, <1>12, <1>13, <1>14, <1>15 DEF ConnInv

LEMMA CloseStep ==
  ASSUME ConnInv, TimerInv', Close
  PROVE  ConnInv' /\ Forward
  <1> DEFINE fin == NewPacket(txCount, "FIN", sndNxt["client"], NoAck, 0, "client")
  <1>type. /\ TypeInv /\ TypeInv' /\ TypeOK /\ "client" \in Roles /\ "server" \in Roles
           /\ (\A r \in Roles : r = "client" \/ r = "server")
           /\ state \in [Roles -> States]
           /\ sndNxt \in [Roles -> Nat] /\ sndUna \in [Roles -> Nat] /\ rcvNxt \in [Roles -> Nat]
           /\ (\A r \in Roles : mgr[r] \in Manager /\ mgr[r].lastAck \in Int)
           /\ InitialSeq["client"] \in Nat /\ InitialSeq["server"] \in Nat /\ txCount \in Nat
    BY StepTypes
  <1>1. /\ state["client"] = "ESTABLISHED"
        /\ state' = [state EXCEPT !["client"] = "FIN_WAIT_1"]
        /\ sndNxt' = [sndNxt EXCEPT !["client"] = @ + 1]
        /\ Transmit("client", mgr["client"], {fin}, wire, timers, now)
        /\ UNCHANGED <<started, sndUna, rcvNxt, announced, segments>>
    BY Triggered DEF Close, sending
  <1>2. started
    BY <1>1, <1>type DEF TypeInv
  <1>3. mgr'["client"].lastAck = mgr["client"].lastAck /\ mgr'["server"] = mgr["server"]
        /\ timers \subseteq timers'
    BY <1>1, <1>type, TransmitFrame
  <1>4. state'["client"] = "FIN_WAIT_1" /\ state'["server"] = state["server"]
        /\ sndNxt'["client"] = sndNxt["client"] + 1 /\ sndNxt'["server"] = sndNxt["server"]
    BY <1>1, <1>type
  <1>5. Forward
    BY <1>1, <1>3, <1>4, <1>type DEF Forward, Opened, Finished, DataEnd
  <1>6. ASSUME NEW p \in {fin} PROVE PacketOK(p)'
    BY <1>1, <1>2, <1>4, <1>type DEF PacketOK, NewPacket, NoAck, Finished
  <1>7. Packets'
    <2>1. {fin} \in SUBSET Packet
      BY <1>type DEF NewPacket, Packet, Kinds
    <2>2. \A p \in {fin} : PacketOK(p)'
      BY <1>6
    <2>3. Packets /\ mgr["client"].inFlight \subseteq mgr["client"].inFlight
          /\ wire \in SUBSET wire
      BY DEF ConnInv
    <2> HIDE DEF fin
    <2> QED
      BY <1>1, <1>5, <1>type, <2>1, <2>2, <2>3, TransmitPackets
  <1>8. Numbers'
    BY <1>1, <1>2, <1>3, <1>4, <1>type DEF ConnInv, Numbers, Opened
  <1>9. StatePairs' /\ state'["client"] \in ClientStates
    BY <1>1, <1>4 DEF ConnInv, StatePairs, ClientStates
  <1>10. AnnouncedOnce'
    BY <1>1, <1>4, <1>type DEF ConnInv, AnnouncedOnce, BothClosed
  <1>11. TimeWaitEnds'
    BY <1>1, <1>3, <1>4, <1>type, TimeWaitKept DEF ConnInv
  <1>12. Apart(segments)'
    BY <1>1 DEF ConnInv, Apart
  <1> QED
    BY <1>5, <1>7, <1>8, <1>9, <1>10, <1>11, <1>12 DEF ConnInv

\* A step that leaves the connection alone.
LEMMA QuietStep ==
  ASSUME ConnInv, TimerInv',
         UNCHANGED <<started, state, sndNxt, sndUna, rcvNxt, announced, segments, mgr, wire, timers>>
  PROVE  ConnInv' /\ Forward
  <1>type. /\ \A r \in Roles : /\ sndNxt[r] \in Nat /\ sndUna[r] \in Nat /\ rcvNxt[r] \in Nat
                               /\ mgr[r].lastAck \in Int
           /\ "client" \in Roles
    BY StepTypes
  <1>1. Forward
    BY <1>type DEF Forward, Opened, Finished, DataEnd
  <1>2. Packets'
    BY DEF ConnInv, Packets, PacketOK, Opened, Finished, DataEnd
  <1>3. Numbers' /\ StatePairs' /\ state'["client"] \in ClientStates
    BY DEF ConnInv, Numbers, Opened, StatePairs
  <1>4. AnnouncedOnce' /\ TimeWaitEnds' /\ Apart(segments)'
    BY DEF ConnInv, AnnouncedOnce, BothClosed, TimeWaitEnds, Apart
  <1> QED
    BY <1>1, <1>2, <1>3, <1>4 DEF ConnInv

-----------------------------------------------------------------------------
(* The deliveries.                                                          *)

LEMMA DeliverSynStep ==
  ASSUME ConnInv, TimerInv', DeliverSyn
  PROVE  ConnInv' /\ Forward
  <1>type. /\ TypeInv /\ TypeInv' /\ TypeOK /\ "client" \in Roles /\ "server" \in Roles
           /\ (\A r \in Roles : r = "client" \/ r = "server")
           /\ state \in [Roles -> States]
           /\ sndNxt \in [Roles -> Nat] /\ sndUna \in [Roles -> Nat] /\ rcvNxt \in [Roles -> Nat]
           /\ (\A r \in Roles : mgr[r] \in Manager /\ mgr[r].lastAck \in Int)
           /\ InitialSeq["client"] \in Nat /\ InitialSeq["server"] \in Nat /\ txCount \in Nat
    BY StepTypes
  <1>1. PICK w \in wire :
          LET p == w.pkt
              synAck == NewPacket(txCount, "SYN_ACK", InitialSeq["server"], p.seq + 1, 0, "server")
          IN  /\ p.kind = "SYN"
              /\ IF state["server"] = "LISTEN"
                 THEN /\ state' = [state EXCEPT !["server"] = "SYN_RECEIVED"]
                      /\ rcvNxt' = [rcvNxt EXCEPT !["server"] = p.seq + 1]
                      /\ sndNxt' = [sndNxt EXCEPT !["server"] = InitialSeq["server"] + 1]
                      /\ sndUna' = [sndUna EXCEPT !["server"] = InitialSeq["server"]]
                      /\ Transmit("server", mgr["server"], {synAck}, wire \ {w}, timers, w.due)
                 ELSE /\ UNCHANGED <<state, rcvNxt, sndNxt, sndUna>>
                      /\ Transmit("server", mgr["server"], {}, wire \ {w}, timers, w.due)
    BY Triggered DEF DeliverSyn, Delivering
  <1>2. UNCHANGED <<started, announced, segments>>
    BY DEF DeliverSyn, sending
  <1>3. PacketOK(w.pkt) /\ w.pkt.seq = InitialSeq["client"] /\ started
    BY <1>1 DEF ConnInv, Packets, PacketOK
  <1>4. Numbers /\ StatePairs /\ state["client"] \in ClientStates /\ AnnouncedOnce
        /\ Packets /\ wire \ {w} \in SUBSET wire
        /\ mgr["server"].inFlight \subseteq mgr["server"].inFlight
    BY DEF ConnInv
  <1>5. CASE state["server"] = "LISTEN"
    <2> DEFINE synAck == NewPacket(txCount, "SYN_ACK", InitialSeq["server"],
                                   InitialSeq["client"] + 1, 0, "server")
    <2>1. Transmit("server", mgr["server"], {synAck}, wire \ {w}, timers, w.due)
      BY <1>1, <1>3, <1>5
    <2>2. /\ state'["client"] = state["client"] /\ state'["server"] = "SYN_RECEIVED"
          /\ sndNxt'["client"] = sndNxt["client"] /\ sndNxt'["server"] = InitialSeq["server"] + 1
          /\ sndUna'["client"] = sndUna["client"] /\ sndUna'["server"] = InitialSeq["server"]
          /\ rcvNxt'["client"] = rcvNxt["client"] /\ rcvNxt'["server"] = InitialSeq["client"] + 1
      BY <1>1, <1>3, <1>5, <1>type
    <2>3. state["client"] = "SYN_SENT"
      BY <1>3, <1>4, <1>5 DEF StatePairs, ClientStates
    <2>4. /\ mgr'["server"].lastAck = mgr["server"].lastAck /\ mgr'["client"] = mgr["client"]
          /\ timers \subseteq timers'
      BY <2>1, <1>type, TransmitFrame
    <2>5. /\ rcvNxt["server"] = 0 /\ sndNxt["server"] = 0 /\ sndUna["server"] = 0
          /\ rcvNxt["client"] = 0
      BY <1>4, <1>5, <2>3 DEF Numbers, Opened
    <2>6. Forward
      BY <1>2, <1>3, <1>5, <1>type, <2>2, <2>3, <2>4, <2>5 DEF Forward, Opened, Finished, DataEnd
    <2>7. ASSUME NEW p \in {synAck} PROVE PacketOK(p)'
      BY <1>2, <1>3, <1>type, <2>2, <2>7 DEF PacketOK, NewPacket, Opened
    <2>8. {synAck} \in SUBSET Packet
      BY <1>type DEF NewPacket, Packet, Kinds
    <2>9. Packets'
      <3>1. \A p \in {synAck} : PacketOK(p)'
        BY <2>7
      <3> HIDE DEF synAck
      <3> QED
        BY <1>4, <1>type, <2>1, <2>6, <2>8, <3>1, TransmitPackets
    <2>10. Numbers'
      BY <1>2, <1>3, <1>4, <1>type, <2>2, <2>3, <2>4, <2>5 DEF Numbers, Opened
    <2>11. StatePairs' /\ state'["client"] \in ClientStates
      BY <2>2, <2>3 DEF StatePairs, ClientStates
    <2>12. AnnouncedOnce'
      BY <1>2, <1>3, <1>4, <1>5, <1>type, <2>2, <2>3 DEF AnnouncedOnce, BothClosed
    <2>13. TimeWaitEnds' /\ Apart(segments)'
      BY <1>2, <1>type, <2>2, <2>3, <2>4, TimeWaitKept DEF ConnInv, Apart
    <2> QED
      BY <2>6, <2>9, <2>10, <2>11, <2>12, <2>13 DEF ConnInv
  <1>6. CASE state["server"] # "LISTEN"
    <2>1. /\ UNCHANGED <<state, rcvNxt, sndNxt, sndUna>>
          /\ Transmit("server", mgr["server"], {}, wire \ {w}, timers, w.due)
      BY <1>1, <1>6
    <2>2. /\ mgr'["server"].lastAck = mgr["server"].lastAck /\ mgr'["client"] = mgr["client"]
          /\ timers \subseteq timers'
      BY <2>1, <1>type, TransmitFrame
    <2>3. Forward
      BY <1>2, <1>type, <2>1, <2>2 DEF Forward, Opened, Finished, DataEnd
    <2>4. Packets'
      <3> DEFINE none == {}
      <3>1. none \in SUBSET Packet /\ \A p \in none : PacketOK(p)'
        OBVIOUS
      <3>2. Transmit("server", mgr["server"], none, wire \ {w}, timers, w.due)
        BY <2>1
      <3> HIDE DEF none
      <3> QED
        BY <1>4, <1>type, <2>3, <3>1, <3>2, TransmitPackets
    <2>5. Numbers' /\ StatePairs' /\ state'["client"] \in ClientStates /\ AnnouncedOnce'
      BY <1>2, <1>4, <2>1, <2>2 DEF Numbers, Opened, StatePairs, AnnouncedOnce, BothClosed
    <2>6. TimeWaitEnds' /\ Apart(segments)'
      BY <1>2, <2>1, <2>2, TimeWaitKept DEF ConnInv, Apart
    <2> QED
      BY <2>3, <2>4, <2>5, <2>6 DEF ConnInv
  <1> QED
    BY <1>5, <1>6

LEMMA DeliverSynAckStep ==
  ASSUME ConnInv, TimerInv', DeliverSynAck
  PROVE  ConnInv' /\ Forward
  <1>type. /\ TypeInv /\ TypeInv' /\ TypeOK /\ "client" \in Roles /\ "server" \in Roles
           /\ (\A r \in Roles : r = "client" \/ r = "server")
           /\ state \in [Roles -> States]
           /\ sndNxt \in [Roles -> Nat] /\ sndUna \in [Roles -> Nat] /\ rcvNxt \in [Roles -> Nat]
           /\ (\A r \in Roles : sndNxt'[r] \in Nat /\ sndUna'[r] \in Nat /\ rcvNxt'[r] \in Nat)
           /\ (\A r \in Roles : mgr[r] \in Manager /\ mgr[r].lastAck \in Int)
           /\ InitialSeq["client"] \in Nat /\ InitialSeq["server"] \in Nat /\ txCount \in Nat
    BY StepTypes
  <1>1. PICK w \in wire :
          LET p == w.pkt
              opening == state["client"] = "SYN_SENT"
              next == IF opening THEN p.seq + 1 ELSE rcvNxt["client"]
              reply == NewPacket(txCount + Cardinality(AckedOutput("client", p)), "ACK",
                                 sndNxt'["client"], next, 0, "client")
          IN  /\ p.kind = "SYN_ACK"
              /\ AckBookkeeping("client", p)
              /\ state' = IF opening THEN [state EXCEPT !["client"] = "ESTABLISHED"] ELSE state
              /\ rcvNxt' = [rcvNxt EXCEPT !["client"] = next]
              /\ Transmit("client", AckedManager("client", p),
                          AckedOutput("client", p) \cup
                            (IF opening \/ state["client"] = "ESTABLISHED" THEN {reply} ELSE {}),
                          wire \ {w}, timers, w.due)
    BY Triggered DEF DeliverSynAck, Delivering
  <1> DEFINE p == w.pkt
             m == AckedManager("client", p)
  <1>2. UNCHANGED <<started, announced, segments>>
    BY DEF DeliverSynAck
  <1>3. p \in Packet /\ PacketOK(p) /\ p.kind = "SYN_ACK"
    BY <1>1, <1>type, DeliveryType DEF ConnInv, Packets
  <1>4. /\ p.seq = InitialSeq["server"] /\ p.ack = InitialSeq["client"] + 1
        /\ p.src = "server" /\ p.ack <= rcvNxt["server"] /\ Opened("server") /\ started
    BY <1>3 DEF PacketOK
  <1>5. Numbers /\ StatePairs /\ state["client"] \in ClientStates /\ AnnouncedOnce
        /\ Packets /\ wire \ {w} \in SUBSET wire
    BY DEF ConnInv
  <1>6. /\ m.lastAck \in {p.ack, mgr["client"].lastAck} /\ m.lastAck >= mgr["client"].lastAck
        /\ \A q \in Roles : sndUna'[q] >= sndUna[q] /\ sndNxt'[q] >= sndNxt[q]
        /\ sndNxt'["server"] = sndNxt["server"]
        /\ state["client"] # "ESTABLISHED" => sndNxt' = sndNxt
        /\ \A q \in AckedOutput("client", p) :
              \/ /\ q.kind = "DATA" /\ q.src = "client" /\ q.ack = NoAck
                 /\ q.len > 0 /\ q.seq >= sndNxt["client"]
                 /\ q.seq + q.len <= sndNxt'["client"]
                 /\ state["client"] = "ESTABLISHED"
              \/ PacketOK(q)
    BY <1>1, <1>3, <1>type, AckStepNumbers
  <1>7. m \in Manager /\ m.inFlight \subseteq mgr["client"].inFlight
        /\ AckedOutput("client", p) \in SUBSET Packet
        /\ Cardinality(AckedOutput("client", p)) \in Nat
    <2>1. \A e \in mgr["client"].inFlight : e.pkt.src = "client"
      BY <1>type DEF ConnInv, TimerInv, Watched
    <2> QED
      BY <1>3, <1>type, <2>1, AckStepProperties, AckStepSource, FS_CardinalityType DEF SendTypes
  <1>8. PICK more \in {{}, {NewPacket(txCount + Cardinality(AckedOutput("client", p)), "ACK",
                                      sndNxt'["client"], rcvNxt'["client"], 0, "client")}} :
          /\ Transmit("client", m, AckedOutput("client", p) \cup more, wire \ {w}, timers, w.due)
          /\ more # {} => state["client"] \in {"SYN_SENT", "ESTABLISHED"}
    <2>1. rcvNxt'["client"] = (IF state["client"] = "SYN_SENT" THEN p.seq + 1 ELSE rcvNxt["client"])
      BY <1>1, <1>type
    <2> QED
      BY <1>1, <2>1
  <1> DEFINE sent == AckedOutput("client", p)
  <1>9. more \in SUBSET Packet
    BY <1>7, <1>type DEF NewPacket, Packet, Kinds, Roles
  <1>10. state'["server"] = state["server"] /\ rcvNxt'["server"] = rcvNxt["server"]
         /\ state'["client"] = (IF state["client"] = "SYN_SENT" THEN "ESTABLISHED" ELSE state["client"])
         /\ rcvNxt'["client"] = (IF state["client"] = "SYN_SENT"
                                 THEN InitialSeq["server"] + 1 ELSE rcvNxt["client"])
    BY <1>1, <1>4, <1>type
  <1> HIDE DEF p, m, sent
  <1>11. /\ mgr'["client"].lastAck = m.lastAck /\ mgr'["server"] = mgr["server"]
         /\ timers \subseteq timers'
    BY <1>7, <1>8, <1>type, TransmitFrame
  <1>12. state["client"] = "SYN_SENT" => rcvNxt["client"] = 0
    BY <1>5 DEF Numbers, Opened
  <1>13. Forward
    BY <1>2, <1>4, <1>6, <1>10, <1>11, <1>12, <1>type DEF Forward, Opened, Finished, DataEnd
  <1>14. Numbers'
    BY <1>2, <1>4, <1>5, <1>6, <1>10, <1>11, <1>type DEF Numbers, Opened
  <1>15. ASSUME NEW q \in sent \cup more PROVE PacketOK(q)'
    <2>1. CASE q \in more
      BY <1>2, <1>4, <1>8, <1>10, <1>type, <2>1 DEF PacketOK, NewPacket, Opened, NoAck
    <2>2. CASE q \in sent /\ PacketOK(q)
      BY <1>7, <1>13, <1>type, <2>2, PacketKept DEF sent
    <2>3. CASE q \in sent /\ ~PacketOK(q)
      <3>1. /\ q.kind = "DATA" /\ q.src = "client" /\ q.ack = NoAck
            /\ q.len > 0 /\ q.seq >= sndNxt["client"]
            /\ q.seq + q.len <= sndNxt'["client"]
            /\ state["client"] = "ESTABLISHED" /\ q \in Packet
        BY <1>6, <1>7, <2>3 DEF sent
      <3>2. q.seq > InitialSeq["client"] /\ q.ack <= rcvNxt'["client"]
        BY <1>4, <1>5, <1>type, <3>1 DEF Numbers, Packet, NoAck
      <3> QED
        BY <1>2, <1>4, <1>10, <3>1, <3>2 DEF PacketOK, Opened, Finished, DataEnd
    <2> QED
      BY <1>15, <2>1, <2>2, <2>3
  <1>16. Packets'
    <2>1. sent \cup more \in SUBSET Packet /\ \A q \in sent \cup more : PacketOK(q)'
      BY <1>7, <1>9, <1>15 DEF sent
    <2>2. Transmit("client", m, sent \cup more, wire \ {w}, timers, w.due)
      BY <1>8 DEF sent
    <2> QED
      BY <1>5, <1>7, <1>13, <1>type, <2>1, <2>2, TransmitPackets
  <1>17. StatePairs' /\ state'["client"] \in ClientStates
    BY <1>2, <1>4, <1>5, <1>10 DEF StatePairs, ClientStates, Opened
  <1>18. AnnouncedOnce'
    BY <1>2, <1>5, <1>10, <1>type DEF AnnouncedOnce, BothClosed
  <1>19. TimeWaitEnds' /\ Apart(segments)'
    BY <1>2, <1>10, <1>11, <1>type, TimeWaitKept DEF ConnInv, Apart
  <1> QED
    BY <1>13, <1>14, <1>16, <1>17, <1>18, <1>19 DEF ConnInv

LEMMA DeliverAckStep ==
  ASSUME ConnInv, TimerInv', DeliverAck
  PROVE  ConnInv' /\ Forward
  <1>type. /\ TypeInv /\ TypeInv' /\ TypeOK /\ "client" \in Roles /\ "server" \in Roles
           /\ (\A r \in Roles : r = "client" \/ r = "server")
           /\ Peer("client") = "server" /\ Peer("server") = "client"
           /\ state \in [Roles -> States]
           /\ sndNxt \in [Roles -> Nat] /\ sndUna \in [Roles -> Nat] /\ rcvNxt \in [Roles -> Nat]
           /\ (\A r \in Roles : sndNxt'[r] \in Nat /\ sndUna'[r] \in Nat /\ rcvNxt'[r] \in Nat)
           /\ (\A r \in Roles : mgr[r] \in Manager /\ mgr[r].lastAck \in Int)
           /\ announced \in [established : Nat, closed : Nat]
    BY StepTypes
  <1>1. PICK w \in wire, r \in Roles :
          LET p == w.pkt
          IN  /\ r = Peer(p.src) /\ p.kind = "ACK"
              /\ AckBookkeeping(r, p)
              /\ state' = IF state[r] \in {"SYN_RECEIVED", "FIN_WAIT_1", "CLOSING", "LAST_ACK"}
                          THEN [state EXCEPT ![r] = Apply(@, "RECV_ACK")] ELSE state
              /\ announced' =
                   [established |-> announced.established
                                      + (IF state[r] = "SYN_RECEIVED" THEN 1 ELSE 0),
                    closed |-> announced.closed
                                 + (IF state[r] = "LAST_ACK" /\ BothClosed(state') THEN 1 ELSE 0)]
              /\ Transmit(r, AckedManager(r, p), AckedOutput(r, p), wire \ {w},
                          timers \cup (IF state[r] = "CLOSING"
                                       THEN {TimeWaitEvent(r, w.due + tcpConfig.timeWait)} ELSE {}),
                          w.due)
    BY <1>type, DeliveryType, Triggered DEF DeliverAck, Delivering
  <1> DEFINE p == w.pkt
             m == AckedManager(r, p)
             sent == AckedOutput(r, p)
             armed == timers \cup (IF state[r] = "CLOSING"
                                  THEN {TimeWaitEvent(r, w.due + tcpConfig.timeWait)} ELSE {})
  <1>2. UNCHANGED <<started, rcvNxt, segments>>
    BY DEF DeliverAck
  <1>3. p \in Packet /\ PacketOK(p) /\ p.kind = "ACK" /\ p.src \in Roles /\ p.src = Peer(r)
    <2>1. p \in Packet /\ PacketOK(p) /\ p.kind = "ACK"
      BY <1>1, <1>type, DeliveryType DEF ConnInv, Packets
    <2>2. p.src \in Roles
      BY <2>1 DEF Packet
    <2> QED
      BY <1>1, <1>type, <2>1, <2>2
  <1>4. p.ack <= rcvNxt[Peer(r)] /\ Opened(Peer(r)) /\ started /\ p.ack \in Int
    BY <1>3 DEF PacketOK, Packet, NoAck
  <1>5. Numbers /\ StatePairs /\ state["client"] \in ClientStates /\ AnnouncedOnce
        /\ Packets /\ wire \ {w} \in SUBSET wire
    BY DEF ConnInv
  <1>6. /\ m.lastAck \in {p.ack, mgr[r].lastAck} /\ m.lastAck >= mgr[r].lastAck
        /\ \A q \in Roles : sndUna'[q] >= sndUna[q] /\ sndNxt'[q] >= sndNxt[q]
        /\ sndNxt'["server"] = sndNxt["server"]
        /\ state["client"] # "ESTABLISHED" => sndNxt' = sndNxt
        /\ \A q \in sent :
              \/ /\ q.kind = "DATA" /\ q.src = "client" /\ q.ack = NoAck
                 /\ q.len > 0 /\ q.seq >= sndNxt["client"]
                 /\ q.seq + q.len <= sndNxt'["client"]
                 /\ state["client"] = "ESTABLISHED"
              \/ PacketOK(q)
    BY <1>1, <1>3, AckStepNumbers
  <1>7. m \in Manager /\ m.inFlight \subseteq mgr[r].inFlight /\ sent \in SUBSET Packet
    <2>1. \A e \in mgr[r].inFlight : e.pkt.src = r
      BY <1>type DEF ConnInv, TimerInv, Watched
    <2> QED
      BY <1>3, <1>type, <2>1, AckStepProperties, AckStepSource DEF SendTypes
  <1>8. Transmit(r, m, sent, wire \ {w}, armed, w.due)
    BY <1>1
  <1>9. \A q \in Roles \ {r} : state'[q] = state[q]
    BY <1>1, <1>type
  <1>10. /\ state[r] = "SYN_RECEIVED" => state'[r] = "ESTABLISHED"
         /\ state[r] = "FIN_WAIT_1" => state'[r] = "FIN_WAIT_2"
         /\ state[r] = "CLOSING" => state'[r] = "TIME_WAIT"
         /\ state[r] = "LAST_ACK" => state'[r] = "CLOSED"
         /\ state[r] \notin {"SYN_RECEIVED", "FIN_WAIT_1", "CLOSING", "LAST_ACK"}
              => state' = state
    BY <1>1, <1>type, Triggered
  <1>11. /\ r = "client" => state'["server"] = state["server"] /\ Opened("server")
         /\ r = "server" => state'["client"] = state["client"] /\ Opened("client")
    BY <1>4, <1>9, <1>type
  <1>12. /\ state[r] = "CLOSING" => TimeWaitEvent(r, w.due + tcpConfig.timeWait) \in armed
         /\ timers \subseteq armed
    OBVIOUS
  <1>announced.
    /\ announced'.established = announced.established + (IF state[r] = "SYN_RECEIVED" THEN 1 ELSE 0)
    /\ announced'.closed = announced.closed
                             + (IF state[r] = "LAST_ACK" /\ BothClosed(state') THEN 1 ELSE 0)
    BY <1>1
  <1> HIDE DEF p, m, sent, armed
  <1>13. /\ mgr'[r].lastAck = m.lastAck /\ \A q \in Roles \ {r} : mgr'[q] = mgr[q]
         /\ armed \subseteq timers'
    BY <1>7, <1>8, <1>type, TransmitFrame
  <1>14. Forward
    <2>1. started => started'
      BY <1>2
    <2>2. \A q \in Roles : /\ rcvNxt'[q] >= rcvNxt[q] /\ sndNxt'[q] >= sndNxt[q]
                           /\ sndUna'[q] >= sndUna[q] /\ mgr'[q].lastAck >= mgr[q].lastAck
      BY <1>2, <1>6, <1>13, <1>type
    <2>3. \A q \in Roles : Opened(q) => Opened(q)'
      BY <1>2, <1>9, <1>10, <1>type DEF Opened
    <2>5. Finished("client")' = Finished("client")
      BY <1>2, <1>5, <1>9, <1>10, <1>type DEF Finished, ClientStates
    <2>7. Finished("server") => Finished("server")'
      BY <1>2, <1>5, <1>9, <1>10, <1>type DEF Finished, StatePairs
    <2>8. Finished("client") => sndNxt'["client"] = sndNxt["client"]
      BY <1>6 DEF Finished
    <2>4. \A q \in Roles : Finished(q) => Finished(q)' /\ sndNxt'[q] = sndNxt[q]
      BY <1>6, <1>type, <2>5, <2>7, <2>8
    <2>6. DataEnd("client")' >= DataEnd("client")
      BY <1>6, <1>type, <2>5 DEF DataEnd
    <2> QED
      BY <2>1, <2>2, <2>3, <2>4, <2>6 DEF Forward
  <1>15. Numbers'
    <2>1. /\ sndNxt'["client"] >= sndNxt["client"] /\ sndNxt'["server"] = sndNxt["server"]
          /\ rcvNxt' = rcvNxt /\ started'
      BY <1>2, <1>4, <1>6, <1>type
    <2>2. /\ mgr'["client"].lastAck <= rcvNxt["server"]
          /\ mgr'["server"].lastAck <= rcvNxt["client"]
      <3>1. CASE r = "client"
        BY <1>4, <1>5, <1>6, <1>13, <1>type, <3>1 DEF Numbers
      <3>2. CASE r = "server"
        BY <1>4, <1>5, <1>6, <1>13, <1>type, <3>2 DEF Numbers
      <3> QED
        BY <1>type, <3>1, <3>2
    <2>3. Opened("client")' = Opened("client") /\ Opened("server")' = Opened("server")
      BY <1>2, <1>9, <1>10, <1>type DEF Opened
    <2>4. Opened("server")
      BY <1>4, <1>5, <1>11, <1>type DEF StatePairs, ClientStates, Opened
    <2>5. /\ InitialSeq["client"] \in Nat /\ InitialSeq["server"] \in Nat
          /\ \A q \in Roles : sndNxt[q] \in Nat /\ sndNxt'[q] \in Nat /\ rcvNxt[q] \in Nat
      BY <1>type, StepTypes
    <2> QED
      BY <1>4, <1>5, <1>type, <2>1, <2>2, <2>3, <2>4, <2>5 DEF Numbers
  <1>16. ASSUME NEW q \in sent PROVE PacketOK(q)'
    <2>1. CASE PacketOK(q)
      BY <1>7, <1>14, <1>type, <2>1, PacketKept
    <2>2. CASE ~PacketOK(q)
      <3>1. /\ q.kind = "DATA" /\ q.src = "client" /\ q.ack = NoAck
            /\ q.len > 0 /\ q.seq >= sndNxt["client"]
            /\ q.seq + q.len <= sndNxt'["client"]
            /\ state["client"] = "ESTABLISHED" /\ q \in Packet
        BY <1>6, <1>7, <1>16, <2>2
      <3>2. q.seq > InitialSeq["client"] /\ q.ack <= rcvNxt'["client"]
        BY <1>4, <1>5, <1>type, <3>1, StepTypes DEF Numbers, Packet, NoAck
      <3>3. state'["client"] = "ESTABLISHED"
        BY <1>9, <1>10, <1>type, <3>1
      <3> QED
        BY <1>2, <1>4, <3>1, <3>2, <3>3 DEF PacketOK, Opened, Finished, DataEnd
    <2> QED
      BY <2>1, <2>2
  <1>17. Packets'
    <2>1. \A q \in sent : PacketOK(q)'
      BY <1>16
    <2> QED
      BY <1>5, <1>7, <1>8, <1>14, <1>type, <2>1, TransmitPackets
  <1>18. StatePairs' /\ state'["client"] \in ClientStates
    <2>1. CASE r = "client"
      BY <1>2, <1>4, <1>5, <1>10, <1>11, <2>1 DEF StatePairs, ClientStates
    <2>2. CASE r = "server"
      BY <1>2, <1>4, <1>5, <1>10, <1>11, <2>2 DEF StatePairs, ClientStates, Opened
    <2> QED
      BY <1>type, <2>1, <2>2
  <1>19. AnnouncedOnce'
    <2>1. BothClosed(state) <=> state["client"] = "CLOSED" /\ state["server"] = "CLOSED"
      BY <1>type DEF BothClosed
    <2>2. BothClosed(state') <=> state'["client"] = "CLOSED" /\ state'["server"] = "CLOSED"
      BY <1>type DEF BothClosed
    <2>3. CASE r = "client"
      BY <1>2, <1>4, <1>5, <1>10, <1>11, <1>announced, <1>type, <2>1, <2>2, <2>3
         DEF AnnouncedOnce, ClientStates
    <2>4. CASE r = "server"
      BY <1>2, <1>4, <1>5, <1>10, <1>11, <1>announced, <1>type, <2>1, <2>2, <2>4
         DEF AnnouncedOnce, StatePairs
    <2> QED
      BY <1>type, <2>3, <2>4
  <1>20. TimeWaitEnds'
    <2> SUFFICES ASSUME NEW q \in Roles, state'[q] = "TIME_WAIT"
                 PROVE  \E t \in timers' : t.kind = "time_wait_expiry" /\ t.role = q
      BY DEF TimeWaitEnds
    <2>1. CASE state[q] = "TIME_WAIT"
      BY <1>12, <1>13, <2>1 DEF ConnInv, TimeWaitEnds
    <2>2. CASE state[q] # "TIME_WAIT"
      <3>1. q = r /\ state[r] = "CLOSING"
        BY <1>9, <1>10, <2>2
      <3>2. TimeWaitEvent(r, w.due + tcpConfig.timeWait) \in timers'
        BY <1>12, <1>13, <3>1
      <3> QED
        BY <3>1, <3>2 DEF TimeWaitEvent
    <2> QED
      BY <2>1, <2>2
  <1>21. Apart(segments)'
    BY <1>2 DEF ConnInv, Apart
  <1> QED
    BY <1>14, <1>15, <1>17, <1>18, <1>19, <1>20, <1>21 DEF ConnInv

LEMMA DeliverFinStep ==
  ASSUME ConnInv, TimerInv', DeliverFin
  PROVE  ConnInv' /\ Forward
  <1>type. /\ TypeInv /\ TypeInv' /\ TypeOK /\ "client" \in Roles /\ "server" \in Roles
           /\ (\A r \in Roles : r = "client" \/ r = "server")
           /\ Peer("client") = "server" /\ Peer("server") = "client"
           /\ state \in [Roles -> States]
           /\ sndNxt \in [Roles -> Nat] /\ sndUna \in [Roles -> Nat] /\ rcvNxt \in [Roles -> Nat]
           /\ (\A r \in Roles : mgr[r] \in Manager /\ mgr[r].lastAck \in Int)
           /\ (\A r \in Roles : InitialSeq[r] \in Nat) /\ txCount \in Nat
    BY StepTypes
  <1>1. PICK w \in wire, r \in Roles :
          LET p == w.pkt
              passive == state[r] = "ESTABLISHED"
              fin == NewPacket(txCount + 1, "FIN", sndNxt[r], NoAck, 0, r)
          IN  /\ r = Peer(p.src) /\ p.kind = "FIN"
              /\ rcvNxt' = [rcvNxt EXCEPT ![r] = p.seq + 1]
              /\ state' = [state EXCEPT ![r] =
                             IF passive THEN "LAST_ACK"
                             ELSE IF @ \in {"FIN_WAIT_1", "FIN_WAIT_2"} THEN Apply(@, "RECV_FIN")
                                  ELSE @]
              /\ sndNxt' = IF passive THEN [sndNxt EXCEPT ![r] = @ + 1] ELSE sndNxt
              /\ Transmit(r, mgr[r],
                          {PureAck(r, p.seq + 1)} \cup (IF passive THEN {fin} ELSE {}),
                          wire \ {w},
                          timers \cup (IF state[r] = "FIN_WAIT_2"
                                       THEN {TimeWaitEvent(r, w.due + tcpConfig.timeWait)} ELSE {}),
                          w.due)
    <2>1. PICK w \in wire :
            LET p == w.pkt
                r == Peer(p.src)
                passive == state[r] = "ESTABLISHED"
                moved == Apply(state[r], "RECV_FIN")
                fin == NewPacket(txCount + 1, "FIN", sndNxt[r], NoAck, 0, r)
            IN  /\ p.kind = "FIN"
                /\ rcvNxt' = [rcvNxt EXCEPT ![r] = p.seq + 1]
                /\ state' = [state EXCEPT ![r] =
                               IF passive THEN Apply(moved, "APP_CLOSE")
                               ELSE IF CanApply(@, "RECV_FIN") THEN moved ELSE @]
                /\ sndNxt' = IF passive THEN [sndNxt EXCEPT ![r] = @ + 1] ELSE sndNxt
                /\ Transmit(r, mgr[r],
                            {PureAck(r, p.seq + 1)} \cup (IF passive THEN {fin} ELSE {}),
                            wire \ {w},
                            timers \cup (IF state[r] = "FIN_WAIT_2"
                                         THEN {TimeWaitEvent(r, w.due + tcpConfig.timeWait)} ELSE {}),
                            w.due)
      BY DEF DeliverFin, Delivering
    <2> DEFINE r == Peer(w.pkt.src)
    <2>2. r \in Roles
      BY <1>type, DeliveryType
    <2>3. state' = [state EXCEPT ![r] =
                     IF state[r] = "ESTABLISHED" THEN "LAST_ACK"
                     ELSE IF @ \in {"FIN_WAIT_1", "FIN_WAIT_2"} THEN Apply(@, "RECV_FIN")
                          ELSE @]
      <3>1. state' = [state EXCEPT ![r] =
                       IF state[r] = "ESTABLISHED"
                       THEN Apply(Apply(state[r], "RECV_FIN"), "APP_CLOSE")
                       ELSE IF CanApply(state[r], "RECV_FIN") THEN Apply(state[r], "RECV_FIN")
                            ELSE state[r]]
        BY <2>1
      <3>2. CASE state[r] = "ESTABLISHED"
        BY <3>1, <3>2, Triggered
      <3>3. CASE state[r] # "ESTABLISHED"
        <4>1. CanApply(state[r], "RECV_FIN") <=> state[r] \in {"FIN_WAIT_1", "FIN_WAIT_2"}
          BY <3>3, Triggered
        <4> QED
          BY <3>1, <3>3, <4>1
      <3> QED
        BY <3>2, <3>3
    <2> QED
      BY <2>1, <2>2, <2>3
  <1> DEFINE p == w.pkt
             ack == PureAck(r, p.seq + 1)
             fin == NewPacket(txCount + 1, "FIN", sndNxt[r], NoAck, 0, r)
             more == IF state[r] = "ESTABLISHED" THEN {fin} ELSE {}
             armed == timers \cup (IF state[r] = "FIN_WAIT_2"
                                  THEN {TimeWaitEvent(r, w.due + tcpConfig.timeWait)} ELSE {})
  <1>2. UNCHANGED <<started, sndUna, announced, segments>>
    BY DEF DeliverFin, sending
  <1>3. p \in Packet /\ PacketOK(p) /\ p.src \in Roles /\ p.src = Peer(r) /\ p.kind = "FIN"
    <2>1. p \in Packet /\ PacketOK(p) /\ p.kind = "FIN"
      BY <1>1, <1>type, DeliveryType DEF ConnInv, Packets
    <2>2. p.src \in Roles
      BY <2>1 DEF Packet
    <2> QED
      BY <1>1, <1>type, <2>1, <2>2
  <1>4. Finished(Peer(r)) /\ p.seq + 1 = sndNxt[Peer(r)] /\ started /\ p.seq \in Nat
    BY <1>3 DEF PacketOK, Packet
  <1>5. Numbers /\ StatePairs /\ state["client"] \in ClientStates /\ AnnouncedOnce
        /\ Packets /\ wire \ {w} \in SUBSET wire
        /\ mgr[r].inFlight \subseteq mgr[r].inFlight
    BY DEF ConnInv
  <1>6. Transmit(r, mgr[r], {ack} \cup more, wire \ {w}, armed, w.due)
    BY <1>1
  <1>7. {ack} \cup more \in SUBSET Packet
    <2>1. ack \in Packet
      BY <1>4, <1>type DEF PureAck, NewPacket, Packet, Kinds
    <2>2. fin \in Packet
      BY <1>type DEF NewPacket, Packet, Kinds
    <2> QED
      BY <2>1, <2>2
  <1>8. /\ \A q \in Roles \ {r} : state'[q] = state[q] /\ rcvNxt'[q] = rcvNxt[q]
                                  /\ sndNxt'[q] = sndNxt[q]
        /\ rcvNxt'[r] = sndNxt[Peer(r)]
        /\ sndNxt'[r] = (IF state[r] = "ESTABLISHED" THEN sndNxt[r] + 1 ELSE sndNxt[r])
    BY <1>1, <1>4, <1>type
  <1>9. /\ state[r] = "ESTABLISHED" => state'[r] = "LAST_ACK"
        /\ state[r] = "FIN_WAIT_1" => state'[r] = "CLOSING"
        /\ state[r] = "FIN_WAIT_2" => state'[r] = "TIME_WAIT"
        /\ state[r] \notin {"ESTABLISHED", "FIN_WAIT_1", "FIN_WAIT_2"} => state'[r] = state[r]
    BY <1>1, <1>type, Triggered
  \* Only the server is ever in ESTABLISHED when a FIN reaches it.
  <1>10. /\ r = "client" => /\ state["server"] \in {"LAST_ACK", "CLOSED"}
                            /\ state["client"] \notin {"SYN_SENT", "ESTABLISHED"}
         /\ r = "server" => /\ state["client"] \notin {"SYN_SENT", "ESTABLISHED"}
                            /\ state["server"] \notin {"LISTEN", "FIN_WAIT_1", "FIN_WAIT_2"}
    BY <1>4, <1>5, <1>type DEF Finished, StatePairs, ClientStates
  <1>11. Opened("client") /\ Opened("server") /\ Opened("client")' /\ Opened("server")'
    BY <1>2, <1>4, <1>8, <1>9, <1>10, <1>type DEF Opened
  <1>12. ack.kind = "ACK" /\ ack.src = r /\ ack.ack = sndNxt[Peer(r)] /\ ack.len = 0
         /\ fin.kind = "FIN" /\ fin.src = r /\ fin.ack = NoAck /\ fin.seq = sndNxt[r] /\ fin.len = 0
    BY <1>4 DEF PureAck, NewPacket
  <1>13. /\ state[r] = "FIN_WAIT_2" => TimeWaitEvent(r, w.due + tcpConfig.timeWait) \in armed
         /\ timers \subseteq armed
    OBVIOUS
  <1>14. \A q \in {ack} \cup more : q = ack \/ (state[r] = "ESTABLISHED" /\ q = fin)
    OBVIOUS
  <1> HIDE DEF p, ack, fin, more, armed
  <1>15. /\ \A q \in Roles : mgr'[q].lastAck = mgr[q].lastAck
         /\ armed \subseteq timers'
    BY <1>6, <1>type, TransmitFrame
  <1>16. rcvNxt[r] <= sndNxt[Peer(r)]
    BY <1>5, <1>type DEF Numbers
  <1>17. Forward
    <2>1. \A q \in Roles : /\ rcvNxt'[q] >= rcvNxt[q] /\ sndNxt'[q] >= sndNxt[q]
                           /\ sndUna'[q] >= sndUna[q] /\ mgr'[q].lastAck >= mgr[q].lastAck
      BY <1>2, <1>8, <1>15, <1>16, <1>type
    <2>2. Finished("client")' /\ Finished("client") /\ sndNxt'["client"] = sndNxt["client"]
      BY <1>2, <1>4, <1>8, <1>9, <1>10, <1>type DEF Finished
    <2>3. Finished("server") => Finished("server")' /\ sndNxt'["server"] = sndNxt["server"]
      BY <1>2, <1>8, <1>9, <1>type DEF Finished
    <2> QED
      BY <1>2, <1>11, <1>type, <2>1, <2>2, <2>3 DEF Forward, DataEnd
  <1>18. Numbers'
    <2>1. rcvNxt'["server"] <= sndNxt'["client"] /\ rcvNxt'["client"] <= sndNxt'["server"]
      BY <1>5, <1>8, <1>type DEF Numbers
    <2>2. /\ sndNxt'["client"] > InitialSeq["client"] /\ sndNxt'["server"] > InitialSeq["server"]
      BY <1>5, <1>8, <1>11, <1>type DEF Numbers, Opened
    <2>3. /\ mgr'["client"].lastAck <= rcvNxt'["server"]
          /\ mgr'["server"].lastAck <= rcvNxt'["client"]
      <3>1. \A q \in Roles : rcvNxt'[q] \in Nat /\ rcvNxt'[q] >= rcvNxt[q]
        BY <1>17, <1>type, StepTypes DEF Forward
      <3> QED
        BY <1>5, <1>15, <1>type, <3>1 DEF Numbers
    <2> QED
      BY <1>2, <1>4, <1>11, <2>1, <2>2, <2>3 DEF Numbers
  <1>19. ASSUME NEW q \in {ack} \cup more PROVE PacketOK(q)'
    <2>1. CASE q = ack
      <3>1. q.kind = "ACK" /\ q.src = r /\ q.ack = sndNxt[Peer(r)] /\ q.ack # NoAck /\ q.len = 0
        BY <1>12, <1>type, <2>1 DEF NoAck
      <3>2. q.ack <= rcvNxt'[r] /\ Opened(r)' /\ started'
        BY <1>2, <1>4, <1>8, <1>11, <1>type, <3>1
      <3> QED
        BY <3>1, <3>2 DEF PacketOK
    <2>2. CASE state[r] = "ESTABLISHED" /\ q = fin
      <3>1. q.kind = "FIN" /\ q.src = r /\ q.ack = NoAck /\ q.seq = sndNxt[r] /\ q.len = 0
        BY <1>12, <2>2
      <3>2. r = "server" /\ state'[r] = "LAST_ACK" /\ sndNxt'[r] = sndNxt[r] + 1
        BY <1>8, <1>9, <1>10, <1>type, <2>2
      <3>3. q.ack <= rcvNxt'[r]
        BY <1>8, <1>type, <3>1 DEF NoAck
      <3> QED
        BY <1>2, <1>4, <3>1, <3>2, <3>3 DEF PacketOK, Finished
    <2> QED
      BY <1>14, <1>19, <2>1, <2>2
  <1>20. Packets'
    <2>1. \A q \in {ack} \cup more : PacketOK(q)'
      BY <1>19
    <2> DEFINE out == {ack} \cup more
    <2>2. out \in SUBSET Packet /\ Transmit(r, mgr[r], out, wire \ {w}, armed, w.due)
      BY <1>6, <1>7
    <2>3. \A q \in out : PacketOK(q)'
      BY <2>1
    <2> HIDE DEF out
    <2> QED
      BY <1>5, <1>17, <1>type, <2>2, <2>3, TransmitPackets
  <1>21. StatePairs' /\ state'["client"] \in ClientStates
    <2>1. CASE r = "client"
      BY <1>2, <1>4, <1>5, <1>8, <1>9, <1>10, <1>type, <2>1 DEF StatePairs, ClientStates
    <2>2. CASE r = "server"
      BY <1>2, <1>4, <1>5, <1>8, <1>9, <1>10, <1>type, <2>2 DEF StatePairs, ClientStates
    <2> QED
      BY <1>type, <2>1, <2>2
  <1>22. AnnouncedOnce'
    <2>1. /\ BothClosed(state) <=> state["client"] = "CLOSED" /\ state["server"] = "CLOSED"
          /\ BothClosed(state') <=> state'["client"] = "CLOSED" /\ state'["server"] = "CLOSED"
      BY <1>type DEF BothClosed
    <2>2. \A q \in Roles : state'[q] = "CLOSED" <=> state[q] = "CLOSED"
      BY <1>8, <1>9, <1>type
    <2>3. state'["server"] \in {"LISTEN", "SYN_RECEIVED"}
            <=> state["server"] \in {"LISTEN", "SYN_RECEIVED"}
      BY <1>8, <1>9, <1>type
    <2> QED
      BY <1>2, <1>5, <1>type, <2>1, <2>2, <2>3 DEF AnnouncedOnce
  <1>23. TimeWaitEnds'
    <2> SUFFICES ASSUME NEW q \in Roles, state'[q] = "TIME_WAIT"
                 PROVE  \E t \in timers' : t.kind = "time_wait_expiry" /\ t.role = q
      BY DEF TimeWaitEnds
    <2>1. CASE state[q] = "TIME_WAIT"
      BY <1>13, <1>15, <2>1 DEF ConnInv, TimeWaitEnds
    <2>2. CASE state[q] # "TIME_WAIT"
      <3>1. q = r /\ state[r] = "FIN_WAIT_2"
        BY <1>8, <1>9, <2>2
      <3>2. TimeWaitEvent(r, w.due + tcpConfig.timeWait) \in timers'
        BY <1>13, <1>15, <3>1
      <3> QED
        BY <3>1, <3>2 DEF TimeWaitEvent
    <2> QED
      BY <2>1, <2>2
  <1>24. Apart(segments)'
    BY <1>2 DEF ConnInv, Apart
  <1> QED
    BY <1>17, <1>18, <1>20, <1>21, <1>22, <1>23, <1>24 DEF ConnInv

LEMMA DeliverDataStep ==
  ASSUME ConnInv, TimerInv', DeliverData
  PROVE  ConnInv' /\ Forward
  <1>type. /\ TypeInv /\ TypeInv' /\ TypeOK /\ "client" \in Roles /\ "server" \in Roles
           /\ (\A r \in Roles : r = "client" \/ r = "server")
           /\ Peer("client") = "server" /\ Peer("server") = "client"
           /\ sndNxt \in [Roles -> Nat] /\ sndUna \in [Roles -> Nat] /\ rcvNxt \in [Roles -> Nat]
           /\ (\A r \in Roles : mgr[r] \in Manager /\ mgr[r].lastAck \in Int)
           /\ (\A r \in Roles : InitialSeq[r] \in Nat) /\ txCount \in Nat
    BY StepTypes
  <1>1. PICK w \in wire :
          LET p == w.pkt
              r == Peer(p.src)
              next == IF InOrder(r, p) THEN rcvNxt[r] + p.len ELSE rcvNxt[r]
          IN  /\ p.kind = "DATA"
              /\ rcvNxt' = [rcvNxt EXCEPT ![r] = next]
              /\ Transmit(r, mgr[r], {PureAck(r, next)}, wire \ {w}, timers, w.due)
    BY DEF DeliverData, Delivering
  <1> DEFINE p == w.pkt
             next == IF InOrder("server", p) THEN rcvNxt["server"] + p.len ELSE rcvNxt["server"]
             ack == PureAck("server", next)
  <1>2. UNCHANGED <<started, state, sndNxt, sndUna, announced, segments>>
    BY DEF DeliverData, sending
  <1>3. /\ PacketOK(p) /\ p.kind = "DATA" /\ p.seq \in Nat /\ p.len \in Nat
    BY <1>1, <1>type, DeliveryType DEF ConnInv, Packets
  <1>4. /\ p.src = "client" /\ Opened("client") /\ started
        /\ p.seq + p.len <= DataEnd("client")
    BY <1>3 DEF PacketOK
  <1>5. Numbers /\ StatePairs /\ state["client"] \in ClientStates /\ AnnouncedOnce
        /\ Packets /\ wire \ {w} \in SUBSET wire
        /\ mgr["server"].inFlight \subseteq mgr["server"].inFlight
    BY DEF ConnInv
  <1>6. rcvNxt' = [rcvNxt EXCEPT !["server"] = next]
        /\ Transmit("server", mgr["server"], {ack}, wire \ {w}, timers, w.due)
    BY <1>1, <1>4, <1>type
  <1>7. next \in Nat /\ next >= rcvNxt["server"] /\ next <= sndNxt["client"]
    <2>1. DataEnd("client") <= sndNxt["client"] /\ DataEnd("client") \in Int
      BY <1>type DEF DataEnd
    <2>2. CASE InOrder("server", p)
      BY <1>3, <1>4, <1>type, <2>1, <2>2 DEF InOrder
    <2>3. CASE ~InOrder("server", p)
      BY <1>5, <1>type, <2>3 DEF Numbers
    <2> QED
      BY <2>2, <2>3
  <1>8. Opened("server")
    BY <1>4, <1>5 DEF Opened, StatePairs, ClientStates
  <1> HIDE DEF p, next
  <1>9. {ack} \in SUBSET Packet
    BY <1>7, <1>type DEF PureAck, NewPacket, Packet, Kinds
  <1>10. ack.kind = "ACK" /\ ack.src = "server" /\ ack.ack = next /\ ack.len = 0
    BY DEF PureAck, NewPacket
  <1> HIDE DEF ack
  <1>11. /\ mgr'["server"].lastAck = mgr["server"].lastAck /\ mgr'["client"] = mgr["client"]
         /\ timers \subseteq timers'
    BY <1>6, <1>type, TransmitFrame
  <1>12. rcvNxt'["server"] = next /\ rcvNxt'["client"] = rcvNxt["client"]
    BY <1>6, <1>type
  <1>13. Forward
    BY <1>2, <1>7, <1>11, <1>12, <1>type DEF Forward, Opened, Finished, DataEnd
  <1>14. Numbers'
    BY <1>2, <1>4, <1>5, <1>7, <1>8, <1>11, <1>12, <1>type DEF Numbers, Opened
  <1>15. ASSUME NEW q \in {ack} PROVE PacketOK(q)'
    <2>1. q.kind = "ACK" /\ q.src = "server" /\ q.ack = next /\ next # NoAck /\ q.len = 0
      BY <1>7, <1>10, <1>15 DEF NoAck
    <2>2. Opened("server")' /\ started' /\ q.ack <= rcvNxt'["server"]
      BY <1>2, <1>4, <1>7, <1>8, <1>12, <2>1 DEF Opened
    <2> QED
      BY <2>1, <2>2 DEF PacketOK
  <1>16. Packets'
    <2>1. \A q \in {ack} : PacketOK(q)'
      BY <1>15
    <2> QED
      BY <1>5, <1>6, <1>9, <1>13, <1>type, <2>1, TransmitPackets
  <1>17. StatePairs' /\ state'["client"] \in ClientStates /\ AnnouncedOnce'
    BY <1>2, <1>5 DEF StatePairs, AnnouncedOnce, BothClosed
  <1>18. TimeWaitEnds' /\ Apart(segments)'
    BY <1>2, <1>11, TimeWaitKept DEF ConnInv, Apart
  <1> QED
    BY <1>13, <1>14, <1>16, <1>17, <1>18 DEF ConnInv

-----------------------------------------------------------------------------
(* The timers.                                                              *)

LEMMA RtoCheckStep ==
  ASSUME ConnInv, TimerInv', RtoCheck
  PROVE  ConnInv' /\ Forward
  <1>type. /\ TypeInv /\ TypeInv' /\ TypeOK /\ "client" \in Roles /\ "server" \in Roles
           /\ (\A r \in Roles : r = "client" \/ r = "server")
           /\ sndNxt \in [Roles -> Nat] /\ sndUna \in [Roles -> Nat] /\ rcvNxt \in [Roles -> Nat]
           /\ (\A r \in Roles : mgr[r] \in Manager /\ mgr[r].lastAck \in Int)
           /\ txCount \in Nat
    BY StepTypes
  <1>1. PICK x \in timers :
          LET late == TimedOutPackets(mgr[x.role], x.due)
          IN  /\ x.kind = "rto_check"
              /\ Transmit(x.role, Cancel(CheckTimeouts(mgr[x.role], x.due), Ids(late)),
                          Copies(late), wire, timers \ {x}, x.due)
    BY DEF RtoCheck, Firing
  <1> DEFINE r == x.role
             late == TimedOutPackets(mgr[r], x.due)
             m == Cancel(CheckTimeouts(mgr[r], x.due), Ids(late))
             out == Copies(late)
  <1>2. UNCHANGED <<started, state, sndNxt, sndUna, rcvNxt, announced, segments>>
    BY DEF RtoCheck, endpoints, sending
  <1>3. x.due \in Nat /\ r \in Roles
    BY <1>type, TimerType
  <1>4. late \in SUBSET Packet /\ IsFiniteSet(late) /\ late \subseteq {e.pkt : e \in mgr[r].inFlight}
    <2>1. late \subseteq {e.pkt : e \in mgr[r].inFlight}
      BY DEF TimedOutPackets, Expired
    <2> QED
      BY <1>3, <1>type, <2>1, TimedOutPacketsProperties DEF TypeOK
  <1>5. m \in Manager /\ m.lastAck = mgr[r].lastAck
    <2>1. CheckTimeouts(mgr[r], x.due) \in Manager
      BY <1>3, <1>type, CheckTimeoutsProperties
    <2>2. CheckTimeouts(mgr[r], x.due).lastAck = mgr[r].lastAck
      BY <1>3, <1>type DEF CheckTimeouts, Manager
    <2> QED
      BY <2>1, <2>2, CancelProperties
  <1>6. m.inFlight \subseteq mgr[r].inFlight
    <2>1. \A e \in mgr[r].inFlight : e.pkt.src = r
      BY <1>3 DEF ConnInv, TimerInv, Watched
    <2> QED
      BY <1>3, <1>type, <2>1, TimeoutStep
  <1>7. out \in SUBSET Packet
    BY <1>4, <1>type, CopiesProperties
  <1>8. \A q \in out : PacketOK(q)
    <2>1. \A q \in late : PacketOK(q) /\ NeedsAckTracking(q)
      BY <1>3, <1>4 DEF ConnInv, Packets
    <2> HIDE DEF late
    <2> QED
      BY <1>4, <2>1, CopyOK
  <1>9. Transmit(r, m, out, wire, timers \ {x}, x.due)
    BY <1>1
  <1> HIDE DEF r, late, m, out
  <1>10. /\ \A q \in Roles : mgr'[q].lastAck = mgr[q].lastAck
         /\ timers \ {x} \subseteq timers'
    BY <1>3, <1>5, <1>9, <1>type, TransmitFrame
  <1>11. Forward
    BY <1>2, <1>10, <1>type DEF Forward, Opened, Finished, DataEnd
  <1>12. \A q \in out : PacketOK(q)'
    BY <1>7, <1>8, <1>11, <1>type, PacketKept
  <1>13. Packets'
    <2>1. Packets /\ wire \in SUBSET wire
      BY DEF ConnInv
    <2> QED
      BY <1>3, <1>5, <1>6, <1>7, <1>9, <1>11, <1>12, <1>type, <2>1, TransmitPackets
  <1>14. Numbers' /\ StatePairs' /\ state'["client"] \in ClientStates /\ AnnouncedOnce'
    BY <1>2, <1>10, <1>type DEF ConnInv, Numbers, Opened, StatePairs, AnnouncedOnce, BothClosed
  <1>15. TimeWaitEnds' /\ Apart(segments)'
    BY <1>1, <1>2, <1>10, TimeWaitKept DEF ConnInv, Apart
  <1> QED
    BY <1>11, <1>13, <1>14, <1>15 DEF ConnInv

LEMMA TimeWaitExpiryStep ==
  ASSUME ConnInv, TimerInv', TimeWaitExpiry
  PROVE  ConnInv' /\ Forward
  <1>type. /\ TypeInv /\ TypeInv' /\ TypeOK /\ "client" \in Roles /\ "server" \in Roles
           /\ (\A r \in Roles : r = "client" \/ r = "server")
           /\ state \in [Roles -> States]
           /\ sndNxt \in [Roles -> Nat] /\ sndUna \in [Roles -> Nat] /\ rcvNxt \in [Roles -> Nat]
           /\ (\A r \in Roles : mgr[r] \in Manager /\ mgr[r].lastAck \in Int)
           /\ announced \in [established : Nat, closed : Nat]
    BY StepTypes
  <1>1. PICK x \in timers :
          /\ state' = IF state[x.role] = "TIME_WAIT"
                      THEN [state EXCEPT ![x.role] = "CLOSED"] ELSE state
          /\ announced' = IF state[x.role] = "TIME_WAIT" /\ BothClosed(state')
                          THEN [announced EXCEPT !.closed = @ + 1] ELSE announced
          /\ timers' = timers \ {x}
    BY Triggered DEF TimeWaitExpiry, Firing
  <1>2. UNCHANGED <<started, sndNxt, sndUna, rcvNxt, mgr, wire, segments>>
    BY DEF TimeWaitExpiry, sending
  <1> DEFINE r == x.role
  <1>3. r \in Roles
    BY <1>type, TimerType
  <1>4. Numbers /\ StatePairs /\ state["client"] \in ClientStates /\ AnnouncedOnce
        /\ Packets /\ TimeWaitEnds
    BY DEF ConnInv
  <1>5. state["server"] # "TIME_WAIT"
    BY <1>4 DEF StatePairs
  <1>6. CASE r = "client" /\ state["client"] = "TIME_WAIT"
    <2>1. /\ state'["client"] = "CLOSED" /\ state'["server"] = state["server"]
          /\ started
      BY <1>1, <1>6, <1>type DEF TypeInv
    <2>2. state["server"] \in {"LAST_ACK", "CLOSED"}
      BY <1>4, <1>6 DEF StatePairs
    <2>3. Forward
      BY <1>2, <1>6, <1>type, <2>1 DEF Forward, Opened, Finished, DataEnd
    <2>4. Packets'
      <3>1. \A p \in Packet : PacketOK(p) => PacketOK(p)'
        BY <1>type, <2>3, PacketKept
      <3>2. /\ \A w \in wire : w.pkt \in Packet
            /\ \A q \in Roles : \A e \in mgr[q].inFlight : e.pkt \in Packet
        BY <1>type, DeliveryType DEF Manager, Entry
      <3> QED
        BY <1>2, <1>4, <3>1, <3>2 DEF Packets
    <2>5. Numbers'
      BY <1>2, <1>4, <1>6, <2>1 DEF Numbers, Opened
    <2>6. StatePairs' /\ state'["client"] \in ClientStates
      BY <1>2, <2>1, <2>2 DEF StatePairs, ClientStates
    <2>7. AnnouncedOnce'
      <3>1. /\ BothClosed(state) <=> state["client"] = "CLOSED" /\ state["server"] = "CLOSED"
            /\ BothClosed(state') <=> state'["client"] = "CLOSED" /\ state'["server"] = "CLOSED"
        BY <1>type DEF BothClosed, Roles
      <3>2. /\ announced'.established = announced.established
            /\ announced'.closed = announced.closed + (IF BothClosed(state') THEN 1 ELSE 0)
        BY <1>1, <1>6, <1>type
      <3> QED
        BY <1>2, <1>4, <1>6, <1>type, <2>1, <2>2, <3>1, <3>2 DEF AnnouncedOnce
    <2>8. TimeWaitEnds'
      BY <1>5, <1>type, <2>1 DEF TimeWaitEnds
    <2>9. Apart(segments)'
      BY <1>2 DEF ConnInv, Apart
    <2> QED
      BY <2>3, <2>4, <2>5, <2>6, <2>7, <2>8, <2>9 DEF ConnInv
  <1>7. CASE ~(r = "client" /\ state["client"] = "TIME_WAIT")
    <2>1. state' = state /\ announced' = announced
      BY <1>1, <1>3, <1>5, <1>7, <1>type
    <2>2. Forward
      BY <1>2, <1>type, <2>1 DEF Forward, Opened, Finished, DataEnd
    <2>3. Packets'
      BY <1>2, <1>4, <2>1 DEF Packets, PacketOK, Opened, Finished, DataEnd
    <2>4. Numbers' /\ StatePairs' /\ state'["client"] \in ClientStates /\ AnnouncedOnce'
      BY <1>2, <1>4, <2>1 DEF Numbers, Opened, StatePairs, AnnouncedOnce, BothClosed
    <2>5. TimeWaitEnds'
      <3> SUFFICES ASSUME NEW q \in Roles, state'[q] = "TIME_WAIT"
                   PROVE  \E t \in timers' : t.kind = "time_wait_expiry" /\ t.role = q
        BY DEF TimeWaitEnds
      <3>1. q = "client" /\ r # q
        BY <1>5, <1>7, <1>type, <2>1
      <3>2. PICK t \in timers : t.kind = "time_wait_expiry" /\ t.role = q
        BY <1>4, <2>1 DEF TimeWaitEnds
      <3> QED
        BY <1>1, <3>1, <3>2
    <2>6. Apart(segments)'
      BY <1>2 DEF ConnInv, Apart
    <2> QED
      BY <2>2, <2>3, <2>4, <2>5, <2>6 DEF ConnInv
  <1> QED
    BY <1>6, <1>7

-----------------------------------------------------------------------------
(* The invariant and what follows from it.                                  *)

LEMMA InitConnInv == Init => ConnInv
  <1> SUFFICES ASSUME Init PROVE ConnInv
    OBVIOUS
  <1>1. /\ \A r \in Roles : /\ mgr[r].inFlight = {} /\ mgr[r].lastAck = -1
                            /\ state[r] = "CLOSED" /\ sndNxt[r] = 0 /\ rcvNxt[r] = 0
                            /\ sndUna[r] = 0
        /\ wire = {} /\ timers = {} /\ ~started /\ segments = << >>
        /\ announced = [established |-> 0, closed |-> 0]
    BY DEF Init, InitManager, NoAck
  <1>2. "client" \in Roles /\ "server" \in Roles
    BY DEF Roles
  <1>3. TimerInv
    BY <1>1, InitTypeInv DEF TimerInv
  <1>4. Packets /\ Numbers
    BY <1>1, <1>2 DEF Packets, Numbers, Opened
  <1>5. StatePairs /\ state["client"] \in ClientStates /\ AnnouncedOnce /\ TimeWaitEnds
    BY <1>1, <1>2 DEF StatePairs, ClientStates, AnnouncedOnce, TimeWaitEnds
  <1>6. Apart(segments)
    BY <1>1 DEF Apart
  <1> QED
    BY <1>3, <1>4, <1>5, <1>6 DEF ConnInv

LEMMA StepConnInv == ConnInv /\ [Next]_vars => ConnInv' /\ Forward
  <1> SUFFICES ASSUME ConnInv, [Next]_vars PROVE ConnInv' /\ Forward
    OBVIOUS
  <1>1. TimerInv'
    BY StepTypeInv, StepTimerInv DEF ConnInv, TimerInv
  <1>2. CASE UpdateTcpConfig \/ UNCHANGED vars
    BY <1>1, <1>2, QuietStep DEF UpdateTcpConfig, vars, endpoints, network, sending
  <1> QED
    BY <1>1, <1>2, StartStep, SendStep, CloseStep, DeliverSynStep, DeliverSynAckStep,
       DeliverAckStep, DeliverFinStep, DeliverDataStep, RtoCheckStep, TimeWaitExpiryStep
       DEF Next, Command, ProcessNext, SendMessage

\* connection_established and connection_closed are each published at most
\* once, and exactly when the server is established and when the second side
\* closes (session.py _handle_pure_ack, _handle_time_wait_expiry).
THEOREM AnnouncementsInvariant == Spec => []AnnouncedOnce
  <1>1. ConnInv => AnnouncedOnce
    BY DEF ConnInv
  <1> QED
    BY <1>1, InitConnInv, StepConnInv, PTL DEF Spec

\* An endpoint in TIME_WAIT has its expiry scheduled, although a state can be
\* entered from two handlers and left by one (session.py
\* _schedule_time_wait_expiry and its two callers).
THEOREM TimeWaitInvariant == Spec => []TimeWaitEnds
  <1>1. ConnInv => TimeWaitEnds
    BY DEF ConnInv
  <1> QED
    BY <1>1, InitConnInv, StepConnInv, PTL DEF Spec

\* No step moves recv_next_seq, send_unacked_seq or the highest ACK seen
\* backwards: a FIN sets recv_next_seq outright, but no FIN under way carries
\* a number behind it (session.py _handle_fin).
THEOREM NumbersNeverRecede == Spec => NeverRecede
  <1>1. ConnInv /\ [Next]_vars
          => [\A r \in Roles : /\ rcvNxt'[r] >= rcvNxt[r]
                               /\ sndUna'[r] >= sndUna[r]
                               /\ mgr'[r].lastAck >= mgr[r].lastAck]_vars
    BY StepConnInv DEF Forward
  <1> QED
    BY <1>1, InitConnInv, StepConnInv, PTL DEF Spec, NeverRecede

=============================================================================
