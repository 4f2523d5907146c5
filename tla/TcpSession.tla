------------------------------ MODULE TcpSession ------------------------------
(***************************************************************************)
(* SimulationSession (app/simulation/session.py): two TCP endpoints, their *)
(* retransmission managers and congestion controllers, joined by a         *)
(* simulated network and one scheduler of virtual-time events.             *)
(*                                                                         *)
(* Everything is single-threaded: a command (start, send_message, close,   *)
(* a configuration update) or the handler of the next scheduled event is   *)
(* one atomic step.  What interleaves is the commands with the events, and *)
(* the order in which the network delivers or loses what was sent.         *)
(***************************************************************************)
EXTENDS TcpStateMachine, Retransmission, Sequences

CONSTANTS
  Configs,            \* TCPConfigs a client may install while running
  InitialSeq,         \* [Roles -> Nat], the random initial_seq_no of each side
  Delays,             \* delays the network may give a packet
  MessageLengths,     \* encoded lengths of the messages a client may send
  MaxMessages,        \* bound: send_message calls
  MaxUpdates,         \* bound: configuration updates
  MaxLosses,          \* bound: packets the network loses
  MaxTransmissions    \* bound: packets ever put on the wire

ASSUME SessionAssumption ==
  /\ Configs \subseteq TcpConfigs
  /\ ManagerConfig \in Configs
  /\ InitialSeq \in [Roles -> Nat \ {0}]
  /\ Delays \subseteq Nat \ {0}
  /\ MessageLengths \subseteq Nat
  /\ {MaxMessages, MaxUpdates, MaxLosses, MaxTransmissions} \subseteq Nat

VARIABLES
  started,      \* session.started
  state,        \* the two state machines
  sndNxt,       \* send_next_seq of each endpoint
  sndUna,       \* send_unacked_seq
  rcvNxt,       \* recv_next_seq
  mgr,          \* the two retransmission managers
  cong,         \* the two congestion controllers
  wire,         \* scheduled packet_delivery events
  timers,       \* scheduled rto_check and time_wait_expiry events
  now,          \* clock.now_ms
  txCount,      \* _transmission_counter
  segments,     \* _message_segments
  nextSeg,      \* _next_segment_idx, counted from 1
  tcpConfig,    \* session.tcp_config
  accepted,     \* history: the segments the server took, in the order it did
  announced,    \* history: ConnectionEstablished and ConnectionClosed events
  messages,     \* send_message calls so far
  updates,      \* configuration updates so far
  losses        \* packets lost so far

endpoints == <<started, state, sndNxt, sndUna, rcvNxt, accepted, announced>>
network   == <<mgr, wire, timers, txCount, losses>>
sending   == <<segments, nextSeg, messages>>
vars == <<endpoints, network, sending, cong, now, tcpConfig, updates>>

Peer(r) == IF r = "client" THEN "server" ELSE "client"

NewPacket(id, kind, seq, ack, len, src) ==
  [id |-> id, kind |-> kind, seq |-> seq, ack |-> ack, len |-> len, src |-> src]

PureAck(r, ack) == NewPacket(txCount, "ACK", sndNxt[r], ack, 0, r)

-----------------------------------------------------------------------------
(* The scheduler: a heap ordered by due time, then by insertion.  A         *)
(* transmission inserts its rto_check before its delivery; a TIME_WAIT      *)
(* expiry goes in after everything sent so far and before what comes next.  *)

RtoEvent(p, t) ==
  [due |-> t, order |-> <<p.id, 1>>, kind |-> "rto_check", role |-> p.src]
DeliveryEvent(p, t) == [due |-> t, order |-> <<p.id, 2>>, pkt |-> p]
TimeWaitEvent(r, t) ==
  [due |-> t, order |-> <<txCount', 0>>, kind |-> "time_wait_expiry", role |-> r]

Earlier(o, p) == o[1] < p[1] \/ (o[1] = p[1] /\ o[2] < p[2])

\* Mutant of Precedes: a queue in insertion order, not a heap on due times.
PrecedesInserted(e, f) == ~Earlier(f.order, e.order)

Precedes(e, f) ==
  e.due < f.due \/ (e.due = f.due /\ ~Earlier(f.order, e.order))

IsNext(e) == /\ \A w \in wire : Precedes(e, w)
             /\ \A t \in timers : Precedes(e, t)

-----------------------------------------------------------------------------
(* Transmission.                                                            *)

\* Mutant of NeedsAckTracking: a FIN is fire-and-forget.
NeedsNoFinTracking(p) == p.kind \notin {"ACK", "FIN"}

NeedsAckTracking(p) == p.kind # "ACK"

Lost == 0     \* a network decision: a positive delay, or Lost

\* _transmit for every packet of out, sent by r at time t with its manager
\* already at m: track it, arm its RTO, and let the network lose it or
\* schedule its delivery.  onWire and armed are the events that stay pending.
Transmit(r, m, out, onWire, armed, t) ==
  \E fate \in [out -> Delays \cup {Lost}] :
    LET tracked == {p \in out : NeedsAckTracking(p)}
        dropped == {p \in out : fate[p] = Lost}
    IN  /\ txCount + Cardinality(out) <= MaxTransmissions
        /\ losses + Cardinality(dropped) <= MaxLosses
        /\ txCount' = txCount + Cardinality(out)
        /\ mgr' = [mgr EXCEPT ![r] = RegisterSent(m, tracked, t)]
        /\ timers' = armed \cup {RtoEvent(p, t + ManagerConfig.rto) : p \in tracked}
        /\ wire' = onWire \cup {DeliveryEvent(p, t + fate[p]) : p \in out \ dropped}
        /\ losses' = losses + Cardinality(dropped)

\* _resend: a copy under a new id, in the place of the cancelled original.
Copies(pkts) ==
  {[p EXCEPT !.id = txCount + Cardinality({q \in pkts : q.id < p.id})] : p \in pkts}

-----------------------------------------------------------------------------
(* Congestion-window gated data transfer, with the client's manager at m   *)
(* and its controller at c, for the message segs from segment next on.     *)

\* segment_message: full MSS-sized segments, the last one maybe shorter.
Segment(length, mss) ==
  [i \in 1 .. (length + mss - 1) \div mss |->
     [offset |-> (i - 1) * mss, len |-> Smaller(mss, length - (i - 1) * mss)]]

Room(m, c) == Larger(0, Window(c) - Cardinality(m.inFlight))

\* Mutant of SendCount: the window is not consulted.
SendCountUngated(m, c, segs, next) ==
  IF state["client"] # "ESTABLISHED" THEN 0 ELSE Len(segs) - next + 1

\* _try_send_more_data: how many segments it sends ...
SendCount(m, c, segs, next) ==
  IF state["client"] # "ESTABLISHED" THEN 0
  ELSE Smaller(Room(m, c), Len(segs) - next + 1)

\* ... and which packets they become.
DataPackets(m, c, segs, next) ==
  {NewPacket(txCount + k, "DATA",
             sndNxt["client"] + segs[next + k].offset - segs[next].offset,
             NoAck, segs[next + k].len, "client")
     : k \in 0 .. SendCount(m, c, segs, next) - 1}

\* Sequence numbers those packets take.
DataBytes(m, c, segs, next) ==
  LET n == SendCount(m, c, segs, next)
  IN  IF n = 0 THEN 0
      ELSE segs[next + n - 1].offset + segs[next + n - 1].len - segs[next].offset

-----------------------------------------------------------------------------
Init ==
  /\ started = FALSE
  /\ state = [r \in Roles |-> "CLOSED"]
  /\ sndNxt = [r \in Roles |-> 0]
  /\ sndUna = [r \in Roles |-> 0]
  /\ rcvNxt = [r \in Roles |-> 0]
  /\ mgr = [r \in Roles |-> InitManager]
  /\ cong = [r \in Roles |-> InitCongestion(ManagerConfig.initialCwnd,
                                            ManagerConfig.initialSsthresh)]
  /\ wire = {} /\ timers = {}
  /\ now = 0 /\ txCount = 0
  /\ segments = << >> /\ nextSeg = 1
  /\ tcpConfig = ManagerConfig
  /\ accepted = << >>
  /\ announced = [established |-> 0, closed |-> 0]
  /\ messages = 0 /\ updates = 0 /\ losses = 0

-----------------------------------------------------------------------------
(* Commands.                                                                *)

Start ==
  /\ ~started
  /\ started' = TRUE
  /\ state' = [client |-> Apply(state["client"], "APP_OPEN"),
               server |-> Apply(state["server"], "APP_PASSIVE_OPEN")]
  /\ sndNxt' = [sndNxt EXCEPT !["client"] = InitialSeq["client"] + 1]
  /\ sndUna' = [sndUna EXCEPT !["client"] = InitialSeq["client"]]
  /\ Transmit("client", mgr["client"],
              {NewPacket(txCount, "SYN", InitialSeq["client"], NoAck, 0, "client")},
              wire, timers, now)
  /\ UNCHANGED <<rcvNxt, accepted, announced, sending, cong, now, tcpConfig, updates>>

\* send_message with a message of this encoded length.  The segments of an
\* earlier message that were never sent are forgotten.
Send(length) ==
  LET segs == Segment(length, tcpConfig.mss)
      m == mgr["client"]
      c == cong["client"]
  IN  /\ messages < MaxMessages
      /\ state["client"] = "ESTABLISHED"
      /\ messages' = messages + 1
      /\ segments' = segs
      /\ nextSeg' = 1 + SendCount(m, c, segs, 1)
      /\ sndNxt' = [sndNxt EXCEPT !["client"] = @ + DataBytes(m, c, segs, 1)]
      /\ Transmit("client", m, DataPackets(m, c, segs, 1), wire, timers, now)
      /\ UNCHANGED <<started, state, sndUna, rcvNxt, accepted, announced,
                     cong, now, tcpConfig, updates>>

SendMessage == \E length \in MessageLengths : Send(length)

Close ==
  /\ state["client"] = "ESTABLISHED"
  /\ state' = [state EXCEPT !["client"] = Apply(@, "APP_CLOSE")]
  /\ sndNxt' = [sndNxt EXCEPT !["client"] = @ + 1]
  /\ Transmit("client", mgr["client"],
              {NewPacket(txCount, "FIN", sndNxt["client"], NoAck, 0, "client")},
              wire, timers, now)
  /\ UNCHANGED <<started, sndUna, rcvNxt, accepted, announced, sending,
                 cong, now, tcpConfig, updates>>

\* The live runner's update_tcp_config: the session takes the new object, its
\* managers and controllers keep the one they were built with.
UpdateTcpConfig ==
  /\ updates < MaxUpdates
  /\ updates' = updates + 1
  /\ \E config \in Configs \ {tcpConfig} : tcpConfig' = config
  /\ UNCHANGED <<endpoints, network, sending, cong, now>>

-----------------------------------------------------------------------------
(* Delivery of a packet.                                                    *)

\* The next event is the delivery of packet w.pkt, of one of these kinds.
Delivering(w, kinds) == w.pkt.kind \in kinds /\ IsNext(w) /\ now' = w.due

\* The ACK bookkeeping at the receiver of p, up to what it sends for it: a
\* fast-retransmitted copy, or more data when the client made progress.
AckedManager(r, p) ==
  Cancel(OnAck(mgr[r], p.ack), Ids(FastRetransmitTarget(mgr[r], p.ack)))

AckedCongestion(r, p) == OnAckCongestion(mgr[r], cong[r], p.ack)

\* Mutant of Resumes: ACKs stop clocking data out after slow start.
ResumesInSlowStart(r, p) ==
  r = "client" /\ Acked(mgr[r], p.ack) # {} /\ cong[r].phase = "SLOW_START"

Resumes(r, p) == r = "client" /\ Acked(mgr[r], p.ack) # {}

AckedOutput(r, p) ==
  IF Resumes(r, p)
  THEN DataPackets(AckedManager(r, p), AckedCongestion(r, p), segments, nextSeg)
  ELSE Copies(FastRetransmitTarget(mgr[r], p.ack))

AckBookkeeping(r, p) ==
  LET m == AckedManager(r, p)
      c == AckedCongestion(r, p)
  IN  /\ cong' = [cong EXCEPT ![r] = c]
      /\ sndUna' = IF Acked(mgr[r], p.ack) # {}
                   THEN [sndUna EXCEPT ![r] = Larger(@, p.ack)] ELSE sndUna
      /\ nextSeg' = IF Resumes(r, p)
                    THEN nextSeg + SendCount(m, c, segments, nextSeg) ELSE nextSeg
      /\ sndNxt' = IF Resumes(r, p)
                   THEN [sndNxt EXCEPT ![r] = @ + DataBytes(m, c, segments, nextSeg)]
                   ELSE sndNxt

DeliverSyn ==
  \E w \in wire :
    LET p == w.pkt
        listening == CanApply(state["server"], "RECV_SYN")
        synAck == NewPacket(txCount, "SYN_ACK", InitialSeq["server"], p.seq + 1, 0, "server")
    IN  /\ Delivering(w, {"SYN"})
        /\ IF listening
           THEN /\ state' = [state EXCEPT !["server"] = Apply(@, "RECV_SYN")]
                /\ rcvNxt' = [rcvNxt EXCEPT !["server"] = p.seq + 1]
                /\ sndNxt' = [sndNxt EXCEPT !["server"] = InitialSeq["server"] + 1]
                /\ sndUna' = [sndUna EXCEPT !["server"] = InitialSeq["server"]]
                /\ Transmit("server", mgr["server"], {synAck}, wire \ {w}, timers, w.due)
           ELSE /\ UNCHANGED <<state, rcvNxt, sndNxt, sndUna>>
                /\ Transmit("server", mgr["server"], {}, wire \ {w}, timers, w.due)
        /\ UNCHANGED <<started, accepted, announced, sending, cong, tcpConfig, updates>>

\* A SYN-ACK is acknowledged when it completes the handshake and again when
\* it arrives in ESTABLISHED; later it is ignored.
DeliverSynAck ==
  \E w \in wire :
    LET p == w.pkt
        opening == CanApply(state["client"], "RECV_SYN_ACK")
        answers == opening \/ state["client"] = "ESTABLISHED"
        next == IF opening THEN p.seq + 1 ELSE rcvNxt["client"]
        resent == AckedOutput("client", p)
        reply == NewPacket(txCount + Cardinality(resent), "ACK", sndNxt'["client"],
                           next, 0, "client")
    IN  /\ Delivering(w, {"SYN_ACK"})
        /\ AckBookkeeping("client", p)
        /\ state' = IF opening
                    THEN [state EXCEPT !["client"] = Apply(@, "RECV_SYN_ACK")] ELSE state
        /\ rcvNxt' = [rcvNxt EXCEPT !["client"] = next]
        /\ Transmit("client", AckedManager("client", p),
                    resent \cup (IF answers THEN {reply} ELSE {}),
                    wire \ {w}, timers, w.due)
        /\ UNCHANGED <<started, accepted, announced, segments, messages, tcpConfig, updates>>

\* Mutant of BothClosed: one closed endpoint is enough.
AnyClosed(s) == \E r \in Roles : s[r] = "CLOSED"

\* Both endpoints closed, as is_closed would see it in s.
BothClosed(s) == \A r \in Roles : s[r] = "CLOSED"

\* A pure ACK moves the machine on whatever it acknowledges.
DeliverAck ==
  \E w \in wire :
    LET p == w.pkt
        r == Peer(p.src)
        moves == CanApply(state[r], "RECV_ACK")
    IN  /\ Delivering(w, {"ACK"})
        /\ AckBookkeeping(r, p)
        /\ state' = IF moves THEN [state EXCEPT ![r] = Apply(@, "RECV_ACK")] ELSE state
        /\ announced' =
             [established |-> announced.established
                                + (IF state[r] = "SYN_RECEIVED" THEN 1 ELSE 0),
              closed |-> announced.closed
                           + (IF state[r] = "LAST_ACK" /\ BothClosed(state') THEN 1 ELSE 0)]
        /\ Transmit(r, AckedManager(r, p), AckedOutput(r, p), wire \ {w},
                    timers \cup (IF state[r] = "CLOSING"
                                 THEN {TimeWaitEvent(r, w.due + tcpConfig.timeWait)} ELSE {}),
                    w.due)
        /\ UNCHANGED <<started, rcvNxt, accepted, segments, messages, tcpConfig, updates>>

\* A FIN sets recv_next_seq past itself whatever came before it.  The first
\* one is acknowledged and, in ESTABLISHED, answered by a FIN at once; any
\* other is only acknowledged again.
DeliverFin ==
  \E w \in wire :
    LET p == w.pkt
        r == Peer(p.src)
        passive == state[r] = "ESTABLISHED"
        moved == Apply(state[r], "RECV_FIN")
        fin == NewPacket(txCount + 1, "FIN", sndNxt[r], NoAck, 0, r)
    IN  /\ Delivering(w, {"FIN"})
        /\ rcvNxt' = [rcvNxt EXCEPT ![r] = p.seq + 1]
        /\ state' = [state EXCEPT ![r] =
                       IF passive THEN Apply(moved, "APP_CLOSE")
                       ELSE IF CanApply(@, "RECV_FIN") THEN moved ELSE @]
        /\ sndNxt' = IF passive THEN [sndNxt EXCEPT ![r] = @ + 1] ELSE sndNxt
        /\ Transmit(r, mgr[r],
                    {PureAck(r, p.seq + 1)} \cup (IF passive THEN {fin} ELSE {}),
                    wire \ {w},
                    timers \cup (IF state[r] = "FIN_WAIT_2"
                                 THEN {TimeWaitEvent(r, w.due + tcpConfig.timeWait)} ELSE {}),
                    w.due)
        /\ UNCHANGED <<started, sndUna, accepted, announced, sending, cong,
                       tcpConfig, updates>>

\* Mutant of InOrder: a segment beyond a gap is taken too.
InOrderOrAhead(r, p) == p.seq >= rcvNxt[r]

\* Mutant of InOrder: a copy of what was taken before counts again.
InOrderOrRepeated(r, p) == p.seq <= rcvNxt[r]

InOrder(r, p) == p.seq = rcvNxt[r]

\* Out-of-order data is not kept: the receiver repeats its last ACK.
DeliverData ==
  \E w \in wire :
    LET p == w.pkt
        r == Peer(p.src)
        next == IF InOrder(r, p) THEN rcvNxt[r] + p.len ELSE rcvNxt[r]
    IN  /\ Delivering(w, {"DATA"})
        /\ rcvNxt' = [rcvNxt EXCEPT ![r] = next]
        /\ accepted' = IF InOrder(r, p)
                       THEN Append(accepted, [seq |-> p.seq, len |-> p.len]) ELSE accepted
        /\ Transmit(r, mgr[r], {PureAck(r, next)}, wire \ {w}, timers, w.due)
        /\ UNCHANGED <<started, state, sndNxt, sndUna, announced, sending,
                       cong, tcpConfig, updates>>

-----------------------------------------------------------------------------
(* Timers.                                                                  *)

Firing(e, kind) == e.kind = kind /\ IsNext(e) /\ now' = e.due

\* Every entry of the role whose deadline has passed is resent, in the order
\* it was first sent; a check that finds none changes nothing.
RtoCheck ==
  \E e \in timers :
    LET r == e.role
        late == TimedOutPackets(mgr[r], e.due)
    IN  /\ Firing(e, "rto_check")
        /\ cong' = [cong EXCEPT ![r] = TimeoutsCongestion(mgr[r], @, e.due)]
        /\ Transmit(r, Cancel(CheckTimeouts(mgr[r], e.due), Ids(late)),
                    Copies(late), wire, timers \ {e}, e.due)
        /\ UNCHANGED <<endpoints, sending, tcpConfig, updates>>

TimeWaitExpiry ==
  \E e \in timers :
    LET r == e.role
    IN  /\ Firing(e, "time_wait_expiry")
        /\ state' = IF state[r] = "TIME_WAIT"
                    THEN [state EXCEPT ![r] = Apply(@, "TIME_WAIT_EXPIRED")] ELSE state
        /\ announced' = IF state[r] = "TIME_WAIT" /\ BothClosed(state')
                        THEN [announced EXCEPT !.closed = @ + 1] ELSE announced
        /\ timers' = timers \ {e}
        /\ UNCHANGED <<started, sndNxt, sndUna, rcvNxt, accepted, mgr, wire,
                       txCount, losses, sending, cong, tcpConfig, updates>>

-----------------------------------------------------------------------------
Command == Start \/ SendMessage \/ Close \/ UpdateTcpConfig

\* process_next: pop the earliest event and handle it.
ProcessNext == \/ DeliverSyn \/ DeliverSynAck \/ DeliverAck \/ DeliverFin
               \/ DeliverData \/ RtoCheck \/ TimeWaitExpiry

Next == Command \/ ProcessNext

Spec == Init /\ [][Next]_vars

-----------------------------------------------------------------------------
(* Properties.                                                              *)

RtoTimers      == [due : Nat, order : Nat \X {1}, kind : {"rto_check"}, role : Roles]
TimeWaitTimers == [due : Nat, order : Nat \X {0}, kind : {"time_wait_expiry"}, role : Roles]
Deliveries     == [due : Nat, order : Nat \X {2}, pkt : Packet]

\* Types.  With States as the range of state this also says that no handler
\* ever asks the machine for a transition it does not have, so
\* TCPProtocolError is never raised; with Congestion, that the window never
\* drops under one segment nor the threshold under two.
TypeOK ==
  /\ started \in BOOLEAN
  /\ state \in [Roles -> States]
  /\ sndNxt \in [Roles -> Nat] /\ sndUna \in [Roles -> Nat] /\ rcvNxt \in [Roles -> Nat]
  /\ mgr \in [Roles -> Manager]
  /\ \A r \in Roles : IsFiniteSet(mgr[r].inFlight)
  /\ cong \in [Roles -> Congestion]
  /\ wire \subseteq Deliveries
  /\ timers \subseteq RtoTimers \cup TimeWaitTimers
  /\ now \in Nat /\ txCount \in Nat
  /\ accepted \in Seq([seq : Nat, len : Nat])
  /\ segments \in Seq([offset : Nat, len : Nat \ {0}])
  /\ nextSeg \in 1 .. Len(segments) + 1
  /\ tcpConfig \in Configs
  /\ announced \in [established : Nat, closed : Nat]
  /\ messages \in Nat /\ updates \in Nat /\ losses \in Nat

\* Every tracked packet has an rto_check waiting at exactly its deadline, and
\* no event is due in the past: no loss goes unnoticed, and advance_to never
\* has to move the clock backwards.
TimersCoverInFlight ==
  /\ \A r \in Roles : \A e \in mgr[r].inFlight :
       \E t \in timers : t.kind = "rto_check" /\ t.role = r /\ t.due = e.deadline
  /\ \A w \in wire : w.due >= now
  /\ \A t \in timers : t.due >= now

\* The first sequence number r's peer has not acknowledged.
Unacked(r) == IF mgr[r].lastAck = NoAck THEN InitialSeq[r] ELSE mgr[r].lastAck

Covers(e, s) == e.pkt.seq <= s /\ s < SegmentEndSeq(e.pkt)

\* The retransmission queue of an endpoint that has sent its SYN covers
\* exactly the sequence numbers sent and not acknowledged, each by one
\* packet: retransmission never loses, duplicates or resurrects a segment.
UnackedTiled ==
  \A r \in Roles : sndNxt[r] > 0 =>
    /\ \A s \in Unacked(r) .. sndNxt[r] - 1 :
         \E e \in mgr[r].inFlight : Covers(e, s) /\ \A f \in mgr[r].inFlight : Covers(f, s) => f = e
    /\ \A e \in mgr[r].inFlight :
         e.pkt.seq >= Unacked(r) /\ SegmentEndSeq(e.pkt) <= sndNxt[r]

\* While the client may send and has segments left, something of its is
\* outstanding: only an ACK resumes sending, so otherwise the rest of the
\* message would never leave.
NoStall ==
  state["client"] = "ESTABLISHED" /\ nextSeg <= Len(segments)
    => mgr["client"].inFlight # {}

\* One past the last byte the server's application has been given.
StreamEnd ==
  IF accepted = << >> THEN InitialSeq["client"] + 1
  ELSE accepted[Len(accepted)].seq + accepted[Len(accepted)].len

\* The server may acknowledge up to a: what its application has been given, or
\* all the client sent, FIN included.
Vouched(a) ==
  \/ a <= StreamEnd
  \/ state["client"] \notin {"SYN_SENT", "ESTABLISHED"} /\ a = sndNxt["client"]

\* On the wire and in the sender's books, nobody acknowledges more than its
\* recv_next_seq, and nobody receives what was not sent.  recv_next_seq itself
\* does not say that data arrived, because a FIN sets it (NothingSkipped); but
\* no ACK other than that of the FIN, which covers all there is, covers a byte
\* the server's application was not given.
AcksAreTrue ==
  /\ \A r \in Roles : rcvNxt[Peer(r)] <= sndNxt[r] /\ mgr[r].lastAck <= rcvNxt[Peer(r)]
  /\ \A w \in wire : w.pkt.ack <= rcvNxt[w.pkt.src]
  /\ Vouched(mgr["client"].lastAck)
  /\ \A w \in wire : w.pkt.src = "server" => Vouched(w.pkt.ack)

\* What the server takes is the client's byte stream: every byte once, in
\* order, none left out - and, until the client sends its FIN, exactly what
\* recv_next_seq says was received.
StreamIntact ==
  /\ accepted # << >> => accepted[1].seq = InitialSeq["client"] + 1
  /\ \A i \in 1 .. Len(accepted) - 1 :
       accepted[i + 1].seq = accepted[i].seq + accepted[i].len
  /\ started /\ state["server"] # "LISTEN" /\ state["client"] \in {"SYN_SENT", "ESTABLISHED"}
       => rcvNxt["server"] = StreamEnd

\* An idle scheduler means that both sides have had everything acknowledged.
Idle == wire = {} /\ timers = {}
IdleMeansAcked ==
  Idle => \A r \in Roles : mgr[r].inFlight = {} /\ (sndNxt[r] > 0 => Unacked(r) = sndNxt[r])

\* Where one endpoint may be, given the other: the client is established only
\* after the server has answered its SYN, the server starts to close only after
\* the client, and the client leaves the closing handshake only after the
\* server has entered it.
StatePairs ==
  LET c == state["client"]  s == state["server"]
  IN  /\ c = "SYN_SENT" => s \in {"LISTEN", "SYN_RECEIVED"}
      /\ c \in {"ESTABLISHED", "FIN_WAIT_1", "FIN_WAIT_2"} => s # "LISTEN"
      /\ c = "ESTABLISHED" => s \in {"SYN_RECEIVED", "ESTABLISHED"}
      /\ c \in {"CLOSING", "TIME_WAIT"} => s \in {"LAST_ACK", "CLOSED"}
      /\ started /\ c = "CLOSED" => s \in {"LAST_ACK", "CLOSED"}
      /\ s \in {"CLOSED", "LISTEN", "SYN_RECEIVED", "ESTABLISHED", "LAST_ACK"}

\* The server may be CLOSED before the client has its FIN, because any pure ACK
\* takes it there, the late answer to a copy of the SYN-ACK for one.  It does no
\* harm: as long as the client waits for that FIN the server tracks it and goes
\* on resending it, CLOSED or not.
StatesAgree ==
  /\ StatePairs
  /\ state["client"] \in {"FIN_WAIT_1", "FIN_WAIT_2"} /\ state["server"] \in {"LAST_ACK", "CLOSED"}
       => \E e \in mgr["server"].inFlight : e.pkt.kind = "FIN"

\* TIME_WAIT always has its expiry scheduled, so the client cannot be stuck
\* in it.
TimeWaitEnds ==
  \A r \in Roles : state[r] = "TIME_WAIT" =>
    \E t \in timers : t.kind = "time_wait_expiry" /\ t.role = r

\* connection_established is published once, when the server gets there, and
\* connection_closed once, by whichever side closes last.
AnnouncedOnce ==
  /\ announced.established =
       IF ~started \/ state["server"] \in {"LISTEN", "SYN_RECEIVED"} THEN 0 ELSE 1
  /\ announced.closed = IF started /\ BothClosed(state) THEN 1 ELSE 0

\* In every controller the phase tells where the window stands (see PhaseFits).
PhaseMatchesWindow ==
  \A r \in Roles : PhaseFits(cong[r], ManagerConfig.initialCwnd, ManagerConfig.initialSsthresh)

\* Acknowledged and expected sequence numbers never move back, whatever
\* order packets arrive in.
NeverRecede ==
  [][\A r \in Roles : /\ rcvNxt'[r] >= rcvNxt[r]
                      /\ sndUna'[r] >= sndUna[r]
                      /\ mgr'[r].lastAck >= mgr[r].lastAck]_vars

\* New data never takes the packets in flight beyond the congestion window
\* as it stands after the step.
WindowRespected ==
  [][(\E e \in mgr'["client"].inFlight :
        e.pkt.kind = "DATA" /\ e.pkt.seq >= sndNxt["client"])
     => Cardinality(mgr'["client"].inFlight) <= Window(cong'["client"])]_vars

-----------------------------------------------------------------------------
(* What the documentation, comments and tests of the repository say of a    *)
(* session and the code does not do.  Each has a run that refutes it.       *)

\* congestion_controller.py: "The ACK that finally covers the retransmitted
\* segment deflates the window back to ssthresh and exits recovery", so an
\* endpoint with everything acknowledged is not in recovery.
RecoveryEnds ==
  \A r \in Roles : cong[r].phase = "FAST_RECOVERY" => mgr[r].inFlight # {}

\* "Max retries exceeded for segment ...; giving up": while the server is in
\* LISTEN all transmissions are of the SYN, the first and its retries.
RetryLimit ==
  state["server"] = "LISTEN" => txCount <= 1 + ManagerConfig.maxRetries

\* "the server always closes passively (immediately answering an active FIN from
\* the client)": at rest, a server that has received the client's FIN has sent
\* its own.
FinAnswered ==
  Idle /\ state["client"] \notin {"CLOSED", "SYN_SENT", "ESTABLISHED"}
       /\ rcvNxt["server"] = sndNxt["client"]
    => state["server"] \in {"LAST_ACK", "CLOSED"}

\* "recv_next_seq advancing by the full message length, which only happens if
\* every segment arrived in order": apart from the FIN's own number, nothing
\* is counted as received that was not handed over.
NothingSkipped ==
  started /\ state["server"] # "LISTEN" => rcvNxt["server"] <= StreamEnd + 1

\* "live network/TCP config updates mid-run", RTO among them: what is sent
\* from now on times out after the configured time.
RtoFollowsConfig ==
  [][\A r \in Roles : \A e \in mgr'[r].inFlight \ mgr[r].inFlight :
       e.deadline = now' + tcpConfig'.rto]_vars
=============================================================================
