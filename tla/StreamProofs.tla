----------------------------- MODULE StreamProofs -----------------------------
(***************************************************************************)
(* What the server's application is given is the client's byte stream, the *)
(* server acknowledges nothing else, and the session implements            *)
(* ReliableStream: StreamIntact, AcksAreTrue and the refinement            *)
(* ImplementsStream as theorems, for all configurations, delays, message   *)
(* lengths and bounds.                                                     *)
(*                                                                         *)
(* recv_next_seq alone does not say what was handed over, because a FIN    *)
(* moves it past data that never came.  So the invariant keeps both: the   *)
(* end of what was handed over never passes what the client has sent, and  *)
(* recv_next_seq is either that end or, after the FIN, one past all of it, *)
(* where no data packet starts.                                            *)
(***************************************************************************)
EXTENDS StreamRefinement, ConnectionProofs

Chunks == Seq([seq : Nat, len : Nat])

\* Non-empty chunks, each starting where the one before ended.
Contiguous(d) ==
  /\ d # << >> => d[1].seq = FirstByte
  /\ \A i \in 1 .. Len(d) : d[i].len > 0
  /\ \A i \in 1 .. Len(d) - 1 : d[i + 1].seq = d[i].seq + d[i].len

StreamInv ==
  /\ Contiguous(accepted)
  /\ ~Opened("server") => accepted = << >>
  /\ Opened("server") =>
       /\ StreamEnd <= DataEnd("client")
       /\ \/ rcvNxt["server"] = StreamEnd
          \/ Finished("client") /\ rcvNxt["server"] = sndNxt["client"]
  /\ Finished("server") => Finished("client") /\ rcvNxt["server"] = sndNxt["client"]

-----------------------------------------------------------------------------
(* The stream.                                                              *)

LEMMA EndType ==
  ASSUME NEW d \in Chunks
  PROVE  Stream!End(d) \in Nat
  <1>1. FirstByte \in Nat
    BY SessionAssumption DEF FirstByte, Roles
  <1>2. CASE d = << >>
    BY <1>1, <1>2 DEF Stream!End
  <1>3. CASE d # << >>
    <2>1. Len(d) \in 1 .. Len(d)
      BY <1>3 DEF Chunks
    <2>2. d[Len(d)] \in [seq : Nat, len : Nat]
      BY <2>1, ElementOfSeq DEF Chunks
    <2> QED
      BY <1>3, <2>2 DEF Stream!End
  <1> QED
    BY <1>2, <1>3

LEMMA StreamEndIsEnd == StreamEnd = Stream!End(accepted)
  BY DEF StreamEnd, Stream!End, FirstByte

\* One more chunk at the end keeps the stream contiguous.
LEMMA AppendChunk ==
  ASSUME NEW d \in Chunks, Contiguous(d), NEW s \in Nat, s = Stream!End(d),
         NEW n \in Nat, n > 0
  PROVE  /\ Contiguous(Append(d, [seq |-> s, len |-> n]))
         /\ Stream!End(Append(d, [seq |-> s, len |-> n])) = s + n
  <1> DEFINE c == [seq |-> s, len |-> n]
             e == Append(d, c)
  <1>a. c \in [seq : Nat, len : Nat] /\ c.seq = s /\ c.len = n
    OBVIOUS
  <1> HIDE DEF c
  <1>b. /\ Len(d) \in Nat /\ e \in Chunks /\ Len(e) = Len(d) + 1
        /\ e[Len(d) + 1] = c
    BY <1>a DEF Chunks
  <1>c. \A i \in 1 .. Len(d) : e[i] = d[i]
    BY <1>a DEF Chunks
  <1> HIDE DEF e
  <1>d. e # << >>
    BY <1>b DEF Chunks
  <1>1. /\ c \in [seq : Nat, len : Nat] /\ c.seq = s /\ c.len = n
        /\ Len(d) \in Nat /\ e \in Chunks /\ e # << >> /\ Len(e) = Len(d) + 1
        /\ e[Len(d) + 1] = c /\ \A i \in 1 .. Len(d) : e[i] = d[i]
    BY <1>a, <1>b, <1>c, <1>d
  <1>2. d = << >> <=> Len(d) = 0
    BY DEF Chunks
  <1>3. Stream!End(e) = s + n
    BY <1>1 DEF Stream!End
  <1>4. e[1].seq = FirstByte
    <2>1. CASE d = << >>
      <3>1. s = FirstByte /\ e[1] = c
        BY <1>1, <1>2, <2>1 DEF Stream!End
      <3> QED
        BY <1>1, <3>1
    <2>2. CASE d # << >>
      <3>1. 1 \in 1 .. Len(d)
        BY <1>1, <1>2, <2>2
      <3> QED
        BY <1>1, <2>2, <3>1 DEF Contiguous
    <2> QED
      BY <2>1, <2>2
  <1>5. \A i \in 1 .. Len(e) : e[i].len > 0
    <2> SUFFICES ASSUME NEW i \in 1 .. Len(e) PROVE e[i].len > 0
      OBVIOUS
    <2>1. CASE i = Len(d) + 1
      BY <1>1, <2>1
    <2>2. CASE i # Len(d) + 1
      <3>1. i \in 1 .. Len(d)
        BY <1>1, <2>2
      <3> QED
        BY <1>1, <3>1 DEF Contiguous
    <2> QED
      BY <2>1, <2>2
  <1>6. \A i \in 1 .. Len(e) - 1 : e[i + 1].seq = e[i].seq + e[i].len
    <2> SUFFICES ASSUME NEW i \in 1 .. Len(d) PROVE e[i + 1].seq = e[i].seq + e[i].len
      BY <1>1
    <2>1. CASE i = Len(d)
      <3>1. d # << >> /\ e[i] = d[Len(d)] /\ e[i + 1] = c
        BY <1>1, <1>2, <2>1
      <3> QED
        BY <1>1, <3>1 DEF Stream!End
    <2>2. CASE i # Len(d)
      <3>1. i \in 1 .. Len(d) - 1 /\ i + 1 \in 1 .. Len(d)
        BY <1>1, <2>2
      <3>2. e[i] = d[i] /\ e[i + 1] = d[i + 1]
        BY <1>1, <3>1
      <3> QED
        BY <3>1, <3>2 DEF Contiguous
    <2> QED
      BY <2>1, <2>2
  <1> QED
    BY <1>3, <1>4, <1>5, <1>6 DEF Contiguous, c, e

\* The types the stream's steps start from and end in.
LEMMA StreamTypes ==
  ASSUME ConnInv, ConnInv'
  PROVE  /\ TypeOK /\ "client" \in Roles /\ "server" \in Roles
         /\ accepted \in Chunks /\ StreamEnd \in Nat
         /\ state \in [Roles -> States]
         /\ sndNxt \in [Roles -> Nat] /\ rcvNxt \in [Roles -> Nat]
         /\ sndNxt'["client"] \in Nat /\ rcvNxt'["server"] \in Nat
         /\ DataEnd("client") \in Int /\ DataEnd("client")' \in Int
         /\ FirstByte \in Nat /\ FirstByte = InitialSeq["client"] + 1
         /\ started \in BOOLEAN /\ started' \in BOOLEAN
  <1>1. TypeInv /\ TypeOK /\ TypeOK' /\ "client" \in Roles /\ "server" \in Roles
    BY DEF ConnInv, TimerInv, TypeInv, Roles
  <1>2. /\ accepted \in Chunks /\ state \in [Roles -> States]
        /\ sndNxt \in [Roles -> Nat] /\ rcvNxt \in [Roles -> Nat]
        /\ sndNxt' \in [Roles -> Nat] /\ rcvNxt' \in [Roles -> Nat]
        /\ started \in BOOLEAN /\ started' \in BOOLEAN
    BY <1>1 DEF TypeOK, Chunks
  <1>3. StreamEnd \in Nat
    BY <1>2, EndType, StreamEndIsEnd
  <1>4. FirstByte \in Nat /\ FirstByte = InitialSeq["client"] + 1
    BY <1>1, SessionAssumption DEF FirstByte
  <1>5. sndNxt["client"] \in Nat /\ sndNxt'["client"] \in Nat
        /\ rcvNxt'["server"] \in Nat
    BY <1>1, <1>2
  <1> QED
    BY <1>1, <1>2, <1>3, <1>4, <1>5 DEF DataEnd

-----------------------------------------------------------------------------
(* The invariant.                                                           *)

\* A step that hands nothing over and leaves the server's side of the opening
\* and of the FIN alone.
LEMMA StreamKept ==
  ASSUME ConnInv, ConnInv', Forward, StreamInv,
         accepted' = accepted, rcvNxt'["server"] = rcvNxt["server"],
         Opened("server")' => Opened("server"), Finished("server")' => Finished("server")
  PROVE  StreamInv'
  <1>1. StreamEnd' = StreamEnd
    BY DEF StreamEnd
  <1>2. Contiguous(accepted)'
    BY DEF StreamInv, Contiguous, FirstByte
  <1>3. /\ Opened("server") => Opened("server")'
        /\ Finished("client") => Finished("client")' /\ sndNxt'["client"] = sndNxt["client"]
        /\ DataEnd("client")' >= DataEnd("client")
    BY DEF Forward, Roles
  <1>4. StreamEnd <= DataEnd("client") => StreamEnd <= DataEnd("client")'
    BY <1>3, StreamTypes
  <1> QED
    BY <1>1, <1>2, <1>3, <1>4 DEF StreamInv

LEMMA DeliverSynStream ==
  ASSUME ConnInv, ConnInv', Forward, StreamInv, DeliverSyn
  PROVE  StreamInv'
  <1>type. /\ "client" \in Roles /\ "server" \in Roles
           /\ state \in [Roles -> States]
           /\ sndNxt \in [Roles -> Nat] /\ rcvNxt \in [Roles -> Nat]
           /\ FirstByte \in Nat /\ FirstByte = InitialSeq["client"] + 1
    BY StreamTypes
  <1>1. PICK w \in wire :
          /\ w.pkt.kind = "SYN"
          /\ IF state["server"] = "LISTEN"
             THEN /\ state' = [state EXCEPT !["server"] = "SYN_RECEIVED"]
                  /\ rcvNxt' = [rcvNxt EXCEPT !["server"] = w.pkt.seq + 1]
                  /\ sndNxt' = [sndNxt EXCEPT !["server"] = InitialSeq["server"] + 1]
             ELSE UNCHANGED <<state, rcvNxt, sndNxt>>
    BY Triggered DEF DeliverSyn, Delivering
  <1>2. accepted' = accepted /\ started' = started
    BY DEF DeliverSyn
  <1>3. CASE state["server"] # "LISTEN"
    <2>1. state' = state /\ rcvNxt' = rcvNxt
      BY <1>1, <1>3
    <2> QED
      BY <1>2, <2>1, StreamKept DEF Opened, Finished
  <1>4. CASE state["server"] = "LISTEN"
    <2>1. w.pkt.seq + 1 = FirstByte /\ started
      BY <1>1, <1>type DEF ConnInv, Packets, PacketOK
    <2>2. /\ state'["server"] = "SYN_RECEIVED" /\ state'["client"] = state["client"]
          /\ rcvNxt'["server"] = FirstByte /\ sndNxt'["client"] = sndNxt["client"]
      BY <1>1, <1>4, <1>type, <2>1
    <2>3. accepted' = << >> /\ StreamEnd' = FirstByte
      BY <1>2, <1>4, <1>type DEF StreamInv, Opened, StreamEnd
    <2>4. state["client"] = "SYN_SENT" /\ sndNxt["client"] > InitialSeq["client"]
      BY <1>4, <2>1 DEF ConnInv, StatePairs, ClientStates, Numbers
    <2>5. DataEnd("client")' >= FirstByte
      BY <1>2, <1>type, <2>1, <2>2, <2>4, SessionAssumption DEF DataEnd, Finished
    <2>6. Opened("server")' /\ ~Finished("server")'
      BY <1>2, <2>1, <2>2 DEF Opened, Finished
    <2>7. Contiguous(accepted)'
      BY <2>3 DEF Contiguous
    <2> QED
      BY <2>2, <2>3, <2>5, <2>6, <2>7 DEF StreamInv
  <1> QED
    BY <1>3, <1>4

\* In-order data is the next piece of the stream: were the FIN already counted,
\* no data packet could start where the server expects one.
LEMMA InOrderData ==
  ASSUME ConnInv, ConnInv', StreamInv, NEW w \in wire,
         w.pkt.kind = "DATA", w.pkt.seq = rcvNxt["server"]
  PROVE  /\ w.pkt.seq = StreamEnd /\ w.pkt.len \in Nat /\ w.pkt.len > 0
         /\ StreamEnd + w.pkt.len <= DataEnd("client")
         /\ Opened("server") /\ ~Finished("server")
  <1>1. w.pkt.seq \in Nat /\ w.pkt.len \in Nat
    BY StreamTypes, DeliveryType
  <1>2. w.pkt.len > 0 /\ w.pkt.seq + w.pkt.len <= DataEnd("client") /\ Opened("client")
    BY DEF ConnInv, Packets, PacketOK
  <1>3. Opened("server")
    <2>1. StatePairs /\ state["client"] \in ClientStates
      BY DEF ConnInv
    <2> QED
      BY <1>2, <2>1 DEF Opened, StatePairs, ClientStates
  <1>4. sndNxt["client"] \in Nat /\ DataEnd("client") \in Int
    BY StreamTypes
  <1>5. rcvNxt["server"] # sndNxt["client"]
    BY <1>1, <1>2, <1>4 DEF DataEnd
  <1> QED
    BY <1>1, <1>2, <1>3, <1>5 DEF StreamInv

\* What delivering data does to the receiver.
LEMMA DataDelivered ==
  ASSUME ConnInv, ConnInv', StreamInv, DeliverData
  PROVE  /\ UNCHANGED <<started, state, sndNxt>>
         /\ \/ accepted' = accepted /\ rcvNxt' = rcvNxt
            \/ \E len \in Nat :
                 /\ len > 0 /\ StreamEnd + len <= DataEnd("client")
                 /\ accepted' = Append(accepted, [seq |-> StreamEnd, len |-> len])
                 /\ rcvNxt["server"] = StreamEnd /\ rcvNxt'["server"] = StreamEnd + len
                 /\ Opened("server") /\ ~Finished("server")
  <1>type. "server" \in Roles /\ rcvNxt \in [Roles -> Nat]
    BY StreamTypes
  <1>1. PICK w \in wire :
          LET r == Peer(w.pkt.src)
          IN  /\ w.pkt.kind = "DATA"
              /\ rcvNxt' = [rcvNxt EXCEPT ![r] = IF w.pkt.seq = rcvNxt[r]
                                                THEN rcvNxt[r] + w.pkt.len ELSE rcvNxt[r]]
              /\ accepted' = IF w.pkt.seq = rcvNxt[r]
                             THEN Append(accepted, [seq |-> w.pkt.seq, len |-> w.pkt.len])
                             ELSE accepted
    BY DEF DeliverData, Delivering, InOrder
  <1>2. UNCHANGED <<started, state, sndNxt>>
    BY DEF DeliverData
  <1>3. Peer(w.pkt.src) = "server"
    BY <1>1 DEF ConnInv, Packets, PacketOK, Peer
  <1>4. CASE w.pkt.seq = rcvNxt["server"]
    <2>1. /\ rcvNxt'["server"] = rcvNxt["server"] + w.pkt.len
          /\ accepted' = Append(accepted, [seq |-> w.pkt.seq, len |-> w.pkt.len])
      BY <1>1, <1>3, <1>4, <1>type
    <2> QED
      BY <1>1, <1>2, <1>4, <2>1, InOrderData
  <1>5. CASE w.pkt.seq # rcvNxt["server"]
    BY <1>1, <1>2, <1>3, <1>5, <1>type
  <1> QED
    BY <1>4, <1>5

LEMMA DeliverDataStream ==
  ASSUME ConnInv, ConnInv', Forward, StreamInv, DeliverData
  PROVE  StreamInv'
  <1>1. UNCHANGED <<started, state, sndNxt>>
    BY DataDelivered
  <1>2. CASE accepted' = accepted /\ rcvNxt' = rcvNxt
    BY <1>1, <1>2, StreamKept DEF Opened, Finished
  <1>3. CASE ~(accepted' = accepted /\ rcvNxt' = rcvNxt)
    <2>1. PICK len \in Nat :
            /\ len > 0 /\ StreamEnd + len <= DataEnd("client")
            /\ accepted' = Append(accepted, [seq |-> StreamEnd, len |-> len])
            /\ rcvNxt'["server"] = StreamEnd + len
            /\ Opened("server") /\ ~Finished("server")
      BY <1>3, DataDelivered
    <2>2. StreamEnd \in Nat /\ accepted \in Chunks /\ StreamEnd = Stream!End(accepted)
          /\ Contiguous(accepted)
      BY StreamTypes, StreamEndIsEnd DEF StreamInv
    <2> DEFINE d == accepted
               s == StreamEnd
    <2>3. Contiguous(Append(d, [seq |-> s, len |-> len]))
          /\ Stream!End(Append(d, [seq |-> s, len |-> len])) = s + len
      <3> HIDE DEF d, s
      <3>1. d \in Chunks /\ Contiguous(d) /\ s \in Nat /\ s = Stream!End(d)
        BY <2>2 DEF d, s
      <3> QED
        BY <2>1, <3>1, AppendChunk
    <2>4. Contiguous(accepted')
      BY <2>1, <2>3
    <2>5. StreamEnd' = StreamEnd + len
      <3>1. StreamEnd' = Stream!End(accepted')
        BY DEF StreamEnd, Stream!End, FirstByte
      <3> QED
        BY <2>1, <2>3, <3>1
    <2>6. DataEnd("client")' = DataEnd("client") /\ Opened("server")' /\ ~Finished("server")'
      BY <1>1, <2>1 DEF DataEnd, Opened, Finished
    <2>7. Contiguous(accepted)'
      BY <2>4 DEF Contiguous, FirstByte
    <2> QED
      BY <2>1, <2>5, <2>6, <2>7 DEF StreamInv
  <1> QED
    BY <1>2, <1>3

\* What delivering a FIN does: the receiver expects nothing more, and the
\* server answers with its own.
LEMMA FinDelivered ==
  ASSUME ConnInv, ConnInv', DeliverFin
  PROVE  \E r \in Roles :
           /\ Finished(Peer(r)) /\ UNCHANGED <<started, accepted>>
           /\ rcvNxt' = [rcvNxt EXCEPT ![r] = sndNxt[Peer(r)]]
           /\ \A q \in Roles \ {r} : state'[q] = state[q] /\ sndNxt'[q] = sndNxt[q]
           /\ state[r] = "ESTABLISHED" => r = "server" /\ state'[r] = "LAST_ACK"
           /\ state[r] = "FIN_WAIT_1" => state'[r] = "CLOSING"
           /\ state[r] = "FIN_WAIT_2" => state'[r] = "TIME_WAIT"
           /\ state[r] \notin {"ESTABLISHED", "FIN_WAIT_1", "FIN_WAIT_2"} => state'[r] = state[r]
           /\ r = "client" => sndNxt'[r] = sndNxt[r]
  <1>type. /\ "client" \in Roles /\ "server" \in Roles
           /\ (\A r \in Roles : r = "client" \/ r = "server")
           /\ state \in [Roles -> States]
           /\ sndNxt \in [Roles -> Nat] /\ rcvNxt \in [Roles -> Nat]
    BY StreamTypes DEF Roles
  <1>1. PICK w \in wire :
          LET p == w.pkt
              r == Peer(p.src)
          IN  /\ p.kind = "FIN"
              /\ rcvNxt' = [rcvNxt EXCEPT ![r] = p.seq + 1]
              /\ state' = [state EXCEPT ![r] =
                             IF state[r] = "ESTABLISHED"
                             THEN Apply(Apply(state[r], "RECV_FIN"), "APP_CLOSE")
                             ELSE IF CanApply(@, "RECV_FIN") THEN Apply(state[r], "RECV_FIN")
                                  ELSE @]
              /\ sndNxt' = IF state[r] = "ESTABLISHED"
                           THEN [sndNxt EXCEPT ![r] = @ + 1] ELSE sndNxt
    BY DEF DeliverFin, Delivering
  <1>2. UNCHANGED <<started, accepted>>
    BY DEF DeliverFin
  <1> DEFINE r == Peer(w.pkt.src)
  <1>3. w.pkt.src \in Roles /\ r \in Roles /\ Peer(r) = w.pkt.src
    <2>1. w.pkt \in Packet
      BY StreamTypes, DeliveryType
    <2> QED
      BY <2>1 DEF Packet, Roles, Peer
  <1>4. Finished(Peer(r)) /\ w.pkt.seq + 1 = sndNxt[Peer(r)]
    BY <1>1, <1>3 DEF ConnInv, Packets, PacketOK
  <1> HIDE DEF r
  <1>5. /\ rcvNxt' = [rcvNxt EXCEPT ![r] = sndNxt[Peer(r)]]
        /\ \A q \in Roles \ {r} : state'[q] = state[q] /\ sndNxt'[q] = sndNxt[q]
        /\ state[r] # "ESTABLISHED" => sndNxt' = sndNxt
    BY <1>1, <1>3, <1>4, <1>type DEF r
  <1>6. state'[r] = IF state[r] = "ESTABLISHED"
                    THEN Apply(Apply(state[r], "RECV_FIN"), "APP_CLOSE")
                    ELSE IF CanApply(state[r], "RECV_FIN") THEN Apply(state[r], "RECV_FIN")
                         ELSE state[r]
    BY <1>1, <1>3, <1>type DEF r
  <1>7. /\ state[r] = "ESTABLISHED" => state'[r] = "LAST_ACK"
        /\ state[r] = "FIN_WAIT_1" => state'[r] = "CLOSING"
        /\ state[r] = "FIN_WAIT_2" => state'[r] = "TIME_WAIT"
        /\ state[r] \notin {"ESTABLISHED", "FIN_WAIT_1", "FIN_WAIT_2"} => state'[r] = state[r]
    BY <1>6, Triggered
  <1>8. state[r] = "ESTABLISHED" => r = "server"
    <2>1. r = "client" => Finished("server")
      BY <1>4 DEF Peer
    <2>2. StatePairs
      BY DEF ConnInv
    <2> QED
      BY <1>3, <1>type, <2>1, <2>2 DEF Finished, StatePairs
  <1>9. r = "client" => sndNxt'[r] = sndNxt[r]
    BY <1>5, <1>8
  <1> QED
    BY <1>2, <1>3, <1>4, <1>5, <1>7, <1>8, <1>9

LEMMA DeliverFinStream ==
  ASSUME ConnInv, ConnInv', Forward, StreamInv, DeliverFin
  PROVE  StreamInv'
  <1>type. /\ "client" \in Roles /\ "server" \in Roles
           /\ (\A r \in Roles : r = "client" \/ r = "server")
           /\ rcvNxt \in [Roles -> Nat]
    BY StreamTypes DEF Roles
  <1>1. PICK r \in Roles :
          /\ Finished(Peer(r)) /\ UNCHANGED <<started, accepted>>
          /\ rcvNxt' = [rcvNxt EXCEPT ![r] = sndNxt[Peer(r)]]
          /\ \A q \in Roles \ {r} : state'[q] = state[q] /\ sndNxt'[q] = sndNxt[q]
          /\ state[r] \in {"LISTEN", "SYN_RECEIVED", "CLOSED"} => state'[r] = state[r]
    BY FinDelivered
  <1>2. CASE r = "client"
    <2>1. state'["server"] = state["server"] /\ rcvNxt'["server"] = rcvNxt["server"]
      BY <1>1, <1>2, <1>type
    <2> QED
      BY <1>1, <2>1, StreamKept DEF Opened, Finished
  <1>3. CASE r = "server"
    <2>1. /\ rcvNxt'["server"] = sndNxt["client"] /\ Finished("client")
          /\ state'["client"] = state["client"] /\ sndNxt'["client"] = sndNxt["client"]
      BY <1>1, <1>3, <1>type DEF Peer
    <2>2. Finished("client")' /\ DataEnd("client")' = DataEnd("client")
      BY <1>1, <2>1 DEF Finished, DataEnd
    <2>3. Opened("server") /\ Opened("server")'
      <3>1. StatePairs /\ state["client"] \in ClientStates
        BY DEF ConnInv
      <3>2. Opened("server")
        BY <2>1, <3>1 DEF Finished, Opened, StatePairs, ClientStates
      <3> QED
        BY <1>type, <3>2 DEF Forward
    <2>4. StreamEnd' = StreamEnd /\ Contiguous(accepted)'
      BY <1>1 DEF StreamInv, StreamEnd, Contiguous, FirstByte
    <2> QED
      BY <2>1, <2>2, <2>3, <2>4 DEF StreamInv
  <1> QED
    BY <1>2, <1>3, <1>type


\* The state machines only take steps of an ACK, and stay where they are
\* otherwise: what delivering one does.
LEMMA AckDelivered ==
  ASSUME ConnInv, ConnInv', DeliverAck
  PROVE  \E r \in Roles :
           /\ Opened(Peer(r)) /\ UNCHANGED <<started, accepted, rcvNxt>>
           /\ \A q \in Roles \ {r} : state'[q] = state[q] /\ sndNxt'[q] = sndNxt[q]
           /\ state[r] = "SYN_RECEIVED" => state'[r] = "ESTABLISHED"
           /\ state[r] = "FIN_WAIT_1" => state'[r] = "FIN_WAIT_2"
           /\ state[r] = "CLOSING" => state'[r] = "TIME_WAIT"
           /\ state[r] = "LAST_ACK" => state'[r] = "CLOSED"
           /\ state[r] \notin {"SYN_RECEIVED", "FIN_WAIT_1", "CLOSING", "LAST_ACK"}
                => state' = state
           /\ state["client"] # "ESTABLISHED" => sndNxt' = sndNxt
  <1>type. /\ "client" \in Roles /\ "server" \in Roles
           /\ (\A r \in Roles : r = "client" \/ r = "server")
           /\ state \in [Roles -> States] /\ sndNxt \in [Roles -> Nat]
    BY StreamTypes DEF Roles
  <1>1. PICK w \in wire :
          LET p == w.pkt
              r == Peer(p.src)
          IN  /\ p.kind = "ACK"
              /\ AckBookkeeping(r, p)
              /\ state' = IF CanApply(state[r], "RECV_ACK")
                          THEN [state EXCEPT ![r] = Apply(@, "RECV_ACK")] ELSE state
    BY DEF DeliverAck, Delivering
  <1>2. UNCHANGED <<started, accepted, rcvNxt>>
    BY DEF DeliverAck
  <1> DEFINE r == Peer(w.pkt.src)
  <1>3. w.pkt \in Packet /\ r \in Roles /\ Peer(r) = w.pkt.src
    <2>1. w.pkt \in Packet
      BY StreamTypes, DeliveryType
    <2> QED
      BY <2>1 DEF Packet, Roles, Peer
  <1>4. Opened(Peer(r))
    BY <1>1, <1>3 DEF ConnInv, Packets, PacketOK
  <1> HIDE DEF r
  <1>5. state' = IF state[r] \in {"SYN_RECEIVED", "FIN_WAIT_1", "CLOSING", "LAST_ACK"}
                 THEN [state EXCEPT ![r] = Apply(@, "RECV_ACK")] ELSE state
    BY <1>1, Triggered DEF r
  <1>6. /\ state[r] = "SYN_RECEIVED" => state'[r] = "ESTABLISHED"
        /\ state[r] = "FIN_WAIT_1" => state'[r] = "FIN_WAIT_2"
        /\ state[r] = "CLOSING" => state'[r] = "TIME_WAIT"
        /\ state[r] = "LAST_ACK" => state'[r] = "CLOSED"
        /\ state[r] \notin {"SYN_RECEIVED", "FIN_WAIT_1", "CLOSING", "LAST_ACK"}
             => state' = state
        /\ \A q \in Roles \ {r} : state'[q] = state[q]
    BY <1>3, <1>5, <1>type, Triggered
  <1>7. /\ sndNxt'["server"] = sndNxt["server"]
        /\ state["client"] # "ESTABLISHED" => sndNxt' = sndNxt
    BY <1>1, <1>3, AckStepNumbers DEF r
  <1>8. r = "server" => sndNxt' = sndNxt
    BY <1>1 DEF AckBookkeeping, Resumes, r
  <1> QED
    BY <1>2, <1>3, <1>4, <1>6, <1>7, <1>8, <1>type

LEMMA DeliverAckStream ==
  ASSUME ConnInv, ConnInv', Forward, StreamInv, DeliverAck
  PROVE  StreamInv'
  <1>1. PICK r \in Roles :
          /\ UNCHANGED <<started, accepted, rcvNxt>>
          /\ \A q \in Roles \ {r} : state'[q] = state[q]
          /\ state[r] = "SYN_RECEIVED" => state'[r] = "ESTABLISHED"
          /\ state[r] = "FIN_WAIT_1" => state'[r] = "FIN_WAIT_2"
          /\ state[r] = "CLOSING" => state'[r] = "TIME_WAIT"
          /\ state[r] = "LAST_ACK" => state'[r] = "CLOSED"
          /\ state[r] \notin {"SYN_RECEIVED", "FIN_WAIT_1", "CLOSING", "LAST_ACK"}
               => state' = state
    BY AckDelivered
  <1>2. state'["server"] = "LISTEN" <=> state["server"] = "LISTEN"
    <2>1. state["server"] = "LISTEN" => state'["server"] = "LISTEN"
      BY <1>1, StreamTypes
    <2>2. StatePairs /\ StatePairs'
      BY DEF ConnInv
    <2> QED
      BY <1>1, <2>1, <2>2, StreamTypes DEF StatePairs
  <1>3. state'["server"] \in {"LAST_ACK", "CLOSED"} => state["server"] \in {"LAST_ACK", "CLOSED"}
    <2>1. StatePairs
      BY DEF ConnInv
    <2> QED
      BY <1>1, <2>1, StreamTypes DEF StatePairs
  <1> QED
    BY <1>1, <1>2, <1>3, StreamKept DEF Opened, Finished

LEMMA InitStreamInv == Init => StreamInv
  BY DEF Init, StreamInv, Contiguous, Opened, Finished

LEMMA StepStreamInv ==
  ASSUME ConnInv, ConnInv', Forward, StreamInv, [Next]_vars
  PROVE  StreamInv'
  <1>type. "client" \in Roles /\ "server" \in Roles /\ state \in [Roles -> States]
    BY StreamTypes
  <1>1. CASE Start
    <2>1. /\ state'["server"] = "LISTEN" /\ started' /\ ~started
          /\ accepted' = accepted /\ rcvNxt' = rcvNxt
      <3>1. ~started /\ TypeInv
        BY <1>1 DEF Start, ConnInv, TimerInv
      <3>2. state["server"] = "CLOSED"
        BY <1>type, <3>1 DEF TypeInv
      <3> QED
        BY <1>1, <3>1, <3>2, Triggered DEF Start
    <2> QED
      BY <2>1, StreamKept DEF Opened, Finished
  <1>2. CASE SendMessage \/ UpdateTcpConfig \/ RtoCheck \/ UNCHANGED vars
    <2>1. UNCHANGED <<started, state, accepted, rcvNxt>>
      BY <1>2 DEF SendMessage, Send, UpdateTcpConfig, RtoCheck, vars, endpoints
    <2> QED
      BY <2>1, StreamKept DEF Opened, Finished
  <1>3. CASE Close
    <2>1. /\ state'["server"] = state["server"]
          /\ UNCHANGED <<started, accepted, rcvNxt>>
      BY <1>3, <1>type DEF Close
    <2> QED
      BY <2>1, StreamKept DEF Opened, Finished
  <1>4. CASE DeliverSynAck
    <2>1. PICK w \in wire :
            LET opening == CanApply(state["client"], "RECV_SYN_ACK")
                next == IF opening THEN w.pkt.seq + 1 ELSE rcvNxt["client"]
            IN  /\ state' = IF opening
                            THEN [state EXCEPT !["client"] = Apply(@, "RECV_SYN_ACK")] ELSE state
                /\ rcvNxt' = [rcvNxt EXCEPT !["client"] = next]
      BY <1>4 DEF DeliverSynAck
    <2>2. /\ state'["server"] = state["server"] /\ rcvNxt'["server"] = rcvNxt["server"]
          /\ UNCHANGED <<started, accepted>>
      BY <1>4, <2>1, StreamTypes DEF DeliverSynAck
    <2> QED
      BY <2>2, StreamKept DEF Opened, Finished
  <1>5. CASE TimeWaitExpiry
    <2>1. PICK x \in timers :
            state' = IF state[x.role] = "TIME_WAIT"
                     THEN [state EXCEPT ![x.role] = Apply(@, "TIME_WAIT_EXPIRED")] ELSE state
      BY <1>5 DEF TimeWaitExpiry
    <2>2. state'["server"] = state["server"]
      <3>1. state["server"] # "TIME_WAIT"
        BY DEF ConnInv, StatePairs
      <3> QED
        BY <1>type, <2>1, <3>1
    <2> QED
      BY <1>5, <2>2, StreamKept DEF TimeWaitExpiry, Opened, Finished
  <1> QED
    BY <1>1, <1>2, <1>3, <1>4, <1>5, DeliverSynStream, DeliverAckStream, DeliverFinStream,
       DeliverDataStream DEF Next, Command, ProcessNext

\* Every byte the server's application is given is the next one of the stream,
\* none left out and none repeated, whatever is lost, late, resent or
\* overtaken, and until the client's FIN recv_next_seq counts exactly those
\* bytes (session.py _handle_data_segment, _handle_fin).
THEOREM StreamInvariant == Spec => []StreamIntact
  <1>1. StreamInv /\ ConnInv => StreamIntact
    BY DEF StreamInv, StreamIntact, Contiguous, FirstByte, Opened, Finished
  <1>2. ConnInv /\ StreamInv /\ [Next]_vars => ConnInv' /\ StreamInv'
    BY StepConnInv, StepStreamInv
  <1>3. Init => ConnInv /\ StreamInv
    BY InitConnInv, InitStreamInv
  <1> QED
    BY <1>1, <1>2, <1>3, PTL DEF Spec

-----------------------------------------------------------------------------
(* The server's acknowledgements.  They carry recv_next_seq as it was when  *)
(* they were sent, which by StreamInv is the end of what was handed over or *)
(* the end of everything; both stay true, and resent packets repeat them.   *)

Honest(p) == p.src = "server" => Vouched(p.ack)

HonestPackets ==
  /\ \A w \in wire : Honest(w.pkt)
  /\ \A r \in Roles : \A e \in mgr[r].inFlight : Honest(e.pkt)

AckInv == HonestPackets /\ Vouched(mgr["client"].lastAck)

\* What was handed over stays handed over.
LEMMA StreamEndGrows ==
  ASSUME ConnInv, ConnInv', StreamInv, [Next]_vars
  PROVE  StreamEnd' \in Int /\ StreamEnd' >= StreamEnd
  <1>1. StreamEnd \in Nat /\ accepted \in Chunks /\ StreamEnd = Stream!End(accepted)
        /\ Contiguous(accepted)
    BY StreamTypes, StreamEndIsEnd DEF StreamInv
  <1>2. CASE accepted' = accepted
    BY <1>1, <1>2 DEF StreamEnd
  <1>3. CASE accepted' # accepted
    <2>1. DeliverData
      BY <1>3 DEF Next, Command, ProcessNext, Start, SendMessage, Send, Close, UpdateTcpConfig,
         DeliverSyn, DeliverSynAck, DeliverAck, DeliverFin, RtoCheck, TimeWaitExpiry,
         vars, endpoints
    <2>2. PICK len \in Nat :
            len > 0 /\ accepted' = Append(accepted, [seq |-> StreamEnd, len |-> len])
      BY <1>3, <2>1, DataDelivered
    <2> DEFINE d == accepted
               s == StreamEnd
    <2>3. Stream!End(Append(d, [seq |-> s, len |-> len])) = s + len
      <3> HIDE DEF d, s
      <3>1. d \in Chunks /\ Contiguous(d) /\ s \in Nat /\ s = Stream!End(d)
        BY <1>1 DEF d, s
      <3> QED
        BY <2>2, <3>1, AppendChunk
    <2>4. StreamEnd' = StreamEnd + len
      <3>1. StreamEnd' = Stream!End(accepted')
        BY DEF StreamEnd, Stream!End, FirstByte
      <3> QED
        BY <2>2, <2>3, <3>1
    <2> QED
      BY <1>1, <2>4
  <1> QED
    BY <1>2, <1>3

\* What may be acknowledged may be acknowledged from then on.
LEMMA VouchedKept ==
  ASSUME ConnInv, ConnInv', Forward, StreamInv, [Next]_vars, NEW a \in Int, Vouched(a)
  PROVE  Vouched(a)'
  <1>1. StreamEnd \in Nat /\ StreamEnd' \in Int /\ StreamEnd' >= StreamEnd
    BY StreamTypes, StreamEndGrows
  <1>2. CASE a <= StreamEnd
    BY <1>1, <1>2 DEF Vouched
  <1>3. CASE ~started
    <2>1. a = 0 \/ a <= StreamEnd
      BY <1>3 DEF Vouched, ConnInv, Numbers
    <2> QED
      BY <1>1, <1>2, <2>1
  <1>4. CASE started /\ ~(a <= StreamEnd)
    <2>1. Finished("client") /\ a = sndNxt["client"]
      BY <1>4 DEF Vouched, Finished
    <2>2. Finished("client")' /\ sndNxt'["client"] = sndNxt["client"]
      BY <2>1 DEF Forward, Roles
    <2> QED
      BY <2>1, <2>2 DEF Vouched, Finished
  <1> QED
    BY <1>2, <1>3, <1>4

\* A step whose packets of the server's are honest leaves only such packets.
LEMMA TransmitHonest ==
  ASSUME TypeInv, HonestPackets, \A a \in Int : Vouched(a) => Vouched(a)',
         NEW r \in Roles, NEW m \in Manager, m.inFlight \subseteq mgr[r].inFlight,
         NEW out, \A p \in out : Honest(p)',
         NEW onWire \in SUBSET wire, NEW armed, NEW t,
         Transmit(r, m, out, onWire, armed, t)
  PROVE  HonestPackets'
  <1> DEFINE tracked == {p \in out : NeedsAckTracking(p)}
             new == {[pkt |-> p, deadline |-> t + ManagerConfig.rto, retries |-> 0] : p \in tracked}
  <1>1. PICK fate \in [out -> Delays \cup {Lost}] :
          /\ mgr' = [mgr EXCEPT ![r] = RegisterSent(m, tracked, t)]
          /\ wire' = onWire \cup {DeliveryEvent(p, t + fate[p]) :
                                    p \in out \ {p \in out : fate[p] = Lost}}
    BY DEF Transmit
  <1>2. RegisterSent(m, tracked, t).inFlight = m.inFlight \cup new
    BY DEF RegisterSent, Manager
  <1>3. mgr \in [Roles -> Manager]
    BY DEF TypeInv, TypeOK
  <1>4. \A e \in new : e.pkt \in out
    OBVIOUS
  <1>5. ASSUME NEW q \in Roles, NEW e \in mgr'[q].inFlight
        PROVE  e \in mgr[q].inFlight \/ e \in new
    <2> HIDE DEF new, tracked
    <2> QED
      BY <1>1, <1>2, <1>3, <1>5
  <1>6. ASSUME NEW p \in Packet, Honest(p) PROVE Honest(p)'
    <2>1. p.ack \in Int
      BY DEF Packet, NoAck
    <2> QED
      BY <1>6, <2>1 DEF Honest
  <1>7. \A q \in Roles : \A e \in mgr'[q].inFlight : Honest(e.pkt)'
    <2> SUFFICES ASSUME NEW q \in Roles, NEW e \in mgr'[q].inFlight PROVE Honest(e.pkt)'
      OBVIOUS
    <2>1. CASE e \in new
      BY <1>4, <2>1
    <2>2. CASE e \in mgr[q].inFlight
      <3>1. Honest(e.pkt) /\ e.pkt \in Packet
        BY <1>3, <2>2 DEF HonestPackets, Manager, Entry
      <3> QED
        BY <1>6, <3>1
    <2> QED
      BY <1>5, <2>1, <2>2
  <1>8. \A w \in wire' : Honest(w.pkt)'
    <2> SUFFICES ASSUME NEW w \in wire' PROVE Honest(w.pkt)'
      OBVIOUS
    <2>1. CASE w \in onWire
      <3>1. Honest(w.pkt) /\ w.pkt \in Packet
        BY <2>1, DeliveryType DEF HonestPackets, TypeInv
      <3> QED
        BY <1>6, <3>1
    <2>2. CASE w \notin onWire
      <3>1. w.pkt \in out
        BY <1>1, <2>2 DEF DeliveryEvent
      <3> QED
        BY <3>1
    <2> QED
      BY <2>1, <2>2
  <1> QED
    BY <1>7, <1>8 DEF HonestPackets

\* A copy acknowledges what its original does.
LEMMA CopyHonest ==
  ASSUME NEW P \in SUBSET Packet, \A p \in P : Honest(p)
  PROVE  \A p \in Copies(P) : Honest(p)
  <1> SUFFICES ASSUME NEW p \in P, NEW i PROVE Honest([p EXCEPT !.id = i])
    BY DEF Copies
  <1> DEFINE q == [p EXCEPT !.id = i]
  <1>1. p \in Packet /\ Honest(p) /\ q.ack = p.ack /\ q.src = p.src
    BY DEF Packet
  <1> HIDE DEF q
  <1>2. Honest(q)
    BY <1>1 DEF Honest
  <1> QED
    BY <1>2 DEF q

\* What ACK bookkeeping sends is honest, and what it keeps was tracked before.
LEMMA AckHonest ==
  ASSUME ConnInv, HonestPackets, NEW r \in Roles, NEW p \in Packet
  PROVE  /\ \A q \in AckedOutput(r, p) : Honest(q) /\ q \in Packet
         /\ AckedManager(r, p) \in Manager
         /\ AckedManager(r, p).inFlight \subseteq mgr[r].inFlight
         /\ AckedManager(r, p).lastAck \in {p.ack, mgr[r].lastAck}
  <1>1. TypeInv /\ mgr[r] \in Manager /\ p.ack \in Nat \cup {NoAck}
    BY DEF ConnInv, TimerInv, TypeInv, TypeOK, Packet
  <1>2. \A e \in mgr[r].inFlight : e.pkt.src = r
    BY DEF ConnInv, TimerInv, Watched
  <1>3. /\ AckedOutput(r, p) \in SUBSET Packet
        /\ AckedManager(r, p) \in Manager
        /\ AckedManager(r, p).inFlight \subseteq mgr[r].inFlight
        /\ \A q \in AckedOutput(r, p) : q.src = r
    BY <1>1, <1>2, AckStepProperties, AckStepSource DEF SendTypes
  <1>4. AckedManager(r, p).lastAck \in {p.ack, mgr[r].lastAck}
    <2>1. OnAck(mgr[r], p.ack) \in Manager
      BY <1>1, OnAckProperties
    <2>2. AckedManager(r, p).lastAck = OnAck(mgr[r], p.ack).lastAck
      BY <2>1, CancelProperties DEF AckedManager
    <2> QED
      BY <1>1, <2>2, OnAckLast
  <1>5. \A q \in AckedOutput(r, p) : Honest(q)
    <2>1. CASE r # "server"
      BY <1>3, <2>1 DEF Honest
    <2>2. CASE r = "server"
      <3> DEFINE target == FastRetransmitTarget(mgr[r], p.ack)
      <3>1. target \in SUBSET Packet /\ target \subseteq {e.pkt : e \in mgr[r].inFlight}
        BY <1>1, FastRetransmitTargetProperties
      <3>2. \A q \in target : Honest(q)
        BY <3>1 DEF HonestPackets
      <3>3. AckedOutput(r, p) = Copies(target)
        BY <2>2 DEF AckedOutput, Resumes
      <3> HIDE DEF target
      <3> QED
        BY <3>1, <3>2, <3>3, CopyHonest
    <2> QED
      BY <2>1, <2>2
  <1> QED
    BY <1>3, <1>4, <1>5

\* A step of r's that sends honest packets and takes at most one of the
\* server's acknowledgements as the client's new lastAck keeps the invariant.
LEMMA AckInvKept ==
  ASSUME ConnInv, ConnInv', Forward, StreamInv, AckInv, [Next]_vars,
         NEW r \in Roles, NEW m \in Manager, m.inFlight \subseteq mgr[r].inFlight,
         r = "client" => \/ m.lastAck = mgr[r].lastAck
                         \/ m.lastAck \in Int /\ Vouched(m.lastAck),
         NEW out, \A p \in out : Honest(p)',
         NEW onWire \in SUBSET wire, NEW armed, NEW t,
         Transmit(r, m, out, onWire, armed, t)
  PROVE  AckInv'
  <1>1. TypeInv /\ mgr["client"].lastAck \in Int /\ "client" \in Roles
    <2>1. TypeInv /\ "client" \in Roles /\ mgr["client"] \in Manager
      BY DEF ConnInv, TimerInv, TypeInv, TypeOK, Roles
    <2> QED
      BY <2>1 DEF Manager, NoAck
  <1>2. \A a \in Int : Vouched(a) => Vouched(a)'
    BY VouchedKept
  <1>3. HonestPackets'
    BY <1>1, <1>2, TransmitHonest DEF AckInv
  <1>4. Vouched(mgr["client"].lastAck)'
    <2>1. mgr'[r].lastAck = m.lastAck /\ \A q \in Roles \ {r} : mgr'[q] = mgr[q]
      BY <1>1, TransmitFrame
    <2>2. PICK a \in Int : mgr'["client"].lastAck = a /\ Vouched(a)
      BY <1>1, <2>1 DEF AckInv
    <2>3. Vouched(a)'
      BY <1>2, <2>2
    <2> QED
      BY <2>2, <2>3 DEF Vouched
  <1> QED
    BY <1>3, <1>4 DEF AckInv

\* A step that touches neither the wire nor the managers.
LEMMA AckInvQuiet ==
  ASSUME ConnInv, ConnInv', Forward, StreamInv, AckInv, [Next]_vars, wire' = wire, mgr' = mgr
  PROVE  AckInv'
  <1>1. /\ mgr \in [Roles -> Manager] /\ mgr["client"].lastAck \in Int
        /\ \A w \in wire : w.pkt \in Packet
    <2>1. TypeOK /\ mgr \in [Roles -> Manager] /\ "client" \in Roles
      BY DEF ConnInv, TimerInv, TypeInv, TypeOK, Roles
    <2>2. mgr["client"].lastAck \in Int
      BY <2>1 DEF Manager, NoAck
    <2> QED
      BY <2>1, <2>2, DeliveryType
  <1>2. ASSUME NEW p \in Packet, Honest(p) PROVE Honest(p)'
    <2>1. p.ack \in Int
      BY DEF Packet, NoAck
    <2> QED
      BY <1>2, <2>1, VouchedKept DEF Honest
  <1>3. \A r \in Roles : \A e \in mgr[r].inFlight : e.pkt \in Packet
    BY <1>1 DEF Manager, Entry
  <1>4. HonestPackets'
    BY <1>1, <1>2, <1>3 DEF AckInv, HonestPackets
  <1>5. Vouched(mgr["client"].lastAck)'
    <2>1. PICK a \in Int : Vouched(a) /\ mgr["client"].lastAck = a /\ mgr'["client"].lastAck = a
      BY <1>1 DEF AckInv
    <2>2. Vouched(a)'
      BY <2>1, VouchedKept
    <2> QED
      BY <2>1, <2>2 DEF Vouched
  <1> QED
    BY <1>4, <1>5 DEF AckInv

\* What the client sends by itself says nothing of the server's.
LEMMA ClientHonest ==
  ASSUME NEW p, p.src = "client"
  PROVE  Honest(p)'
  BY DEF Honest

LEMMA DeliverSynAcks ==
  ASSUME ConnInv, ConnInv', Forward, StreamInv, StreamInv', AckInv, [Next]_vars, DeliverSyn
  PROVE  AckInv'
  <1>type. /\ "server" \in Roles /\ mgr["server"] \in Manager /\ rcvNxt \in [Roles -> Nat]
           /\ StreamEnd' \in Int
    BY StreamTypes, StreamEndGrows DEF TypeOK
  <1>1. PICK w \in wire :
          LET p == w.pkt
              synAck == NewPacket(txCount, "SYN_ACK", InitialSeq["server"], p.seq + 1, 0,
                                  "server")
          IN  /\ p.kind = "SYN"
              /\ \/ /\ state["server"] = "LISTEN"
                    /\ rcvNxt' = [rcvNxt EXCEPT !["server"] = p.seq + 1]
                    /\ Transmit("server", mgr["server"], {synAck}, wire \ {w}, timers, w.due)
                 \/ Transmit("server", mgr["server"], {}, wire \ {w}, timers, w.due)
    BY Triggered DEF DeliverSyn, Delivering
  <1>2. wire \ {w} \in SUBSET wire /\ mgr["server"].inFlight \subseteq mgr["server"].inFlight
    OBVIOUS
  <1>3. CASE Transmit("server", mgr["server"], {}, wire \ {w}, timers, w.due)
    BY <1>2, <1>3, <1>type, AckInvKept
  <1>4. CASE /\ state["server"] = "LISTEN"
             /\ rcvNxt' = [rcvNxt EXCEPT !["server"] = w.pkt.seq + 1]
             /\ Transmit("server", mgr["server"],
                         {NewPacket(txCount, "SYN_ACK", InitialSeq["server"], w.pkt.seq + 1,
                                    0, "server")}, wire \ {w}, timers, w.due)
    <2>1. Opened("server")'
      <3>1. rcvNxt'["server"] = w.pkt.seq + 1 /\ w.pkt.seq \in Nat
        BY <1>4, <1>type, StreamTypes, DeliveryType
      <3> QED
        BY <3>1 DEF ConnInv, Numbers
    <2>2. Vouched(rcvNxt["server"])'
      BY <1>type, <2>1 DEF StreamInv, Vouched, Finished
    <2>3. PICK synAck : /\ synAck.ack = rcvNxt'["server"]
                        /\ Transmit("server", mgr["server"], {synAck}, wire \ {w}, timers, w.due)
      BY <1>4, <1>type DEF NewPacket
    <2>4. Vouched(synAck.ack)'
      BY <2>2, <2>3 DEF Vouched
    <2>5. \A p \in {synAck} : Honest(p)'
      BY <2>4 DEF Honest
    <2> QED
      BY <1>2, <1>type, <2>3, <2>5, AckInvKept
  <1> QED
    BY <1>1, <1>3, <1>4

LEMMA DeliverSynAckAcks ==
  ASSUME ConnInv, ConnInv', Forward, StreamInv, AckInv, [Next]_vars, DeliverSynAck
  PROVE  AckInv'
  <1>1. PICK w, reply :
          /\ w \in wire /\ w.pkt.kind = "SYN_ACK" /\ reply.src = "client"
          /\ \E replies \in {{reply}, {}} :
               Transmit("client", AckedManager("client", w.pkt),
                        AckedOutput("client", w.pkt) \cup replies, wire \ {w}, timers, w.due)
    <2>1. PICK w \in wire :
            LET p == w.pkt
                opening == CanApply(state["client"], "RECV_SYN_ACK")
                answers == opening \/ state["client"] = "ESTABLISHED"
                next == IF opening THEN p.seq + 1 ELSE rcvNxt["client"]
                resent == AckedOutput("client", p)
                reply == NewPacket(txCount + Cardinality(resent), "ACK", sndNxt'["client"],
                                   next, 0, "client")
            IN  /\ p.kind = "SYN_ACK"
                /\ Transmit("client", AckedManager("client", p),
                            resent \cup (IF answers THEN {reply} ELSE {}),
                            wire \ {w}, timers, w.due)
      BY DEF DeliverSynAck, Delivering
    <2>2. \A i, q, n : NewPacket(i, "ACK", q, n, 0, "client").src = "client"
      BY DEF NewPacket
    <2> QED
      BY <2>1, <2>2
  <1>2. w.pkt \in Packet /\ w.pkt.src = "server" /\ Vouched(w.pkt.ack) /\ w.pkt.ack \in Int
    <2>1. w.pkt \in Packet /\ w.pkt.src = "server"
      BY <1>1, StreamTypes, DeliveryType DEF ConnInv, Packets, PacketOK
    <2>2. Vouched(w.pkt.ack)
      BY <1>1, <2>1 DEF AckInv, HonestPackets, Honest
    <2> QED
      BY <2>1, <2>2 DEF Packet, NoAck
  <1> DEFINE out == AckedOutput("client", w.pkt)
             m == AckedManager("client", w.pkt)
  <1>3. /\ \A q \in out : q.src = "client" 
        /\ m \in Manager /\ m.inFlight \subseteq mgr["client"].inFlight
        /\ m.lastAck \in {w.pkt.ack, mgr["client"].lastAck}
        /\ "client" \in Roles /\ wire \ {w} \in SUBSET wire
    <2>1. TypeInv /\ "client" \in Roles /\ \A e \in mgr["client"].inFlight : e.pkt.src = "client"
      BY DEF ConnInv, TimerInv, Watched, Roles
    <2> QED
      BY <1>2, <2>1, AckHonest, AckStepSource DEF AckInv
  <1> HIDE DEF out, m
  <1>4. PICK replies \in {{reply}, {}} :
          Transmit("client", m, out \cup replies, wire \ {w}, timers, w.due)
    BY <1>1 DEF out, m
  <1>5. \A q \in out \cup replies : Honest(q)'
    BY <1>1, <1>3, ClientHonest
  <1> QED
    BY <1>2, <1>3, <1>4, <1>5, AckInvKept

LEMMA DeliverAckAcks ==
  ASSUME ConnInv, ConnInv', Forward, StreamInv, AckInv, [Next]_vars, DeliverAck
  PROVE  AckInv'
  <1>1. PICK w, armed :
          LET p == w.pkt
              r == Peer(p.src)
          IN  /\ w \in wire
              /\ p.kind = "ACK"
              /\ Transmit(r, AckedManager(r, p), AckedOutput(r, p), wire \ {w}, armed, w.due)
    BY DEF DeliverAck, Delivering
  <1> DEFINE p == w.pkt
             r == Peer(p.src)
             m == AckedManager(r, p)
             out == AckedOutput(r, p)
  <1>2. p \in Packet /\ r \in Roles /\ p.ack \in Int /\ (r = "client" => p.src = "server")
    <2>1. p \in Packet
      BY <1>1, StreamTypes, DeliveryType
    <2> QED
      BY <2>1 DEF Packet, Roles, Peer, NoAck
  <1>3. r = "client" => Vouched(p.ack)
    BY <1>1, <1>2 DEF AckInv, HonestPackets, Honest
  <1>4. /\ m \in Manager /\ m.inFlight \subseteq mgr[r].inFlight
        /\ m.lastAck \in {p.ack, mgr[r].lastAck}
        /\ \A q \in out : Honest(q) /\ q \in Packet
    BY <1>2, AckHonest DEF AckInv
  <1>5. Transmit(r, m, out, wire \ {w}, armed, w.due) /\ wire \ {w} \in SUBSET wire
    BY <1>1
  <1> HIDE DEF p, r, m, out
  <1>6. \A q \in out : Honest(q)'
    <2>1. \A q \in Packet : q.ack \in Int
      BY DEF Packet, NoAck
    <2> QED
      BY <1>4, <2>1, VouchedKept DEF Honest
  <1> QED
    BY <1>2, <1>3, <1>4, <1>5, <1>6, AckInvKept

LEMMA DeliverFinAcks ==
  ASSUME ConnInv, ConnInv', Forward, StreamInv, StreamInv', AckInv, [Next]_vars, DeliverFin
  PROVE  AckInv'
  <1>type. /\ \A r \in Roles : mgr[r] \in Manager
           /\ StreamEnd' \in Nat /\ rcvNxt \in [Roles -> Nat] /\ rcvNxt' \in [Roles -> Nat]
    <2>1. TypeOK /\ TypeOK' /\ StreamEnd' \in Int
      BY StreamEndGrows DEF ConnInv, TimerInv, TypeInv
    <2>2. StreamEnd \in Nat /\ StreamEnd' >= StreamEnd
      BY StreamTypes, StreamEndGrows
    <2>3. StreamEnd' \in Nat
      BY <2>1, <2>2
    <2> QED
      BY <2>1, <2>3 DEF TypeOK
  <1>1. PICK w, armed, more :
          LET p == w.pkt
              r == Peer(p.src)
          IN  /\ w \in wire /\ p.kind = "FIN"
              /\ rcvNxt' = [rcvNxt EXCEPT ![r] = p.seq + 1]
              /\ more \in {{NewPacket(txCount + 1, "FIN", sndNxt[r], NoAck, 0, r)}, {}}
              /\ Transmit(r, mgr[r], {PureAck(r, p.seq + 1)} \cup more, wire \ {w}, armed, w.due)
    BY DEF DeliverFin, Delivering
  <1>2. PICK r \in Roles : r = Peer(w.pkt.src) /\ w.pkt.src = Peer(r)
    <2>1. w.pkt \in Packet
      BY <1>1, StreamTypes, DeliveryType
    <2> QED
      BY <2>1 DEF Packet, Roles, Peer
  <1>3. Finished(Peer(r)) /\ w.pkt.seq + 1 = sndNxt[Peer(r)]
    BY <1>1, <1>2 DEF ConnInv, Packets, PacketOK
  <1>4. PICK ack : /\ ack.ack = sndNxt[Peer(r)] /\ ack.src = r
                   /\ Transmit(r, mgr[r], {ack} \cup more, wire \ {w}, armed, w.due)
    BY <1>1, <1>2, <1>3 DEF PureAck, NewPacket
  <1>5. Honest(ack)'
    <2>1. CASE r = "client"
      BY <1>4, <2>1 DEF Honest
    <2>2. CASE r = "server"
      <3>1. Finished("client") /\ Peer(r) = "client" /\ "client" \in Roles
        BY <1>3, <2>2 DEF Peer, Roles
      <3>2. Finished("client")' /\ ack.ack = sndNxt'["client"]
        BY <1>4, <3>1 DEF Forward
      <3>3. Vouched(ack.ack)'
        BY <3>2 DEF Vouched, Finished
      <3> QED
        BY <3>3 DEF Honest
    <2> QED
      BY <2>1, <2>2 DEF Roles
  <1>6. \A q \in more : Honest(q)'
    <2>1. \A q \in more : q.ack = -1
      BY <1>1 DEF NewPacket, NoAck
    <2>2. -1 <= StreamEnd'
      BY <1>type
    <2> QED
      BY <2>1, <2>2 DEF Honest, Vouched
  <1>7. wire \ {w} \in SUBSET wire /\ mgr[r].inFlight \subseteq mgr[r].inFlight
        /\ \A q \in {ack} \cup more : Honest(q)'
    BY <1>5, <1>6
  <1> QED
    BY <1>4, <1>7, <1>type, AckInvKept

LEMMA DeliverDataAcks ==
  ASSUME ConnInv, ConnInv', Forward, StreamInv, StreamInv', AckInv, [Next]_vars, DeliverData
  PROVE  AckInv'
  <1>type. "server" \in Roles /\ mgr["server"] \in Manager /\ rcvNxt \in [Roles -> Nat]
           /\ StreamEnd' \in Int
    BY StreamTypes, StreamEndGrows DEF TypeOK
  <1>1. PICK w \in wire :
          LET p == w.pkt
              r == Peer(p.src)
              next == IF InOrder(r, p) THEN rcvNxt[r] + p.len ELSE rcvNxt[r]
          IN  /\ p.kind = "DATA"
              /\ rcvNxt' = [rcvNxt EXCEPT ![r] = next]
              /\ Transmit(r, mgr[r], {PureAck(r, next)}, wire \ {w}, timers, w.due)
    BY DEF DeliverData, Delivering
  <1>2. Peer(w.pkt.src) = "server" /\ Opened("client")
    BY <1>1 DEF ConnInv, Packets, PacketOK, Peer
  <1>3. Transmit("server", mgr["server"], {PureAck("server", rcvNxt'["server"])},
                 wire \ {w}, timers, w.due)
    BY <1>1, <1>2, <1>type
  <1>4. Opened("server")'
    <2>1. StatePairs /\ state["client"] \in ClientStates
      BY DEF ConnInv
    <2>2. Opened("server")
      BY <1>2, <2>1 DEF Opened, StatePairs, ClientStates
    <2> QED
      BY <1>type, <2>2 DEF Forward
  <1>5. Vouched(rcvNxt["server"])'
    BY <1>type, <1>4 DEF StreamInv, Vouched, Finished
  <1>6. PICK ack : /\ ack.ack = rcvNxt'["server"]
                   /\ Transmit("server", mgr["server"], {ack}, wire \ {w}, timers, w.due)
    BY <1>3 DEF PureAck, NewPacket
  <1>7. Vouched(ack.ack)'
    BY <1>5, <1>6 DEF Vouched
  <1>8. wire \ {w} \in SUBSET wire /\ mgr["server"].inFlight \subseteq mgr["server"].inFlight
    OBVIOUS
  <1>9. \A p \in {ack} : Honest(p)'
    BY <1>7 DEF Honest
  <1> QED
    BY <1>6, <1>8, <1>9, <1>type, AckInvKept

LEMMA RtoCheckAcks ==
  ASSUME ConnInv, ConnInv', Forward, StreamInv, AckInv, [Next]_vars, RtoCheck
  PROVE  AckInv'
  <1>1. PICK x \in timers :
          LET late == TimedOutPackets(mgr[x.role], x.due)
          IN  Transmit(x.role, Cancel(CheckTimeouts(mgr[x.role], x.due), Ids(late)),
                       Copies(late), wire, timers \ {x}, x.due)
    BY DEF RtoCheck, Firing
  <1> DEFINE r == x.role
             late == TimedOutPackets(mgr[r], x.due)
             m == Cancel(CheckTimeouts(mgr[r], x.due), Ids(late))
  <1>2. /\ r \in Roles /\ x.due \in Nat /\ mgr[r] \in Manager
        /\ \A e \in mgr[r].inFlight : e.pkt.src = r
    <2>1. r \in Roles /\ x.due \in Nat /\ TypeOK
      BY StreamTypes, TimerType
    <2> QED
      BY <2>1 DEF TypeOK, ConnInv, TimerInv, Watched
  <1>3. late \in SUBSET Packet /\ IsFiniteSet(late) /\ late \subseteq {e.pkt : e \in mgr[r].inFlight}
    <2>1. late \subseteq {e.pkt : e \in mgr[r].inFlight}
      BY DEF TimedOutPackets, Expired
    <2>2. IsFiniteSet(mgr[r].inFlight)
      BY <1>2, StreamTypes DEF TypeOK
    <2> QED
      BY <1>2, <2>1, <2>2, TimedOutPacketsProperties
  <1>4. m \in Manager /\ m.lastAck = mgr[r].lastAck
    <2>1. CheckTimeouts(mgr[r], x.due) \in Manager
      BY <1>2, CheckTimeoutsProperties
    <2>2. CheckTimeouts(mgr[r], x.due).lastAck = mgr[r].lastAck
      BY <1>2 DEF CheckTimeouts, Manager
    <2> QED
      BY <2>1, <2>2, CancelProperties
  <1>5. m.inFlight \subseteq mgr[r].inFlight
    BY <1>2, TimeoutStep
  <1>6. Transmit(r, m, Copies(late), wire, timers \ {x}, x.due) /\ wire \in SUBSET wire
    BY <1>1
  <1> HIDE DEF m
  <1>7. \A q \in Copies(late) : Honest(q)'
    <2>1. \A q \in late : Honest(q)
      BY <1>2, <1>3 DEF AckInv, HonestPackets
    <2> HIDE DEF late, r
    <2>2. \A q \in Copies(late) : Honest(q) /\ q \in Packet
      <3>1. txCount \in Nat
        BY StreamTypes DEF TypeOK
      <3>2. Copies(late) \in SUBSET Packet
        BY <1>3, <3>1, CopiesProperties
      <3> QED
        BY <1>3, <2>1, <3>2, CopyHonest
    <2>3. \A q \in Packet : q.ack \in Int
      BY DEF Packet, NoAck
    <2> QED
      BY <2>2, <2>3, VouchedKept DEF Honest
  <1> HIDE DEF late, r
  <1> QED
    BY <1>2, <1>4, <1>5, <1>6, <1>7, AckInvKept

LEMMA InitAckInv ==
  ASSUME Init
  PROVE  AckInv
  <1>1. wire = {} /\ \A r \in Roles : mgr[r].inFlight = {} /\ mgr[r].lastAck = -1
    BY DEF Init, InitManager, NoAck
  <1>2. StreamEnd \in Nat /\ "client" \in Roles
    BY SessionAssumption DEF Init, StreamEnd, Roles
  <1> QED
    BY <1>1, <1>2 DEF AckInv, HonestPackets, Vouched

LEMMA StepAckInv ==
  ASSUME ConnInv, ConnInv', Forward, StreamInv, StreamInv', AckInv, [Next]_vars
  PROVE  AckInv'
  <1>type. /\ "client" \in Roles /\ mgr["client"] \in Manager /\ wire \in SUBSET wire
           /\ mgr["client"].inFlight \subseteq mgr["client"].inFlight
    BY StreamTypes DEF TypeOK
  <1>1. CASE Start \/ SendMessage \/ Close
    <2>1. PICK out : /\ \A p \in out : p.src = "client"
                     /\ Transmit("client", mgr["client"], out, wire, timers, now)
      <3>1. CASE Start \/ Close
        BY <3>1 DEF Start, Close, NewPacket
      <3>2. CASE SendMessage
        BY <3>2 DEF SendMessage, Send, DataPackets, NewPacket
      <3> QED
        BY <1>1, <3>1, <3>2
    <2>2. \A p \in out : Honest(p)'
      BY <2>1, ClientHonest
    <2> QED
      BY <1>type, <2>1, <2>2, AckInvKept
  <1>2. CASE UpdateTcpConfig \/ TimeWaitExpiry \/ UNCHANGED vars
    BY <1>2, AckInvQuiet DEF UpdateTcpConfig, TimeWaitExpiry, vars, network
  <1> QED
    BY <1>1, <1>2, DeliverSynAcks, DeliverSynAckAcks, DeliverAckAcks, DeliverFinAcks,
       DeliverDataAcks, RtoCheckAcks DEF Next, Command, ProcessNext

\* Nobody acknowledges more than its recv_next_seq or receives what was not
\* sent, and no acknowledgement of the server's, on the wire or in the client's
\* books, covers a byte its application was not given - but for that of the
\* FIN, which covers the whole stream (session.py, all delivery handlers;
\* retransmission.py on_ack).
THEOREM AcksInvariant == Spec => []AcksAreTrue
  <1>1. ConnInv /\ AckInv => AcksAreTrue
    BY DEF ConnInv, Numbers, Packets, PacketOK, AcksAreTrue, AckInv, HonestPackets, Honest,
       Roles, Peer
  <1>2. ConnInv /\ StreamInv /\ AckInv /\ [Next]_vars => ConnInv' /\ StreamInv' /\ AckInv'
    BY StepConnInv, StepStreamInv, StepAckInv
  <1>3. Init => ConnInv /\ StreamInv /\ AckInv
    BY InitConnInv, InitStreamInv, InitAckInv
  <1> QED
    BY <1>1, <1>2, <1>3, PTL DEF Spec

-----------------------------------------------------------------------------
(* The refinement.                                                          *)

\* The initial state of the session is one of the stream.
LEMMA InitStream == Init => Stream!Init
  BY DEF Init, Stream!Init, ClientSide, ServerSide, Written, Roles

\* A step that moves neither side, sends nothing and hands nothing over.
LEMMA Stutters ==
  ASSUME ClientSide' = ClientSide, ServerSide' = ServerSide,
         sndNxt'["client"] = sndNxt["client"], accepted' = accepted
  PROVE  UNCHANGED Stream!streamVars
  BY DEF Stream!streamVars, Written, FirstByte

\* A step of the client's that at most sends data.
LEMMA Writes ==
  ASSUME ConnInv, ConnInv', Forward, started' = started, state' = state, accepted' = accepted,
         state["client"] # "ESTABLISHED" => sndNxt'["client"] = sndNxt["client"]
  PROVE  Stream!Write \/ UNCHANGED Stream!streamVars
  <1>1. ClientSide' = ClientSide /\ ServerSide' = ServerSide
    BY DEF ClientSide, ServerSide
  <1>2. CASE sndNxt'["client"] = sndNxt["client"]
    BY <1>1, <1>2, Stutters
  <1>3. CASE sndNxt'["client"] # sndNxt["client"]
    <2>1. started
      <3>1. ~started => state["client"] = "CLOSED"
        BY StreamTypes DEF ConnInv, TimerInv, TypeInv
      <3> QED
        BY <1>3, <3>1
    <2>2. ClientSide = "open" /\ state["client"] = "ESTABLISHED"
      BY <1>3, <2>1 DEF ClientSide
    <2>3. Written = sndNxt["client"] /\ Written' = sndNxt'["client"]
      BY <1>1, <2>2 DEF Written
    <2>4. /\ sndNxt'["client"] >= sndNxt["client"]
          /\ sndNxt["client"] \in Nat /\ sndNxt'["client"] \in Nat
      BY StreamTypes DEF Forward
    <2>5. Written' \in Nat /\ Written' > Written
      BY <1>3, <2>3, <2>4
    <2> QED
      BY <1>1, <2>2, <2>5 DEF Stream!Write
  <1> QED
    BY <1>2, <1>3

LEMMA StartMaps ==
  ASSUME ConnInv, ConnInv', Start
  PROVE  Stream!Connect
  <1>1. /\ ~started /\ started' /\ accepted' = accepted
        /\ sndNxt' = [sndNxt EXCEPT !["client"] = FirstByte]
        /\ state' = [client |-> Apply(state["client"], "APP_OPEN"),
                     server |-> Apply(state["server"], "APP_PASSIVE_OPEN")]
    BY DEF Start, FirstByte
  <1>2. state["client"] = "CLOSED" /\ state["server"] = "CLOSED"
    <2>1. TypeInv
      BY DEF ConnInv, TimerInv
    <2> QED
      BY <1>1, <2>1 DEF TypeInv, Roles
  <1>3. state'["client"] = "SYN_SENT" /\ state'["server"] = "LISTEN"
    BY <1>1, <1>2, Triggered
  <1>4. sndNxt'["client"] = FirstByte
    BY <1>1, StreamTypes
  <1>5. /\ ClientSide = "idle" /\ ClientSide' = "opening"
        /\ ServerSide = "idle" /\ ServerSide' = "idle"
    <2>1. ClientSide = "idle" /\ ServerSide = "idle"
      BY <1>1, <1>2 DEF ClientSide, ServerSide
    <2>2. ClientSide' = "opening"
      BY <1>1, <1>3 DEF ClientSide
    <2>3. ServerSide' = "idle"
      BY <1>1, <1>3 DEF ServerSide
    <2> QED
      BY <2>1, <2>2, <2>3
  <1>6. Written = FirstByte /\ Written' = FirstByte
    BY <1>4, <1>5 DEF Written
  <1> QED
    BY <1>1, <1>5, <1>6 DEF Stream!Connect

LEMMA CloseMaps ==
  ASSUME ConnInv, ConnInv', Close
  PROVE  Stream!Finish
  <1>type. "client" \in Roles /\ state \in [Roles -> States] /\ sndNxt \in [Roles -> Nat]
    BY StreamTypes
  <1>1. /\ state["client"] = "ESTABLISHED" /\ state'["client"] = "FIN_WAIT_1"
        /\ state'["server"] = state["server"]
        /\ sndNxt'["client"] = sndNxt["client"] + 1
        /\ started' = started /\ accepted' = accepted
    BY <1>type, Triggered DEF Close
  <1>2. started
    <2>1. TypeInv
      BY DEF ConnInv, TimerInv
    <2> QED
      BY <1>1, <1>type, <2>1 DEF TypeInv
  <1>3. ClientSide = "open" /\ ClientSide' = "closing" /\ ServerSide' = ServerSide
    BY <1>1, <1>2 DEF ClientSide, ServerSide
  <1>4. Written' = Written
    BY <1>1, <1>3, <1>type DEF Written
  <1> QED
    BY <1>1, <1>3, <1>4 DEF Stream!Finish

LEMMA SynMaps ==
  ASSUME ConnInv, ConnInv', DeliverSyn
  PROVE  Stream!Accept \/ UNCHANGED Stream!streamVars
  <1>type. /\ "client" \in Roles /\ "server" \in Roles
           /\ state \in [Roles -> States] /\ sndNxt \in [Roles -> Nat]
    BY StreamTypes
  <1>1. PICK w \in wire :
          /\ w.pkt.kind = "SYN"
          /\ IF state["server"] = "LISTEN"
             THEN /\ state' = [state EXCEPT !["server"] = "SYN_RECEIVED"]
                  /\ sndNxt' = [sndNxt EXCEPT !["server"] = InitialSeq["server"] + 1]
             ELSE UNCHANGED <<state, sndNxt>>
    BY Triggered DEF DeliverSyn, Delivering
  <1>2. accepted' = accepted /\ started' = started /\ started
    BY <1>1 DEF DeliverSyn, ConnInv, Packets, PacketOK
  <1>3. CASE state["server"] = "LISTEN"
    <2>1. /\ state'["client"] = state["client"] /\ state'["server"] = "SYN_RECEIVED"
          /\ sndNxt'["client"] = sndNxt["client"]
      BY <1>1, <1>3, <1>type
    <2>2. /\ ClientSide' = ClientSide /\ ClientSide # "idle"
          /\ ServerSide = "idle" /\ ServerSide' = "opening"
      BY <1>2, <1>3, <2>1 DEF ClientSide, ServerSide
    <2>3. Written' = Written
      BY <2>1, <2>2 DEF Written, FirstByte
    <2> QED
      BY <1>2, <2>2, <2>3 DEF Stream!Accept
  <1>4. CASE state["server"] # "LISTEN"
    <2>1. state' = state /\ sndNxt' = sndNxt
      BY <1>1, <1>4
    <2>2. ClientSide' = ClientSide /\ ServerSide' = ServerSide
      BY <1>2, <2>1 DEF ClientSide, ServerSide
    <2> QED
      BY <1>2, <2>1, <2>2, Stutters
  <1> QED
    BY <1>3, <1>4

LEMMA SynAckMaps ==
  ASSUME ConnInv, ConnInv', Forward, DeliverSynAck
  PROVE  Stream!Confirm \/ Stream!Write \/ UNCHANGED Stream!streamVars
  <1>type. "client" \in Roles /\ "server" \in Roles /\ state \in [Roles -> States]
    BY StreamTypes
  <1>1. PICK w \in wire :
          /\ w.pkt.kind = "SYN_ACK" /\ AckBookkeeping("client", w.pkt)
          /\ state' = IF state["client"] = "SYN_SENT"
                      THEN [state EXCEPT !["client"] = "ESTABLISHED"] ELSE state
    BY Triggered DEF DeliverSynAck, Delivering
  <1>2. accepted' = accepted /\ started' = started
    BY DEF DeliverSynAck
  <1>3. Opened("server") /\ w.pkt \in Packet
    BY <1>1, StreamTypes, DeliveryType DEF ConnInv, Packets, PacketOK
  <1>4. state["client"] # "ESTABLISHED" => sndNxt' = sndNxt
    BY <1>1, <1>3, <1>type, AckStepNumbers
  <1>5. CASE state["client"] = "SYN_SENT"
    <2>1. /\ state'["client"] = "ESTABLISHED" /\ state'["server"] = state["server"]
          /\ sndNxt' = sndNxt
      BY <1>1, <1>4, <1>5, <1>type
    <2>2. /\ ClientSide = "opening" /\ ClientSide' = "open"
          /\ ServerSide' = ServerSide /\ ServerSide # "idle"
      BY <1>2, <1>3, <1>5, <2>1 DEF ClientSide, ServerSide, Opened
    <2>3. Written' = Written
      BY <2>1, <2>2 DEF Written
    <2> QED
      BY <1>2, <2>2, <2>3 DEF Stream!Confirm
  <1>6. CASE state["client"] # "SYN_SENT"
    BY <1>1, <1>2, <1>4, <1>6, Writes
  <1> QED
    BY <1>5, <1>6

LEMMA AckMaps ==
  ASSUME ConnInv, ConnInv', Forward, DeliverAck
  PROVE  \/ Stream!Establish \/ Stream!CloseServer \/ Stream!Write
         \/ UNCHANGED Stream!streamVars
  <1>type. /\ "client" \in Roles /\ "server" \in Roles
           /\ \A r \in Roles : r = "client" \/ r = "server"
    BY DEF Roles
  <1>1. PICK r \in Roles :
          /\ Opened(Peer(r)) /\ UNCHANGED <<started, accepted>>
          /\ \A q \in Roles \ {r} : state'[q] = state[q] /\ sndNxt'[q] = sndNxt[q]
          /\ state[r] = "SYN_RECEIVED" => state'[r] = "ESTABLISHED"
          /\ state[r] = "FIN_WAIT_1" => state'[r] = "FIN_WAIT_2"
          /\ state[r] = "CLOSING" => state'[r] = "TIME_WAIT"
          /\ state[r] = "LAST_ACK" => state'[r] = "CLOSED"
          /\ state[r] \notin {"SYN_RECEIVED", "FIN_WAIT_1", "CLOSING", "LAST_ACK"}
               => state' = state
          /\ state["client"] # "ESTABLISHED" => sndNxt' = sndNxt
    BY AckDelivered
  <1>2. StatePairs /\ state["client"] \in ClientStates /\ started
    BY <1>1 DEF ConnInv, Opened
  <1>3. CASE r = "client"
    <2>1. CASE state["client"] \in {"FIN_WAIT_1", "CLOSING"}
      <3>1. /\ state'["client"] \in {"FIN_WAIT_2", "TIME_WAIT"}
            /\ state'["server"] = state["server"] /\ sndNxt' = sndNxt
        BY <1>1, <1>3, <1>type, <2>1
      <3>2. ClientSide' = ClientSide /\ ServerSide' = ServerSide
        BY <1>1, <1>2, <2>1, <3>1 DEF ClientSide, ServerSide
      <3> QED
        BY <1>1, <3>1, <3>2, Stutters
    <2>2. CASE state["client"] \notin {"FIN_WAIT_1", "CLOSING"}
      <3>1. state' = state
        BY <1>1, <1>2, <1>3, <2>2 DEF ClientStates
      <3> QED
        BY <1>1, <3>1, Writes
    <2> QED
      BY <2>1, <2>2
  <1>4. CASE r = "server"
    <2>1. state'["client"] = state["client"] /\ sndNxt'["client"] = sndNxt["client"]
          /\ state["client"] # "SYN_SENT"
      BY <1>1, <1>4, <1>type DEF Opened, Peer
    <2>2. ClientSide' = ClientSide /\ ClientSide \notin {"idle", "opening"} /\ Written' = Written
      <3>1. ClientSide' = ClientSide /\ ClientSide \notin {"idle", "opening"}
        BY <1>1, <1>2, <2>1 DEF ClientSide
      <3> QED
        BY <2>1, <3>1 DEF Written
    <2>3. CASE state["server"] = "SYN_RECEIVED"
      <3>1. ServerSide = "opening" /\ ServerSide' = "open"
        BY <1>1, <1>2, <1>4, <2>3 DEF ServerSide
      <3> QED
        BY <1>1, <2>2, <3>1 DEF Stream!Establish
    <2>4. CASE state["server"] = "LAST_ACK"
      <3>1. ServerSide = "closing" /\ ServerSide' = "closed"
        BY <1>1, <1>2, <1>4, <2>4 DEF ServerSide
      <3>2. ClientSide \in {"closing", "closed"}
        BY <1>2, <2>4, <2>1 DEF StatePairs, ClientSide
      <3> QED
        BY <1>1, <2>2, <3>1, <3>2 DEF Stream!CloseServer
    <2>5. CASE state["server"] \notin {"SYN_RECEIVED", "LAST_ACK"}
      <3>1. state' = state
        BY <1>1, <1>2, <1>4, <2>5 DEF StatePairs
      <3> QED
        BY <1>1, <2>1, <3>1, Writes
    <2> QED
      BY <2>3, <2>4, <2>5
  <1> QED
    BY <1>3, <1>4, <1>type

LEMMA FinMaps ==
  ASSUME ConnInv, ConnInv', DeliverFin
  PROVE  Stream!Respond \/ UNCHANGED Stream!streamVars
  <1>type. /\ "client" \in Roles /\ "server" \in Roles
           /\ \A r \in Roles : r = "client" \/ r = "server"
    BY DEF Roles
  <1>1. PICK r \in Roles :
          /\ Finished(Peer(r)) /\ UNCHANGED <<started, accepted>>
          /\ \A q \in Roles \ {r} : state'[q] = state[q] /\ sndNxt'[q] = sndNxt[q]
          /\ state[r] = "ESTABLISHED" => r = "server" /\ state'[r] = "LAST_ACK"
          /\ state[r] = "FIN_WAIT_1" => state'[r] = "CLOSING"
          /\ state[r] = "FIN_WAIT_2" => state'[r] = "TIME_WAIT"
          /\ state[r] \notin {"ESTABLISHED", "FIN_WAIT_1", "FIN_WAIT_2"} => state'[r] = state[r]
          /\ r = "client" => sndNxt'[r] = sndNxt[r]
    BY FinDelivered
  <1>2. StatePairs /\ state["client"] \in ClientStates /\ started
    BY <1>1 DEF ConnInv, Finished
  <1>3. sndNxt'["client"] = sndNxt["client"]
    BY <1>1, <1>type
  <1>4. CASE r = "client"
    <2>1. state'["server"] = state["server"]
      BY <1>1, <1>4, <1>type
    <2>2. ClientSide' = ClientSide /\ ServerSide' = ServerSide
      BY <1>1, <1>2, <1>4, <2>1 DEF ClientSide, ServerSide, ClientStates
    <2> QED
      BY <1>1, <1>3, <2>2, Stutters
  <1>5. CASE r = "server"
    <2>1. state'["client"] = state["client"] /\ Finished("client")
      BY <1>1, <1>5, <1>type DEF Peer
    <2>2. ClientSide' = ClientSide /\ Written' = Written
      <3>1. ClientSide' = ClientSide
        BY <1>1, <2>1 DEF ClientSide
      <3> QED
        BY <1>3, <3>1 DEF Written, FirstByte
    <2>3. CASE state["server"] = "ESTABLISHED"
      <3>1. ServerSide = "open" /\ ServerSide' = "closing"
        BY <1>1, <1>2, <1>5, <2>3 DEF ServerSide
      <3>2. ClientSide = "closing"
        BY <1>2, <2>1, <2>3 DEF StatePairs, Finished, ClientSide
      <3> QED
        BY <1>1, <2>2, <3>1, <3>2 DEF Stream!Respond
    <2>4. CASE state["server"] # "ESTABLISHED"
      <3>1. state'["server"] = state["server"]
        BY <1>1, <1>2, <1>5, <2>4 DEF StatePairs
      <3>2. ServerSide' = ServerSide
        BY <1>1, <3>1 DEF ServerSide
      <3> QED
        BY <1>1, <1>3, <2>2, <3>2, Stutters
    <2> QED
      BY <2>3, <2>4
  <1> QED
    BY <1>4, <1>5, <1>type

LEMMA DataMaps ==
  ASSUME ConnInv, ConnInv', StreamInv, DeliverData
  PROVE  Stream!Deliver \/ UNCHANGED Stream!streamVars
  <1>1. UNCHANGED <<started, state, sndNxt>>
    BY DataDelivered
  <1>2. ClientSide' = ClientSide /\ ServerSide' = ServerSide
    BY <1>1 DEF ClientSide, ServerSide
  <1>3. Written' = Written
    BY <1>1, <1>2 DEF Written, FirstByte
  <1>4. CASE accepted' = accepted
    BY <1>2, <1>3, <1>4 DEF Stream!streamVars
  <1>5. CASE accepted' # accepted
    <2>1. PICK len \in Nat :
            /\ len > 0 /\ StreamEnd + len <= DataEnd("client")
            /\ accepted' = Append(accepted, [seq |-> StreamEnd, len |-> len])
            /\ Opened("server") /\ ~Finished("server")
      BY <1>5, DataDelivered
    <2>2. ServerSide \in {"opening", "open"}
      <3>1. StatePairs
        BY DEF ConnInv
      <3> QED
        BY <2>1, <3>1 DEF Opened, Finished, StatePairs, ServerSide
    <2>3. Written = DataEnd("client")
      <3>1. started /\ state["client"] \in ClientStates
        BY <2>1 DEF ConnInv, Opened
      <3> QED
        BY <3>1 DEF Written, DataEnd, Finished, ClientSide, ClientStates
    <2>4. StreamEnd \in Nat /\ DataEnd("client") \in Int
      BY StreamTypes
    <2>5. len \in 1 .. Written - StreamEnd
      BY <2>1, <2>3, <2>4
    <2> QED
      BY <1>2, <1>3, <2>1, <2>2, <2>5, StreamEndIsEnd DEF Stream!Deliver
  <1> QED
    BY <1>4, <1>5

LEMMA ExpiryMaps ==
  ASSUME ConnInv, ConnInv', TimeWaitExpiry
  PROVE  Stream!CloseClient \/ UNCHANGED Stream!streamVars
  <1>type. "client" \in Roles /\ "server" \in Roles /\ state \in [Roles -> States]
    BY StreamTypes
  <1>1. PICK x \in timers :
          state' = IF state[x.role] = "TIME_WAIT"
                   THEN [state EXCEPT ![x.role] = "CLOSED"] ELSE state
    BY Triggered DEF TimeWaitExpiry
  <1>2. UNCHANGED <<started, accepted, sndNxt>>
    BY DEF TimeWaitExpiry
  <1>3. StatePairs
    BY DEF ConnInv
  <1>4. state["server"] # "TIME_WAIT"
    BY <1>3 DEF StatePairs
  <1>5. CASE state' = state
    <2>1. ClientSide' = ClientSide /\ ServerSide' = ServerSide
      BY <1>2, <1>5 DEF ClientSide, ServerSide
    <2> QED
      BY <1>2, <2>1, Stutters
  <1>6. CASE state' # state
    <2>1. x.role = "client" /\ state["client"] = "TIME_WAIT"
      <3>1. x.role \in Roles
        BY StreamTypes, TimerType
      <3> QED
        BY <1>1, <1>4, <1>6, <3>1 DEF Roles
    <2>2. state'["client"] = "CLOSED" /\ state'["server"] = state["server"]
      BY <1>1, <1>type, <2>1
    <2>3. started
      <3>1. TypeInv
        BY DEF ConnInv, TimerInv
      <3> QED
        BY <1>type, <2>1, <3>1 DEF TypeInv
    <2>4. /\ ClientSide = "closing" /\ ClientSide' = "closed" /\ ServerSide' = ServerSide
          /\ ServerSide \in {"closing", "closed"}
      BY <1>2, <1>3, <2>1, <2>2, <2>3 DEF ClientSide, ServerSide, StatePairs
    <2>5. Written' = Written
      BY <1>2, <2>4 DEF Written
    <2> QED
      BY <1>2, <2>4, <2>5 DEF Stream!CloseClient
  <1> QED
    BY <1>5, <1>6

LEMMA StepMaps ==
  ASSUME ConnInv, ConnInv', Forward, StreamInv, [Next]_vars
  PROVE  [Stream!Next]_(Stream!streamVars)
  <1>1. CASE SendMessage
    <2>1. /\ state["client"] = "ESTABLISHED" /\ UNCHANGED <<started, state, accepted>>
      BY <1>1 DEF SendMessage, Send
    <2> QED
      BY <2>1, Writes DEF Stream!Next
  <1>2. CASE UpdateTcpConfig \/ RtoCheck \/ UNCHANGED vars
    <2>1. UNCHANGED <<started, state, sndNxt, accepted>>
      BY <1>2 DEF UpdateTcpConfig, RtoCheck, vars, endpoints
    <2>2. ClientSide' = ClientSide /\ ServerSide' = ServerSide
      BY <2>1 DEF ClientSide, ServerSide
    <2> QED
      BY <2>1, <2>2, Stutters
  <1> QED
    BY <1>1, <1>2, StartMaps, CloseMaps, SynMaps, SynAckMaps, AckMaps, FinMaps, DataMaps,
       ExpiryMaps DEF Next, Command, ProcessNext, Stream!Next

\* The session implements ReliableStream: for the two applications it is a
\* connection that opens and closes once on each side, in an order the other
\* side allows, and a stream in which each chunk starts where the one before
\* ended (session.py, all of it).
THEOREM SessionImplementsStream == Spec => ImplementsStream
  <1>1. ConnInv /\ StreamInv /\ [Next]_vars => ConnInv' /\ StreamInv'
    BY StepConnInv, StepStreamInv
  <1>2. ConnInv /\ StreamInv /\ [Next]_vars => [Stream!Next]_(Stream!streamVars)
    BY StepConnInv, StepMaps
  <1>3. Init => ConnInv /\ StreamInv /\ Stream!Init
    BY InitConnInv, InitStreamInv, InitStream
  <1> QED
    BY <1>1, <1>2, <1>3, PTL DEF Spec, ImplementsStream, Stream!Spec

=============================================================================
