---------------------------- MODULE ReliableStream ----------------------------
(***************************************************************************)
(* What SimulationSession promises the two applications: a connection that *)
(* opens once and closes once on each side, and a byte stream from the     *)
(* client to the server in which every chunk starts where the one before   *)
(* ended.  No packets, timers, windows or sequence numbers of control      *)
(* packets: bytes are numbered from First.                                 *)
(***************************************************************************)
EXTENDS Integers, Sequences

CONSTANT First      \* number of the first byte of the stream

Sides == {"idle", "opening", "open", "closing", "closed"}

VARIABLES
  client, server,   \* where each side is
  written,          \* one past the last byte the client has sent
  delivered         \* chunks the server's application has been given

streamVars == <<client, server, written, delivered>>

Chunk == [seq : Nat, len : Nat \ {0}]

\* One past the last byte of d.
End(d) == IF d = << >> THEN First ELSE d[Len(d)].seq + d[Len(d)].len

Init ==
  /\ client = "idle" /\ server = "idle"
  /\ written = First /\ delivered = << >>

-----------------------------------------------------------------------------
Connect == /\ client = "idle" /\ client' = "opening"
           /\ UNCHANGED <<server, written, delivered>>

Accept == /\ client # "idle"
          /\ server = "idle" /\ server' = "opening"
          /\ UNCHANGED <<client, written, delivered>>

Confirm == /\ server # "idle"
           /\ client = "opening" /\ client' = "open"
           /\ UNCHANGED <<server, written, delivered>>

Establish == /\ client \notin {"idle", "opening"}
             /\ server = "opening" /\ server' = "open"
             /\ UNCHANGED <<client, written, delivered>>

Write == /\ client = "open"
         /\ written' \in Nat /\ written' > written
         /\ UNCHANGED <<client, server, delivered>>

\* The server is given the next bytes of the stream, none that the client has
\* not sent and none once it has started to close.
Deliver ==
  /\ server \in {"opening", "open"}
  /\ \E len \in 1 .. written - End(delivered) :
       delivered' = Append(delivered, [seq |-> End(delivered), len |-> len])
  /\ UNCHANGED <<client, server, written>>

Finish == /\ client = "open" /\ client' = "closing"
          /\ UNCHANGED <<server, written, delivered>>

Respond == /\ client = "closing"
           /\ server = "open" /\ server' = "closing"
           /\ UNCHANGED <<client, written, delivered>>

CloseClient == /\ server \in {"closing", "closed"}
               /\ client = "closing" /\ client' = "closed"
               /\ UNCHANGED <<server, written, delivered>>

CloseServer == /\ client \in {"closing", "closed"}
               /\ server = "closing" /\ server' = "closed"
               /\ UNCHANGED <<client, written, delivered>>

Next == \/ Connect \/ Accept \/ Confirm \/ Establish
        \/ Write \/ Deliver
        \/ Finish \/ Respond \/ CloseClient \/ CloseServer

Spec == Init /\ [][Next]_streamVars
=============================================================================
