--------------------------- MODULE StreamRefinement ---------------------------
(***************************************************************************)
(* SimulationSession implements ReliableStream: what the packets, timers   *)
(* and windows of TcpSession amount to for the two applications.           *)
(***************************************************************************)
EXTENDS TcpSession

\* Where each side is.  CLOSED is idle before the start and closed after it.
ClientSide ==
  LET c == state["client"]
  IN  CASE ~started            -> "idle"
        [] c = "SYN_SENT"      -> "opening"
        [] c = "ESTABLISHED"   -> "open"
        [] started /\ c = "CLOSED" -> "closed"
        [] OTHER               -> "closing"

ServerSide ==
  LET s == state["server"]
  IN  CASE ~started \/ s = "LISTEN" -> "idle"
        [] s = "SYN_RECEIVED"  -> "opening"
        [] s = "ESTABLISHED"   -> "open"
        [] started /\ s = "CLOSED" -> "closed"
        [] OTHER               -> "closing"

\* The client's SYN takes the number before the first byte; its FIN, sent when
\* it leaves ESTABLISHED, the number after the last.
FirstByte == InitialSeq["client"] + 1

Written ==
  CASE ClientSide = "idle"              -> FirstByte
    [] ClientSide \in {"opening", "open"} -> sndNxt["client"]
    [] OTHER                            -> sndNxt["client"] - 1

Stream == INSTANCE ReliableStream
            WITH First <- FirstByte, client <- ClientSide, server <- ServerSide,
                 written <- Written, delivered <- accepted

\* Whatever is lost, late, repeated or overtaken, the applications see a
\* connection that opens and closes once on each side, in an order the other
\* side allows, and a stream without gaps, repetitions or bytes never sent.
ImplementsStream == Stream!Spec
=============================================================================
