------------------------------ MODULE ExplainMode ------------------------------
(***************************************************************************)
(* The events a session publishes (app/models/events.py), as far as        *)
(* explain_for_event (app/services/explain_mode.py) tells them apart: a    *)
(* type and the one field it looks at.  The wording of the notes is left   *)
(* out.                                                                    *)
(***************************************************************************)

Event(type, detail) == [type |-> type, detail |-> detail]

\* Types with no field that matters here have the detail "any".
PlainTypes == {"packet_delivered", "packet_lost", "packet_retransmitted",
               "dup_ack_detected", "fast_retransmit_triggered", "timeout_occurred",
               "cwnd_updated", "connection_established", "connection_closed", "log_message"}

PacketTypes == {"SYN", "SYN_ACK", "ACK", "DATA", "FIN", "RETRANSMISSION"}

PublishedEvents ==
  {Event(t, "any") : t \in PlainTypes}
    \cup {Event("packet_sent", p) : p \in PacketTypes}
    \cup {Event("state_changed", new) : new \in {"ESTABLISHED", "other"}}

\* Packets whose transmission has an explanation; a copy has the type
\* RETRANSMISSION, and an event of its own.
ExplainedPackets == {"SYN", "SYN_ACK", "FIN", "DATA"}

\* explain_for_event returns a note.  (It asks for the cause of a window
\* update, which every controller gives.)
Explained(e) ==
  \/ e.type = "packet_sent" /\ e.detail \in ExplainedPackets
  \/ e.type \in {"packet_lost", "packet_retransmitted", "dup_ack_detected",
                 "fast_retransmit_triggered", "timeout_occurred", "cwnd_updated"}
  \/ e.type = "state_changed" /\ e.detail = "ESTABLISHED"
=============================================================================
