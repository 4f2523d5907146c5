----------------------------- MODULE MCLiveSession -----------------------------
(***************************************************************************)
(* Values of LiveSession's constants for TLC.                              *)
(***************************************************************************)
EXTENDS LiveSession

\* One command of each kind.
MCCommands == {"send_message", "pause_simulation", "resume_simulation",
               "reset_simulation", "update_network_config", "toggle_explain_mode"}

\* One event with an explanation and one without.
MCEvents == {Event("packet_sent", "DATA"), Event("packet_sent", "ACK")}
=============================================================================
