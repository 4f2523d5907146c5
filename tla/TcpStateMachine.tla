--------------------------- MODULE TcpStateMachine ---------------------------
(***************************************************************************)
(* The TCP connection state machine of app/simulation/state_machine.py:    *)
(* a partial function from (state, trigger) to the next state.  The code   *)
(* keeps it as a dictionary, asks it with can_apply and follows it with    *)
(* apply, which raises TCPProtocolError on a missing key.                  *)
(***************************************************************************)

States == {"CLOSED", "LISTEN", "SYN_SENT", "SYN_RECEIVED", "ESTABLISHED",
           "FIN_WAIT_1", "FIN_WAIT_2", "CLOSING", "CLOSE_WAIT", "LAST_ACK",
           "TIME_WAIT"}

Triggers == {"APP_OPEN", "APP_PASSIVE_OPEN", "RECV_SYN", "RECV_SYN_ACK",
             "RECV_ACK", "APP_CLOSE", "RECV_FIN", "RECV_FIN_ACK",
             "TIME_WAIT_EXPIRED"}

\* What a lookup of a missing key returns (None in the code).
NoState == "none"

Transition(s, t) ==
  CASE s = "CLOSED"       /\ t = "APP_PASSIVE_OPEN"  -> "LISTEN"
    [] s = "CLOSED"       /\ t = "APP_OPEN"          -> "SYN_SENT"
    [] s = "LISTEN"       /\ t = "RECV_SYN"          -> "SYN_RECEIVED"
    [] s = "SYN_SENT"     /\ t = "RECV_SYN_ACK"      -> "ESTABLISHED"
    [] s = "SYN_RECEIVED" /\ t = "RECV_ACK"          -> "ESTABLISHED"
    [] s = "ESTABLISHED"  /\ t = "APP_CLOSE"         -> "FIN_WAIT_1"
    [] s = "FIN_WAIT_1"   /\ t = "RECV_ACK"          -> "FIN_WAIT_2"
    [] s = "FIN_WAIT_1"   /\ t = "RECV_FIN"          -> "CLOSING"
    [] s = "FIN_WAIT_2"   /\ t = "RECV_FIN"          -> "TIME_WAIT"
    [] s = "CLOSING"      /\ t = "RECV_ACK"          -> "TIME_WAIT"
    [] s = "TIME_WAIT"    /\ t = "TIME_WAIT_EXPIRED" -> "CLOSED"
    [] s = "ESTABLISHED"  /\ t = "RECV_FIN"          -> "CLOSE_WAIT"
    [] s = "CLOSE_WAIT"   /\ t = "APP_CLOSE"         -> "LAST_ACK"
    [] s = "LAST_ACK"     /\ t = "RECV_ACK"          -> "CLOSED"
    [] OTHER                                         -> NoState

\* Mutant of CanApply: the guard is forgotten.
CanAlwaysApply(s, t) == TRUE

CanApply(s, t) == Transition(s, t) # NoState

\* Mutant of Apply: an acknowledged FIN already leads to TIME_WAIT.
ApplyHalfClose(s, t) ==
  IF s = "FIN_WAIT_1" /\ t = "RECV_ACK" THEN "TIME_WAIT" ELSE Transition(s, t)

\* apply raises TCPProtocolError on a missing key; NoState stands for that
\* error, so that a type invariant which excludes it says it is never raised.
Apply(s, t) == Transition(s, t)

=============================================================================
