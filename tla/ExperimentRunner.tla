--------------------------- MODULE ExperimentRunner ---------------------------
(***************************************************************************)
(* run_experiment_sync (app/services/experiment_runner.py): a headless     *)
(* driver of one session.  It starts the session and drains the scheduler, *)
(* sends one message if the handshake succeeded and drains again, closes   *)
(* and drains a last time.  Each drain stops when the scheduler is empty   *)
(* or when it has used up its budget of events.  A statistics engine       *)
(* listens from the beginning; its counters are part of the result.        *)
(***************************************************************************)
EXTENDS ObservedSession

CONSTANTS
  Budget,             \* events each drain may process
  MaxVirtualTime      \* definition.max_virtual_time_ms

Stages == {"handshake", "transfer", "closing"}

ASSUME RunnerAssumption ==
  /\ Budget \in [Stages -> Nat]
  /\ MaxVirtualTime \in Nat
  /\ MessageLengths # {}

VARIABLES
  stage,        \* which run_until_idle is under way, or "created", "finished"
  processed,    \* events it has processed
  sent,         \* length of the message payload, once it is handed over
  completed     \* ExperimentResult.completed

runnerVars == <<observedVars, stage, processed, sent, completed>>

RunnerInit ==
  /\ Init /\ InitStatistics
  /\ stage = "created" /\ processed = 0 /\ sent = 0 /\ completed = FALSE

RunnerStart ==
  /\ stage = "created"
  /\ ObservedStart
  /\ stage' = "handshake" /\ processed' = 0
  /\ UNCHANGED <<sent, completed>>

\* One turn of the loop of run_until_idle.
DrainOne ==
  /\ stage \in Stages
  /\ processed < Budget[stage]
  /\ ObservedProcessNext
  /\ processed' = processed + 1
  /\ UNCHANGED <<stage, sent, completed>>

\* Mutant of Drained: the runner does not wait for the scheduler to empty.
NeverWaits == TRUE

\* run_until_idle has returned.
Drained == Idle \/ processed >= Budget[stage]

\* Mutant of Completed: the cap on virtual time is forgotten.
CompletedWhenClosed == BothClosed(state)

\* Both endpoints are CLOSED within the time allowed.
Completed == BothClosed(state) /\ now <= MaxVirtualTime

\* After the handshake: send_message, or straight to the result.
EndHandshake ==
  /\ stage = "handshake" /\ Drained
  /\ IF state["client"] = "ESTABLISHED"
     THEN /\ \E length \in MessageLengths : ObservedSend(length) /\ sent' = length
          /\ stage' = "transfer" /\ processed' = 0
          /\ UNCHANGED completed
     ELSE /\ stage' = "finished" /\ completed' = Completed
          /\ UNCHANGED <<observedVars, processed, sent>>

\* After the transfer: close, which the session ignores unless ESTABLISHED.
EndTransfer ==
  /\ stage = "transfer" /\ Drained
  /\ IF state["client"] = "ESTABLISHED" THEN ObservedClose ELSE UNCHANGED observedVars
  /\ stage' = "closing" /\ processed' = 0
  /\ UNCHANGED <<sent, completed>>

EndClosing ==
  /\ stage = "closing" /\ Drained
  /\ stage' = "finished" /\ completed' = Completed
  /\ UNCHANGED <<observedVars, processed, sent>>

RunnerNext == RunnerStart \/ DrainOne \/ EndHandshake \/ EndTransfer \/ EndClosing

\* The runner is a plain function: as long as it can go on, it does.
RunnerSpec == RunnerInit /\ [][RunnerNext]_runnerVars /\ WF_runnerVars(RunnerNext)

-----------------------------------------------------------------------------
(* Properties.                                                              *)

\* With finitely many losses every experiment ends with both endpoints
\* closed: handshake, transfer and close each survive lost, late and
\* overtaking packets when the next command waits for an idle scheduler.
ExperimentEnds == <>(stage = "finished" /\ BothClosed(state))

\* When the runner closes the session, the server has been given the whole
\* message and considers the connection established, so the FIN skips nothing.
ClosesAfterDelivery ==
  stage \in {"closing", "finished"} /\ started
    => /\ StreamEnd = InitialSeq["client"] + 1 + sent
       /\ state["server"] \notin {"LISTEN", "SYN_RECEIVED"}

\* No endpoint takes another ACK for that of its FIN: although the handlers
\* accept any, each has had everything acknowledged when it moves past the
\* states in which it waits for that.
FinsAreAcked ==
  \A r \in Roles : started /\ state[r] \in {"FIN_WAIT_2", "TIME_WAIT", "CLOSED"}
                     => Unacked(r) = sndNxt[r]

\* A result is reported as completed only if the whole message arrived and
\* both sides announced the close within the virtual time allowed.
CompletedIsTrue ==
  completed => /\ StreamEnd = InitialSeq["client"] + 1 + sent
               /\ announced.closed = 1
               /\ now <= MaxVirtualTime

\* "False if the run hit `max_virtual_time_ms` without reaching CLOSED on both
\* endpoints -- surfaced in the UI rather than silently truncated": a session
\* that was closed with segments unsent is not reported as completed.
TruncatedIsIncomplete == completed => nextSeg > Len(segments)
=============================================================================
