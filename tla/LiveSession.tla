------------------------------ MODULE LiveSession ------------------------------
(***************************************************************************)
(* One live connection (app/websocket/): the endpoint with its two asyncio *)
(* tasks - the receive loop, and the LiveSessionRunner that paces a        *)
(* session and tells the client what it publishes - and the entry in the   *)
(* connection manager.                                                     *)
(*                                                                         *)
(* The session is abstracted to what the runner sees of it: the events its *)
(* scheduler holds, in order, and the events it publishes when it handles  *)
(* one of them or a command (TcpSession models the rest).                  *)
(*                                                                         *)
(* A task can be interrupted only where it awaits: to wait or to send.     *)
(* The steps between two awaits are separate actions here, which adds no   *)
(* behaviour that differs in anything but when a frame joined the queue.   *)
(***************************************************************************)
EXTENDS ExplainMode, SequencesExt

CONSTANTS
  Commands,           \* message types the client sends
  Events,             \* what the engine publishes
  MaxPerStep,         \* bound: events published by one call into the engine
  MaxPublished,       \* bound: events published by one session
  MaxScheduled,       \* bound: events ever scheduled
  MaxCommands         \* bound: frames with a command

EngineCommands == {"start_simulation", "send_message", "close_connection"}

\* Commands that may raise: a bad value, an unknown switch.
ConfigCommands == {"set_speed", "update_network_config", "update_tcp_config",
                   "toggle_chaos_condition"}

MessageTypes == EngineCommands \cup ConfigCommands \cup
  {"pause_simulation", "resume_simulation", "reset_simulation", "toggle_explain_mode"}

Subscribers == {"statistics", "outbox"}

ASSUME LiveAssumption ==
  /\ Commands \subseteq MessageTypes
  /\ Events \subseteq PublishedEvents
  /\ {MaxPerStep, MaxPublished, MaxScheduled, MaxCommands} \subseteq Nat

VARIABLES
  \* the session
  pending,            \* its scheduler: numbers of the events, earliest first
  scheduled,          \* events ever scheduled, here and in sessions reset
  paused,             \* clock.is_paused
  subscribers,        \* of its event bus
  published,          \* history: the events it published
  \* the runner
  pc,                 \* where run() is
  resume,             \* where it goes on after a flush
  waitFor,            \* {} or the event run() waits to become due
  queue,              \* _commands
  explain,            \* _explain_mode
  outbox,             \* _outbox
  batch,              \* what _flush_outbox_and_stats has yet to send
  noteDue,            \* the event just sent is to be explained
  folded,             \* the events folded into statistics
  stopped,            \* _stop
  told,               \* history: the events of this session sent to the client
  \* the endpoint
  endpoint,           \* where websocket_endpoint is
  receiving,          \* the receive task runs
  cancelled,          \* tasks with a cancellation to be delivered
  registered,         \* the connection manager holds the runner
  connected,          \* the client is there
  commands            \* frames with a command so far

session == <<pending, scheduled, paused, subscribers, published>>
flush   == <<outbox, batch, noteDue, folded, told>>
control == <<explain, stopped>>
tasks   == <<receiving, cancelled>>
outside == <<endpoint, registered, connected>>
liveVars == <<session, flush, control, tasks, outside, pc, resume, waitFor, queue, commands>>

NewSession ==
  /\ pending' = << >> /\ paused' = FALSE /\ published' = << >>
  /\ UNCHANGED scheduled

Init ==
  /\ pending = << >> /\ scheduled = 0 /\ paused = FALSE
  /\ subscribers = Subscribers /\ published = << >>
  /\ pc = "created" /\ resume = "top" /\ waitFor = {}
  /\ queue = << >> /\ explain = FALSE /\ stopped = FALSE
  /\ outbox = << >> /\ batch = << >> /\ noteDue = FALSE
  /\ folded = << >> /\ told = << >>
  /\ endpoint = "greeting" /\ receiving = FALSE /\ cancelled = {}
  /\ registered = TRUE /\ connected = TRUE
  /\ commands = 0

-----------------------------------------------------------------------------
(* The session and its event bus.                                           *)

\* EventBus.publish: every subscriber, synchronously.
Publish(events) ==
  /\ published' = published \o events
  /\ folded' = IF "statistics" \in subscribers THEN folded \o events ELSE folded
  /\ outbox' = IF "outbox" \in subscribers THEN outbox \o events ELSE outbox

\* The events of rest in their order, with the next n anywhere among them: a
\* transmission pushes an rto_check and a delivery, and a call may transmit
\* several packets.
Schedules(rest, n) ==
  {s \in [1 .. Len(rest) + n -> ToSet(rest) \cup scheduled + 1 .. scheduled + n] :
     IsInjective(s) /\ SelectSeq(s, LAMBDA e : e <= scheduled) = rest}

\* A call into the engine: it publishes some events and may schedule more.
Engine(rest) ==
  /\ \E n \in 0 .. MaxPerStep : \E kinds \in [1 .. n -> Events] :
       /\ Len(published) + n <= MaxPublished
       /\ Publish([i \in 1 .. n |-> [no |-> Len(published) + i, event |-> kinds[i]]])
  /\ \E n \in 0 .. MaxScheduled - scheduled :
       scheduled' = scheduled + n /\ pending' \in Schedules(rest, n)
  /\ UNCHANGED <<paused, subscribers>>

-----------------------------------------------------------------------------
(* _apply_command: the state a command changes, before the flush.           *)

Drive(c) == /\ c \in EngineCommands
            /\ Engine(pending)
            /\ UNCHANGED <<explain, told>>

PauseOrResume(c) ==
  /\ c \in {"pause_simulation", "resume_simulation"}
  /\ paused' = (c = "pause_simulation")
  /\ UNCHANGED <<pending, scheduled, subscribers, published, outbox, folded, explain, told>>

\* Mutant of Attached: the new session's bus gets the statistics only.
AttachedStatistics == {"statistics"}

\* _attach_subscriptions, on the bus of a new session.
Attached == {"statistics", "outbox"}

\* _reset_session: session, statistics and outbox are new, and so is what the
\* client is told; explain mode and the queue stay.
Reset(c) == /\ c = "reset_simulation"
            /\ NewSession
            /\ subscribers' = Attached
            /\ folded' = << >> /\ outbox' = << >> /\ told' = << >>
            /\ UNCHANGED explain

\* Speed and configurations change nothing the runner decides by.
Configure(c) == /\ c \in ConfigCommands
                /\ UNCHANGED <<session, outbox, folded, explain, told>>

ToggleExplain(c) == /\ c = "toggle_explain_mode"
                    /\ explain' \in BOOLEAN
                    /\ UNCHANGED <<session, outbox, folded, told>>

\* The command at the head of the queue, which goes on at next afterwards.
ApplyHead(next) ==
  LET c == Head(queue)
  IN  /\ queue # << >> /\ queue' = Tail(queue)
      /\ Drive(c) \/ PauseOrResume(c) \/ Reset(c) \/ Configure(c) \/ ToggleExplain(c)
      /\ pc' = "flush" /\ resume' = next
      /\ waitFor' = {}
      /\ UNCHANGED <<batch, noteDue, stopped>>

\* It raises instead, and run() with it.
FailHead ==
  /\ queue # << >> /\ Head(queue) \in ConfigCommands
  /\ queue' = Tail(queue)
  /\ pc' = "ended" /\ waitFor' = {}
  /\ UNCHANGED <<session, flush, control, resume>>

-----------------------------------------------------------------------------
(* run().                                                                   *)

\* The run task is at p and nothing interrupts it.
At(p) == pc = p /\ "run" \notin cancelled

Unmoved == UNCHANGED <<session, flush, control, queue, resume>>

Top ==
  /\ At("top")
  /\ pc' = IF stopped THEN "ended" ELSE "drain"
  /\ waitFor' = {}
  /\ Unmoved /\ UNCHANGED <<tasks, outside, commands>>

\* Mutant of DrainsFirst: run() goes straight to waiting.
NeverDrains == FALSE

\* Commands already waiting are applied before anything is waited for.
DrainsFirst == queue # << >>

Drain ==
  /\ At("drain") /\ DrainsFirst
  /\ ApplyHead("drain") \/ FailHead
  /\ UNCHANGED <<tasks, outside, commands>>

\* Wait for a command alone, or for the next event too.
BeginWait ==
  /\ At("drain") /\ ~DrainsFirst
  /\ pc' = "wait"
  /\ waitFor' = IF paused \/ pending = << >> THEN {} ELSE {Head(pending)}
  /\ Unmoved /\ UNCHANGED <<tasks, outside, commands>>

\* Mutant of AfterCommand: the event is consumed without another look.
AfterCommandProcess == "process"

\* Where run() goes once a command that interrupted a wait is applied.
AfterCommand == "top"

\* wait_for returns the command.  If it has it in hand when the task is
\* cancelled, it returns it all the same, and the cancellation is lost.
WaitCommand ==
  /\ pc = "wait" /\ queue # << >>
  /\ \/ ApplyHead(AfterCommand)
     \/ FailHead
  /\ cancelled' = cancelled \ {"run"}
  /\ UNCHANGED <<receiving, outside, commands>>

\* The time is up, whether or not a command has arrived since.
WaitTimeout ==
  /\ At("wait")
  /\ pc' = IF waitFor = {} THEN "top" ELSE "process"
  /\ UNCHANGED waitFor
  /\ Unmoved /\ UNCHANGED <<tasks, outside, commands>>

\* process_next on whatever is earliest now; nothing if nothing is left.
Process ==
  /\ At("process")
  /\ IF pending = << >> THEN UNCHANGED <<session, outbox, folded>> ELSE Engine(Tail(pending))
  /\ pc' = "flush" /\ resume' = "top"
  /\ UNCHANGED <<waitFor, batch, noteDue, told, control, queue, tasks, outside, commands>>

-----------------------------------------------------------------------------
(* _flush_outbox_and_stats.                                                 *)

BeginFlush ==
  /\ At("flush")
  /\ batch' = outbox /\ outbox' = << >>
  /\ pc' = "send"
  /\ UNCHANGED <<session, noteDue, folded, told, control, queue, resume, waitFor,
                 tasks, outside, commands>>

SendEvent ==
  /\ At("send") /\ batch # << >> /\ ~noteDue
  /\ batch' = Tail(batch)
  /\ told' = Append(told, Head(batch))
  /\ noteDue' = (explain /\ Explained(Head(batch).event))
  /\ UNCHANGED <<session, outbox, folded, control, queue, pc, resume, waitFor,
                 tasks, outside, commands>>

SendNote ==
  /\ At("send") /\ noteDue
  /\ noteDue' = FALSE
  /\ UNCHANGED <<session, outbox, batch, folded, told, control, queue, pc, resume,
                 waitFor, tasks, outside, commands>>

AtSnapshot == pc = "send" /\ batch = << >> /\ ~noteDue

SendSnapshot ==
  /\ At("send") /\ AtSnapshot
  /\ pc' = resume
  /\ UNCHANGED <<session, flush, control, queue, resume, waitFor, tasks, outside, commands>>

-----------------------------------------------------------------------------
(* How run() ends other than by _stop or a command that raises.             *)

\* The socket is gone.  Some of the errors this raises are swallowed by send,
\* which then looks like a success, others end the task.
SendFails ==
  /\ At("send") /\ ~connected
  /\ pc' = "ended"
  /\ UNCHANGED <<session, flush, control, queue, resume, waitFor, tasks, outside, commands>>

RunCancelled ==
  /\ "run" \in cancelled
  /\ pc' = "ended"
  /\ cancelled' = cancelled \ {"run"}
  /\ UNCHANGED <<session, flush, control, queue, resume, waitFor, receiving, outside, commands>>

Run == \/ Top \/ Drain \/ BeginWait \/ WaitCommand \/ WaitTimeout \/ Process
       \/ BeginFlush \/ SendEvent \/ SendNote \/ SendSnapshot
       \/ SendFails \/ RunCancelled

-----------------------------------------------------------------------------
(* receive_loop.  A frame that does not parse is answered with an error     *)
(* message and leaves everything else as it is.                             *)

ReceiveCommand ==
  /\ receiving /\ "receive" \notin cancelled
  /\ commands < MaxCommands /\ commands' = commands + 1
  /\ \E c \in Commands : queue' = Append(queue, c)
  /\ UNCHANGED <<session, flush, control, tasks, outside, pc, resume, waitFor>>

\* The disconnection or an exception the loop does not catch.
ReceiveEnds ==
  /\ receiving
  /\ receiving' = FALSE
  /\ cancelled' = cancelled \ {"receive"}
  /\ UNCHANGED <<session, flush, control, outside, queue, pc, resume, waitFor, commands>>

-----------------------------------------------------------------------------
(* websocket_endpoint.  The runner is registered before the first message.  *)

Greet ==
  /\ endpoint = "greeting"
  /\ endpoint' = "serving"
  /\ pc' = "top" /\ receiving' = TRUE
  /\ UNCHANGED <<session, flush, control, cancelled, registered, connected,
                 queue, resume, waitFor, commands>>

\* session_ready is sent outside the try: if it raises, nothing is cleaned up.
GreetFails ==
  /\ endpoint = "greeting" /\ ~connected
  /\ endpoint' = "left"
  /\ UNCHANGED <<session, flush, control, tasks, registered, connected, queue,
                 pc, resume, waitFor, commands>>

\* Mutant of Stops: the manager forgets the runner and no more.
StopsNothing == stopped

\* ConnectionManager.remove stops the runner it finds.
Stops == registered \/ stopped

\* asyncio.wait returns when either task is done: the other is cancelled and
\* the runner removed, without an await in between.
Finish ==
  /\ endpoint = "serving"
  /\ pc = "ended" \/ ~receiving
  /\ endpoint' = "left"
  /\ cancelled' = {t \in {"run", "receive"} : IF t = "run" THEN pc # "ended" ELSE receiving}
  /\ stopped' = Stops
  /\ registered' = FALSE
  /\ UNCHANGED <<session, flush, explain, receiving, connected, queue, pc, resume,
                 waitFor, commands>>

\* The client closes the socket or is lost.
Disconnect ==
  /\ connected /\ connected' = FALSE
  /\ UNCHANGED <<session, flush, control, tasks, endpoint, registered, queue, pc,
                 resume, waitFor, commands>>

Next == \/ Run
        \/ ReceiveCommand \/ ReceiveEnds
        \/ Greet \/ GreetFails \/ Finish
        \/ Disconnect

\* The event loop runs every task that can go on, and the client reads what it
\* is sent.  Nobody has to send a command or to disconnect, and the receive
\* loop has to end only when the client is gone or the task is cancelled.
Fairness ==
  /\ WF_liveVars(Run)
  /\ WF_liveVars(Greet \/ GreetFails)
  /\ WF_liveVars(Finish)
  /\ WF_liveVars((~connected \/ "receive" \in cancelled) /\ ReceiveEnds)

Spec == Init /\ [][Next]_liveVars /\ Fairness

-----------------------------------------------------------------------------
(* Properties.                                                              *)

Told == [no : Nat \ {0}, event : Events]

TypeOK ==
  /\ pending \in Seq(1 .. scheduled) /\ scheduled \in 0 .. MaxScheduled
  /\ paused \in BOOLEAN /\ subscribers \subseteq Subscribers
  /\ {published, outbox, batch, folded, told} \subseteq Seq(Told)
  /\ pc \in {"created", "top", "drain", "wait", "process", "flush", "send", "ended"}
  /\ resume \in {"top", "drain"}
  /\ waitFor \subseteq 1 .. scheduled
  /\ queue \in Seq(Commands) /\ commands \in 0 .. MaxCommands
  /\ {explain, stopped, noteDue, receiving, registered, connected} \subseteq BOOLEAN
  /\ endpoint \in {"greeting", "serving", "left"}
  /\ cancelled \subseteq {"run", "receive"}

\* README: "Every engine-published event during a single command or tick is
\* flushed in publish order, followed by a stats_snapshot".  When a snapshot
\* is sent, the client has been told exactly the events the current session
\* published, in order, and the snapshot has folded exactly these - whatever
\* was reset, paused or queued before.
SnapshotsAreExact ==
  AtSnapshot => told = published /\ folded = published /\ outbox = << >>

\* An event is processed only with the clock running and after a wait for just
\* that event, which no command - a pause, a reset, one that schedules an
\* earlier event - has interrupted.
EventWaitedFor ==
  pc = "process" => ~paused /\ pending # << >> /\ waitFor = {Head(pending)}

\* Commands do not wait for ever behind events that are due or idle polls.
CommandsApplied == queue # << >> ~> (queue = << >> \/ pc = "ended")

\* When the client disconnects or either task ends, both tasks end and the
\* runner is forgotten: a cancellation that gets lost is made up for by the
\* stop flag.
ConnectionReleased ==
  endpoint = "serving" /\ (~connected \/ ~receiving \/ pc = "ended")
    ~> pc = "ended" /\ ~receiving /\ ~registered
=============================================================================
