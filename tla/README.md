# A formal model of the TCP packet simulator

TLA+ modules, TLC runs and TLAPS proofs for the engine of the simulator in
`backend/app`. Paths below are relative to `src/backend`.

## 1. The system

A simulation is two TCP endpoints, a client and a server, inside one Python
object. Nothing in it runs in parallel: a *command* (start, send a message,
close, update a configuration) and the *handler of one scheduled event* are
each one synchronous call. What makes it hard is the order in which these calls
come, chosen by the client of the API, by the delays and losses of the
simulated network, and by retransmission timers that race both.

| Component | Source | State it keeps | Operations |
|---|---|---|---|
| TCP state machine | `app/simulation/state_machine.py`, `app/models/tcp_state.py` | one of 11 states | `can_apply`, `apply` |
| Congestion controller | `app/simulation/congestion_controller.py` | `cwnd`, `ssthresh`, phase | `on_new_ack`, `on_duplicate_ack_during_recovery`, `on_fast_retransmit`, `on_timeout` |
| Retransmission manager | `app/simulation/retransmission.py` | in-flight entries (packet, deadline, retries), last ACK, duplicate count, id under fast retransmit | `register_sent`, `cancel`, `on_ack`, `check_timeouts` |
| Session | `app/simulation/session.py` | sequence numbers of both sides, segments of the current message, transmission counter | `start`, `send_message`, `close`, `process_next` and its handlers |
| Scheduler | `app/simulation/scheduler.py` | heap of (due time, insertion number) | `push`, `pop_next` |
| Clock | `app/simulation/clock.py` | virtual time, pause, speed | `advance_to`, `pause`, `resume`, `set_speed` |
| Segmenter | `app/simulation/segmenter.py` | none | `segment_message` |
| Network simulator and its configuration | `app/simulation/network_simulator.py`, `app/models/network_config.py` | conditions, chaos switches, buffer occupancy, rest of a loss burst | `transmit`, `release_buffer`, updates |
| Experiment runner | `app/services/experiment_runner.py` | none of its own | `run_experiment_sync` |
| Live session runner | `app/websocket/session_runner.py` | command queue, outbox, session, statistics | `run`, `_apply_command`, reset |
| WebSocket endpoint | `app/websocket/handlers.py` | a run task and a receive task per connection | greet, receive, finish |
| Connection manager | `app/websocket/connection_manager.py` | live runners by id | `register`, `remove` |
| Message protocol | `app/websocket/protocol.py` | none | `parse_client_message` |
| Event bus | `app/simulation/event_bus.py`, `app/models/events.py` | subscribers | `subscribe`, `publish` |
| Statistics engine | `app/services/statistics_engine.py`, `app/models/statistics.py` | counters | `reduce_event` |
| Explain mode, CSV export | `app/services/explain_mode.py`, `csv_export.py` | none | formatting of one event, of results |
| HTTP routes, application | `app/api/`, `app/main.py` | last results | routes |

How they interact. The session owns two of everything (machine, manager,
controller) and one scheduler, clock and network. A transmission registers the
packet with its sender's manager, which computes the deadline, pushes an
`rto_check` for it, and asks the network for a decision: lost, or delivered
after a delay, in which case a `packet_delivery` is pushed. `process_next` pops
the earliest event and calls its handler, which may acknowledge, resend, move a
state machine, tell the congestion controller, and transmit again. The manager
calls the controller; both keep the `TCPConfig` they were built with. The
experiment runner and the live runner drive a session from outside; everything
else observes the events it publishes: the bus calls the statistics engine and
the live runner's outbox while the handler that publishes is still running. The
live runner is one asyncio task that alternates between commands, waits, one
event of the session, and sending what was published; a second task receives
the commands; the endpoint cancels whichever task outlives the other.

What is hard, and what makes each part correct:

* *Retransmission*: timeouts race late ACKs, copies race originals, ACKs
  overtake ACKs. Correct: the queue covers exactly what was sent and not
  acknowledged, every entry has its timer, acknowledgements tell the truth.
* *Data transfer*: only an ACK resumes sending. Correct: it never stalls, never
  exceeds the window, and what arrives is the client's byte stream.
* *Connection*: control packets are lost, late and repeated, and the handlers
  accept any pure ACK. Correct: the two machines stay in step, no illegal
  transition, established and closed announced once, TIME_WAIT ends.
* *Congestion control*: three phases changed from four places. Correct: the
  phase tells where the window is, minima hold, recovery ends.
* *Network*: conditions and switches change while packets are in flight.
  Correct: the buffer's account is exact and bounded, a burst ends, a packet
  arrives after it was sent, and in order unless there is a reason.
* *Experiment runner*: budgets and caps cut runs short. Correct: an experiment
  ends, reports as completed what completed, and its statistics add up.
* *Live connection*: commands, pauses, resets, failures, disconnection and
  cancellation meet the run task at any await. Correct: no event is handled
  that was not waited for, the client is told exactly what its session
  published, commands get their turn, and nothing is left behind.

## 2. Modules

| Module | Models |
|---|---|
| `TcpStateMachine` | the transition table, `can_apply` and `apply` as operators |
| `CongestionControl` | one operator per method on the record `[cwnd, ssthresh, phase]` |
| `Retransmission` | the manager as a record, its methods as operators; extends `CongestionControl` |
| `TcpSession` | the session: all variables, one action per command and event handler; extends the above |
| `ReliableStream` | the abstract specification: two applications, a connection that opens and closes once on each side, a byte stream |
| `StreamRefinement` | the refinement mapping from `TcpSession` to `ReliableStream` |
| `ObservedSession` | a session with a statistics engine on its event bus; extends the above |
| `ExperimentRunner` | `run_experiment_sync` around an observed session, with its stages and budgets |
| `NetworkSimulator` | `transmit`, `release_buffer` and the live updates, with buffer, burst counter and delays |
| `ExplainMode` | which of the published events get an explanation |
| `LiveSession` | live runner, endpoint with its two tasks, connection manager, event bus; extends `ExplainMode` |
| `MCTcpSession`, `MCExperimentRunner`, `MCNetworkSimulator`, `MCLiveSession` | values of the constants for TLC |
| `TcpSessionProofs` | lemmas about the operators of controller, manager and session; types, phase and timers |
| `ConnectionProofs` | what packets under way say, where the numbers of both sides stand and which states go together; announcements, TIME_WAIT |
| `TilingProofs` | the queues cover what is unacknowledged; idleness, no stall, the window, the server's FIN |
| `StreamProofs` | the server's byte stream, what it acknowledges, and the refinement of `ReliableStream` |
| `ExperimentProofs` | the runner's stages, its closing handshake, its result and its statistics |
| `NetworkProofs` | types, account and bound of the buffer, bursts, order of arrival |
| `LiveProofs` | types, waits and snapshots of the live connection |
| `SumProofs` | lemmas about sums over finite sets |

Every definition that starts "Mutant of" is a plausible bug in the definition
that follows it; nothing in the specification uses it. It exists to show that
a property notices the bug (`mutants` in `PROJECT.json`).

### State

| Variable | Code |
|---|---|
| `started` | `session.started` |
| `state` | `client_fsm.state`, `server_fsm.state` |
| `sndNxt`, `sndUna`, `rcvNxt` | `send_next_seq`, `send_unacked_seq`, `recv_next_seq` of the endpoints |
| `mgr` | the two `RetransmissionManager`s |
| `cong` | the two `CongestionController.state`s |
| `wire` | `packet_delivery` events in the scheduler |
| `timers` | `rto_check` and `time_wait_expiry` events in the scheduler |
| `now` | `clock.now_ms` |
| `txCount` | `_transmission_counter` |
| `segments`, `nextSeg` | `_message_segments`, `_next_segment_idx` (from 1) |
| `tcpConfig` | `session.tcp_config` |
| `accepted`, `announced` | history: segments taken by the server, connection events published |
| `messages`, `updates`, `losses` | counters of the model's bounds |
| `stats` | the counters of `SimulationStatistics` |
| `copies` | `is_retransmission` of the packets on the wire |
| `stage`, `processed`, `sent`, `completed` | where `run_experiment_sync` is, events of this drain, message length, the result |

`NetworkSimulator`:

| Variable | Code |
|---|---|
| `conditions`, `switches` | `self.conditions`, the flags of `self.chaos` |
| `inFlightBytes`, `burstRemaining` | `_in_flight_bytes`, `_burst_remaining` |
| `transit`, `now` | accepted packets whose delivery the scheduler holds; `clock.now_ms` |
| `burstLosses`, `allowed` | history: packets lost to the latest burst, the occupancy the overflow check must keep to |
| `sent`, `changes` | counters of the bounds |

`LiveSession`:

| Variable | Code |
|---|---|
| `pending`, `paused`, `subscribers` | the session's scheduler, `clock.is_paused`, the bus's subscribers |
| `pc`, `resume`, `waitFor` | where the coroutine `run()` is, where it goes on after a flush, the event whose due time it waits for |
| `queue`, `explain`, `outbox`, `stopped` | `_commands`, `_explain_mode`, `_outbox`, `_stop` |
| `batch`, `noteDue` | `pending` of `_flush_outbox_and_stats`, and whether the event just sent gets a note |
| `folded` | the events folded into `statistics` |
| `published`, `told` | history: events published by the current session, events of it sent to the client |
| `endpoint`, `receiving`, `cancelled` | where `websocket_endpoint` is, whether the receive task runs, tasks with a cancellation on its way |
| `registered`, `connected` | the connection manager's entry, the socket |
| `scheduled`, `commands` | counters of the bounds |

### Actions

| Action | Code |
|---|---|
| `Start`, `Send`, `Close` | `start`, `send_message`, `close` |
| `UpdateTcpConfig` | the `UpdateTcpConfigMsg` branch of `LiveSessionRunner._apply_command` |
| `DeliverSyn`, `DeliverSynAck`, `DeliverAck`, `DeliverFin`, `DeliverData` | the branches of `_handle_delivered_packet`, each with the ACK bookkeeping in front of them where the packet carries an ACK |
| `RtoCheck` | `_handle_rto_check`: `check_timeouts` and a `_resend` for each result |
| `TimeWaitExpiry` | `_handle_time_wait_expiry` |
| `RunnerStart`, `DrainOne`, `EndHandshake`, `EndTransfer`, `EndClosing` | the statements of `run_experiment_sync`, one turn of `run_until_idle` each |
| `ObservedStart`, `ObservedSend`, `ObservedClose`, `ObservedProcessNext` | the same commands and events, with `reduce_event` of what they publish in the same step |
| `ContinueBurst`, `StartBurst`, `DropOverflow`, `DropRandomly`, `Accept` | the five ways out of `NetworkSimulator.transmit`, in the order of its tests |
| `Deliver`, `Advance` | `release_buffer` for the earliest delivery; another event of the scheduler |
| `UpdateConditions`, `ToggleChaos` | the live runner's branches for them |
| `Top`, `Drain`, `BeginWait`, `WaitCommand`, `WaitTimeout`, `Process` | the statements of `run()` between its awaits |
| `ApplyHead`, `FailHead` | `_apply_command` up to its flush, one disjunct per kind of command; one that raises |
| `BeginFlush`, `SendEvent`, `SendNote`, `SendSnapshot` | `_flush_outbox_and_stats`, one action per send |
| `SendFails`, `RunCancelled` | a send to a lost socket; a cancellation that is delivered |
| `ReceiveCommand`, `ReceiveEnds` | `receive_loop` |
| `Greet`, `GreetFails`, `Finish` | `websocket_endpoint` before, and after, its two tasks |
| `Disconnect` | the client |

A handler that sends several packets does so in one step: `Transmit` takes the
set of packets with their transmission numbers, registers and arms each, and
chooses the network's decision for each. All events pushed at once get their
places in the queue from the packets' numbers, so ties are broken as in the
heap.

### Abstractions

* Virtual time is whole numbers. In `TcpSession` the network gives a packet any
  delay of the set `Delays` or loses it: jitter, bandwidth, reordering and
  chaos modes only choose among such outcomes. What correlates them - buffer,
  bursts - is `NetworkSimulator`'s, which in turn knows of the session only
  that it sends packets of some size and delivers them in order of their times.
* In `NetworkSimulator` a unit of time is the code's least delay, 0.1 ms; a
  percentage is whether its roll can fail, succeed or both; multipliers are
  whole numbers.
* In `LiveSession` the session is what its runner sees: the order of the events
  in its scheduler and the events it publishes, of any kind and up to
  `MaxPerStep` at a time. A call may schedule any number of new events at any
  places among the old ones (`Schedules`), within the bound `MaxScheduled`.
  Wall-clock time is left out; a wait may time out at any moment, which covers
  every speed and zero delays. A frame that does not
  parse and `set_speed` change nothing the properties see. A send is one step,
  and after a disconnection it may fail or, its `RuntimeError` swallowed, seem
  to succeed.
* `ObservedSession` counts; RTT samples, rates, elapsed time and the copies of
  window and states in the statistics are left out.
* `cwnd` is a whole number of 1/`Unit` segments. The runs use 12, so halves,
  thirds and quarters are exact. The rounding to whole segments is Python's
  half-to-even.
* A packet is its number, kind, sequence and ACK number, length and source. A
  retransmission keeps the kind of the original. Payload bytes, previews,
  ports, `window_size`, ids other than the transmission number,
  `peer_initial_seq_no` (never read) and log events are left out.
* Of what is published `TcpSession` keeps only the two connection events, as
  counters; `ObservedSession` folds the rest.
* `on_ack` moves the deadline of the packet it wants fast-retransmitted; the
  caller removes that entry in the next statement, so the model leaves the
  deadline alone.
* Sequence numbers are unbounded, as in Python.
* A configuration is a member of `TcpConfigs`, the ranges of the model class
  (upper limits aside), with a `time_wait_ms` that is not negative.

## 3. Runs

The runs of `TcpSession` and `NetworkSimulator` use a `Spec` without fairness:
their properties are safety properties. `CHECK_DEADLOCK FALSE` everywhere: a closed
connection with an empty scheduler, or one whose bound on transmissions is
used up, rightly stops, as does a live connection that was released.

Timing in all runs of sessions: delays 1 and 3, RTO 5. A round trip takes 2, 4 or 6, so a
timeout may be spurious or in time, and any two packets may overtake each
other. Duplicate-ACK threshold 1, retry limit 1: one old ACK is enough for
fast retransmit, one timeout for the limit. Initial sequence numbers 10 and 30
are far enough apart that no number of one side is taken for one of the other.

| Run | Bounds | Shows |
|---|---|---|
| `MCLifecycle` | 1 message of 2 segments, 1 loss, 12 transmissions | the books, timers, stream and states of a whole connection, and the refinement of `ReliableStream`; 983 000 states |
| `MCWindow` | window 3, 1 message of 3 segments, 1 loss, 12 transmissions | fast retransmit, congestion phases and window gating; 1 020 000 states |
| `MCReconfigured` | 2 messages of one or two segments, 1 update to smaller MSS, RTO and TIME_WAIT, 1 loss, 10 transmissions | reconfiguration at any moment; 2 370 000 states |
| `MCExperiment` | 1 message of 2 segments, 1 loss, ample budgets, a cap of 25 that the slowest exceed | the headless run ends, closed and delivered, its FINs acknowledged, and its statistics add up; 393 000 states |
| `MCNetwork` | 3 packets of 400 or 800 bytes, 3 changes, two sets of conditions (one of them a buffer of 1 KB, loss, and jitter above the latency), bursts of 2 | the network simulator under live changes; 5 290 000 states |
| `MCLive` | 3 commands, one of each kind, 2 events per session, 2 scheduled, disconnection at any moment | the live connection; 463 000 states |

Why the bounds are enough. An error-free connection with two segments takes 9
transmissions (SYN, SYN-ACK, ACK, two data, two ACKs, FIN, ACK+FIN, ACK less or
more one), so 12 leave room for a loss or spurious timeout in any place and
what it causes; `MaxTransmissions` is a guard in `Transmit`, so states in which
the bound stops a connection exist, and no safety property is about them.
`MCExperiment` has a bound (40) and budgets that no behaviour reaches, so its
liveness property is not helped by them. One loss is enough to separate every
packet of the protocol from its acknowledgement; delays produce the rest, since
a spurious retransmission is a duplicate.

In `MCNetwork` two packets overfill the smaller buffer and three large ones the
larger; three changes suffice to switch the overflow check or burst loss off
and on again around a change of conditions. In `MCLive` two commands are enough
for one to interrupt a wait and the next to find the queue not empty, and the
third for a reset among them; two events of which one is explained give each
order of events and notes in a batch. A command kind per branch of
`_apply_command` that differs is in `MCCommands`; the others of its kind take
the same disjunct.

### Properties of the passing runs

* `TimersCoverInFlight`, `UnackedTiled`, `AcksAreTrue`: the retransmission
  queue against the timers, the sequence space and the receiver. `AcksAreTrue`
  has two parts. No acknowledgement exceeds its sender's `recv_next_seq`, and that
  never exceeds what the peer sent; and, because a FIN moves `recv_next_seq` past missing
  data (`MCNothingSkipped`), every acknowledgement of the server is `Vouched`
  for: it covers only bytes its application was given, or it is that of the FIN
  and covers everything. The second kind may be untrue of bytes the FIN
  overtook; the property says that it is the only one that may.
* `StreamIntact`: what the server takes is the client's stream.
* `NoStall`, `WindowRespected`, `PhaseMatchesWindow`: sending and congestion.
* `StatesAgree`, `TimeWaitEnds`, `AnnouncedOnce`, `IdleMeansAcked`,
  `NeverRecede`: the connection. The server can be CLOSED while the client still
  waits for its FIN, because LAST_ACK is left on any pure ACK and a stale one
  will do; `StatesAgree` says that the FIN is then still tracked, so the client
  will have it.
* `ImplementsStream`: the session is a `ReliableStream`. A FIN that overtakes
  data cuts the stream short, but never tears it: what is delivered stays a
  prefix of what was written.
* `ExperimentEnds` (liveness), `ClosesAfterDelivery`, `CompletedIsTrue`: the
  runner. `FinsAreAcked`: no endpoint of an experiment takes a stale ACK for that
  of its FIN, because `close` follows an idle scheduler. It is false of a session
  that is closed at any moment, and of a runner that does not wait (its mutant).
* `CountersAgree`, `GoodputBounded`: the statistics of an experiment against
  the session's own state. Every packet sent is delivered, lost or on the wire;
  every retransmission has one cause and every cause one retransmission;
  spurious copies do not raise goodput above what was written.
* `BufferAccounts`, `BufferBounded`, `BurstsBounded`, `OrderKept`: the network.
  The overflow check does not evict, so the bound after a change is what was in
  flight then, if that is more than the capacity. A burst that was interrupted
  by switching it off is continued later; `BurstsBounded` says that it still
  costs no more than its size.
* `EventWaitedFor`, `SnapshotsAreExact`, `CommandsApplied` (liveness),
  `ConnectionReleased` (liveness): the live connection.

### Fairness

`RunnerSpec` assumes weak fairness of the runner's next step and nothing else:
`run_experiment_sync` is a plain function and goes on as long as it can. The
network needs no fairness, because the losses in a run are bounded and a
delivery is an event of the same scheduler.

`LiveSession` assumes weak fairness of the run task, of the greeting and of the
endpoint's clean-up, since asyncio runs every task that can go on and every
wait of the runner has a time limit; and of the end of the receive loop once
the client is gone or the task is cancelled. That a send completes assumes a
client that reads or a socket that is gone. Nothing is assumed of the client's
commands or of its leaving.

### What the code does not do

Six runs each check one statement of a comment, a document or a test and
find it false; `findings` in `PROJECT.json` quotes them.

| Run | Statement | Behaviour |
|---|---|---|
| `MCRecoveryEnds` | an ACK of the retransmitted segment ends fast recovery | the id remembered is of the cancelled original; recovery ends only by a timeout |
| `MCRetryLimit` | "max retries exceeded ... giving up" | every resend starts a new count; never given up |
| `MCFinAnswered` | the server immediately answers an active FIN | not if the FIN overtakes the handshake's ACK: in SYN_RECEIVED it is taken for a duplicate, acknowledged and forgotten |
| `MCNothingSkipped` | `recv_next_seq` advances only over what arrived in order | a FIN moves it past missing data |
| `MCRtoFollowsConfig` | the RTO can be updated live | managers keep their first configuration |
| `MCTruncated` | `completed` is not set on a truncated run | it is, if the budget cut the transfer and the close succeeded |

In the trace of `MCFinAnswered` nothing is lost: the handshake's ACK arrives after
the FIN, and the session comes to rest with a client in FIN_WAIT_2 and a server
in ESTABLISHED. Were that ACK lost, the session would not rest at all: the server
keeps resending its SYN-ACK, which a client in FIN_WAIT_2 ignores.

Some smaller surprises are modelled as the code has them, without a run of their
own: a second `send_message` replaces the segments of the first that still wait
for the window (`Send`); `packet_bursts_enabled` is a switch nothing reads; an
ACK below `last_ack_no` counts as a duplicate although the comment speaks of
`ack_no == last_ack_no` (`IsDuplicateAck`); FIN_WAIT_1, CLOSING and LAST_ACK are
left on any pure ACK, whatever it acknowledges (`DeliverAck`); and
`max_virtual_time_ms`, called a safety cap, stops no run but is only compared at
the end (`Completed`).

The liveness and safety of the passing runs hold beside these: the experiment
runner waits for an idle scheduler before it closes, so a FIN skips nothing
there, and `ClosesAfterDelivery` is what says so.

## 4. Proofs

`TLAPS` checks, for every value of the constants that satisfies the named
assumptions (`UnitAssumption`, `ManagerConfigAssumption`, `SessionAssumption`,
`RunnerAssumption`, `NetworkAssumption`, `LiveAssumption`):

| Theorem | Statement |
|---|---|
| **`TcpSession`** | |
| `TypeCorrect` | `Spec => []TypeOK` |
| `PhaseInvariant` | `Spec => []PhaseMatchesWindow` |
| `TimersInvariant` | `Spec => []TimersCoverInFlight` |
| `AnnouncementsInvariant` | `Spec => []AnnouncedOnce` |
| `TimeWaitInvariant` | `Spec => []TimeWaitEnds` |
| `NumbersNeverRecede` | `Spec => NeverRecede` |
| `TilingInvariant` | `Spec => []UnackedTiled` |
| `IdleInvariant` | `Spec => []IdleMeansAcked` |
| `StatesInvariant` | `Spec => []StatesAgree` |
| `StallInvariant` | `Spec => []NoStall` |
| `WindowStep` | `Spec => WindowRespected` |
| `StreamInvariant` | `Spec => []StreamIntact` |
| `AcksInvariant` | `Spec => []AcksAreTrue` |
| `SessionImplementsStream` | `Spec => ImplementsStream`, a refinement |
| **`ExperimentRunner`** | |
| `CountersInvariant` | `RunnerSpec => []CountersAgree` |
| `GoodputInvariant` | `RunnerSpec => []GoodputBounded` |
| `DeliveredThenClosed` | `RunnerSpec /\ []NotCutOff => []ClosesAfterDelivery` |
| `CompletedMeansDelivered` | `RunnerSpec /\ []NotCutOff => []CompletedIsTrue` |
| `FinsWaitedFor` | `RunnerSpec /\ []NotCutOff => []FinsAreAcked` |
| **`NetworkSimulator`** | |
| `NetworkTypes` | `Spec => []TypeOK` |
| `BufferInvariant` | `Spec => []BufferBounded` |
| `AccountInvariant` | `Spec => []BufferAccounts` |
| `BurstInvariant` | `Spec => []BurstsBounded` |
| `OrderInvariant` | `Spec => []OrderKept` |
| **`LiveSession`** | |
| `LiveTypes` | `Spec => []TypeOK` |
| `WaitInvariant` | `Spec => []EventWaitedFor` |
| `SnapshotInvariant` | `Spec => []SnapshotsAreExact` |

These are all the invariants and action properties of the passing runs. The
losses, delays, message lengths, number of messages and of reconfigurations are
arbitrary in them; the bounds of the runs are parameters like any other.

### The session

The invariants form a chain, each inductive relative to the one before:
`TypeInv`, `TimerInv`, `ConnInv`, `TilingInv`, and on top of it those of the
stream and of the experiment.

* `TypeOK` is not inductive. New data takes sequence numbers computed from
  differences of segment offsets, which are natural numbers only because the
  offsets of a message grow (`Ordered(segments)`, from `SegmentProperties`);
  and no packet may be handled by a machine before the start
  (`~started => CLOSED`). `TypeInv` adds both. `StepTypeInv` has one case per
  action; the lemmas before it say what each helper and each method of the
  manager and the controller returns. Since `Apply` yields `NoState` where the
  code raises, type correctness of `state` is the proof that `TCPProtocolError`
  is never raised.
* `PhaseMatchesWindow` is inductive relative to `TypeInv`: `CongestionSteps`
  shows that a controller changes in two ways only, and each method keeps
  `PhaseFits` (`OnNewAckPhase` and its siblings).
* `TimersCoverInFlight` needs to know that an endpoint tracks only packets of
  its own (`TimerInv`), because `_transmit` arms the timer for the packet's
  source. A step takes the earliest event, so everything left is due no
  earlier (`NextIsEarliest`); the entries an `rto_check` leaves tracked expire
  later than it, so their timers are not the one it used up (`TimeoutStep`);
  and `Transmit` tracks and arms together (`TransmitTimers`).
* `AnnouncedOnce`, `TimeWaitEnds`, the pairs of states (`StatePairs`) and the
  numbers of both sides (`Numbers`) are parts of one invariant, `ConnInv`. The
  handlers look at a packet and at their own
  state, never at the peer, so what they do is right only if packets are right:
  `PacketOK` says of everything on the wire or tracked that what it claims was
  true when it was sent. It stays true, because `Forward` says what no step
  takes back - numbers do not recede, an opened side stays open, a FIN is the
  last number. That is why late, repeated and overtaken packets do no harm, and
  why a FIN may set `recv_next_seq` outright without moving it back
  (`NumbersNeverRecede`). `ConnInv` also has `retries = 0` for everything
  tracked: not only the configuration of `MCRetryLimit`, no configuration ever
  gives up.
* `UnackedTiled` is about pieces, side by side (`Tiled`). Sending adds pieces at
  the end, a resend puts a piece of the same extent in the place of another, an
  ACK removes pieces from the front. The last must remove whole ones, so every
  acknowledgement under way has to fall between two pieces (`Clear`), so
  `recv_next_seq` has to, so what is delivered must be a piece, or overlap none
  because what it was a piece of is acknowledged (`Fits`). `Tiles` is these
  clauses together.
* `StatesAgree` adds to `StatePairs` that the server's FIN stays tracked while the
  client waits for it. The queue is a tiling up to the FIN's number, and an
  acknowledgement removes the FIN only if it covers that number; but no
  acknowledgement exceeds the client's `recv_next_seq`, which is still below it
  (`FinAwaited`). So a stale ACK may close the server's machine, never its books.
* `IdleMeansAcked` follows from `UnackedTiled` and `TimersCoverInFlight`: no
  event means no timer, hence no entry, hence nothing unacknowledged.
* `NoStall` and `WindowRespected` rest on `ClientStep`: a step leaves the client's
  queue as it was or resends from it, or sends a SYN or FIN in a state without data, or
  sends exactly the segments the window has room for, computed from the window
  after the ACK has resized it. A window is never under one segment, so a
  client with nothing outstanding sends.
* `StreamIntact` cannot speak of `recv_next_seq` alone, because a FIN moves it
  past data that never came. `StreamInv` keeps both: the end of what was handed
  over never passes what the client has sent, and `recv_next_seq` is that end
  or, after a FIN, one past all of it, where no data packet starts.
* `AcksAreTrue` is `Numbers` for its first part. The second is `AckInv`: everything
  the server has on the wire or tracked is `Vouched` for. An acknowledgement is
  made from `recv_next_seq`, which `StreamInv` says is the end of the stream or
  one past all the client sent; and what was vouched for stays so, because the
  stream only grows and a FIN is the last number.
* `SessionImplementsStream` maps initial states to initial states and every
  command and every event to one action of `ReliableStream` or a stutter: a data
  segment in order to `Deliver`, data sent to `Write`, and each handler that
  moves one of the two machines to the action that moves that side. That the
  peer is then where the action requires it comes from `PacketOK`.

### The experiment

* `CountersAgree` is inductive with `WireInv`: ids on the wire are given out and
  unique, so what a step sends is new, and a step takes at most one packet off
  the wire. That an expired entry is resent rather than given up, on which the
  equality of retransmissions and causes depends, is `retries = 0` again.
* `GoodputBounded` sums lengths over the originals still on the wire:
  `bytesUnique` plus that sum is never more than what the client has written
  (`Goodput`). An original that arrives moves its length from one to the other;
  one that is lost lowers the sum; copies are in neither. New originals
  take numbers past what was written before, side by side (`OutFits`), so the
  sum of their lengths fits the interval by which it grows (`SumInside`).
* `ClosesAfterDelivery` and `CompletedIsTrue` need where the session is in each
  stage of the runner (`Runs`), and that an endpoint still opening has seen no
  acknowledgement (`HalfOpen`). An idle scheduler then means that the handshake
  is over or, later, that the whole message was acknowledged and so handed over
  (`IdleMeansAcked`, `NoStall`, `StreamInv`). The hypothesis `NotCutOff` says
  that the drains before `send_message` and before `close` ended because the
  scheduler was empty. It is not an assumption about the network: it
  is false only in a run whose event budget was used up first, and
  `MCTruncated` shows that such a run can be reported as completed with bytes
  missing. Under the constants of `MCExperiment` TLC finds it true in every
  reachable state.

* `FinsAreAcked` has the same hypothesis. `close` finds the scheduler empty and
  hence both queues (`IdleMeansAcked`), so from then on everything under way is a
  FIN, a copy of one, or the acknowledgement of one (`Farewell`, `LastWords`):
  whichever ACK takes an endpoint past its FIN is one of that FIN.

### Network and live connection

* `NetworkSimulator`'s `TypeOK` is inductive; `DelayPositive` is the reason: the
  clamp makes a delay at least one unit for every jitter, and a reorder factor
  at least one keeps it so. `BufferBounded` needs the types and, for a switch
  that goes on, that a change resets the allowance to what is in flight;
  `BurstsBounded` that only a burst's own losses use up its rest.
* `BufferAccounts` is inductive with unique ids in transit (`AccountInv`).
  `OrderKept` needs to know how late a packet sent under the present conditions
  is due (`Punctual`): without jitter that is a function of its size and of
  being reordered, and it grows with the size.
* `EventWaitedFor` needs to hold from the decision to wait on (`WaitInv`): while
  `run()` waits for an event, that event stays the earliest and the clock
  running, because whatever could change either first takes `run()` out of the
  wait, and `continue` decides anew.
* `SnapshotsAreExact` is the end of a longer invariant (`StreamInv` of
  `LiveProofs`): in every phase of the loop, what the client has been told, the
  rest of the batch and the outbox together are what the session published. It
  rests on the two subscribers being attached to the bus of every session
  (`Attached`) and on nothing being published between two flushes but by one
  call into the engine.

### Sums

`MapThenSumSet` of the community modules is a recursive function over the
subsets of its argument. `SumProofs` shows that this function exists
(`SumsExist`) and that one more element adds its own number (`SumOfMore`); both
are inductions over finite sets, done by least counterexample
(`LeastNatural`), since the induction theorems of the library take an operator
as a parameter, which the installed provers cannot instantiate.

### What stays with TLC

Liveness under fairness (`ExperimentEnds`, `CommandsApplied`,
`ConnectionReleased`), because the prover does not reason about ENABLED, on
which weak fairness rests; and the six properties that are false.

## 5. Plan

Done, in this order: `TcpStateMachine`, `CongestionControl`, `Retransmission`,
`TcpSession` with its runs, `ExperimentRunner` and the first proofs; then
`ReliableStream` and its refinement, `ObservedSession`, `NetworkSimulator` and
`LiveSession` with theirs; then the proofs of every safety property the runs
check and of the refinement.

Next, to prove: that the id remembered for fast recovery is never in flight,
the reason `RecoveryEnds` fails; and the parts of liveness that are safety, such
as that a live connection whose tasks have ended has nothing left registered,
and a bound on the events a drain can take.

To model: the composition of `TcpSession` with `NetworkSimulator`. Its question
is whether a transfer makes progress when losses are no longer bounded in
number but follow from a full buffer, which retransmissions themselves fill. It
needs time relative to the present and transmission numbers that are reused, so
that a behaviour that goes on for ever has finitely many states. And `Segmenter`
and `Scheduler` as algorithms on their own data (payload bytes, heap) against
reference definitions over bounded inputs.

## 6. Not modelled

CSV export formats results and keeps no state. The HTTP routes and the
application object only look up, start and store; the experiments a route runs
in parallel share nothing. Of the statistics, RTT samples, rates, elapsed time
and the copies of window and states are left out (`ObservedSession` is *partly*
for that reason): they are averages and last values that nothing else reads.
Pydantic's validation is not modelled: a configuration that is installed is a
member of the sets of the model classes, although the code installs the merge
it has not validated. Wall-clock pacing (`real_delay_seconds`) changes nothing
but when a step happens. `reset()` of the machine, the manager and the endpoint,
and `unsubscribe` of the bus, are never called. `session_ready` may raise
before the clean-up is in place; whether it does depends on the web framework
(`GreetFails`), so no property is about it.
