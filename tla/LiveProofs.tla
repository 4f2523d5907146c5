------------------------------- MODULE LiveProofs -------------------------------
(***************************************************************************)
(* Proofs about LiveSession, for every set of commands and events and      *)
(* every bound: no event of the session is handled but after a wait for    *)
(* just that event, and a snapshot is sent when the client has been told   *)
(* exactly what the session published.                                     *)
(***************************************************************************)
EXTENDS LiveSession, SequenceTheorems, TLAPS

\* From the decision to wait until the event is handled, what is waited for is
\* the head of a running scheduler.  The clause on resume says that a flush
\* never leads back to either of the two.
WaitInv ==
  /\ resume \in {"top", "drain"}
  /\ pc = "process" => waitFor # {}
  /\ pc \in {"wait", "process"} /\ waitFor # {}
       => ~paused /\ pending # << >> /\ waitFor = {Head(pending)}

LEMMA InitWaitInv == Init => WaitInv
BY DEF Init, WaitInv

\* A command applied leads to a flush, with resume as the caller says.
LEMMA ApplyHeadWaitInv ==
  ASSUME WaitInv, NEW next \in {"top", "drain"}, ApplyHead(next)
  PROVE  WaitInv'
BY DEF WaitInv, ApplyHead

LEMMA FailHeadWaitInv == WaitInv /\ FailHead => WaitInv'
BY DEF WaitInv, FailHead

LEMMA RunWaitInv == WaitInv /\ Run => WaitInv'
<1> SUFFICES ASSUME WaitInv, Run PROVE WaitInv'
  OBVIOUS
<1>1. CASE Top
  BY <1>1 DEF Top, WaitInv, Unmoved, session
<1>2. CASE Drain
  BY <1>2, ApplyHeadWaitInv, FailHeadWaitInv DEF Drain
<1>3. CASE BeginWait
  BY <1>3 DEF BeginWait, WaitInv, Unmoved, session
<1>4. CASE WaitCommand
  BY <1>4, ApplyHeadWaitInv, FailHeadWaitInv DEF WaitCommand, AfterCommand
<1>5. CASE WaitTimeout
  BY <1>5 DEF WaitTimeout, At, WaitInv, Unmoved, session
<1>6. CASE Process
  BY <1>6 DEF Process, WaitInv
<1>7. CASE BeginFlush
  BY <1>7 DEF BeginFlush, WaitInv
<1>8. CASE SendEvent
  BY <1>8 DEF SendEvent, At, WaitInv
<1>9. CASE SendNote
  BY <1>9 DEF SendNote, At, WaitInv
<1>10. CASE SendSnapshot
  BY <1>10 DEF SendSnapshot, WaitInv
<1>11. CASE SendFails
  BY <1>11 DEF SendFails, WaitInv
<1>12. CASE RunCancelled
  BY <1>12 DEF RunCancelled, WaitInv
<1> QED BY <1>1, <1>2, <1>3, <1>4, <1>5, <1>6, <1>7, <1>8, <1>9, <1>10, <1>11, <1>12 DEF Run

LEMMA StepWaitInv == WaitInv /\ [Next]_liveVars => WaitInv'
<1> SUFFICES ASSUME WaitInv, [Next]_liveVars PROVE WaitInv'
  OBVIOUS
<1>1. CASE Run
  BY <1>1, RunWaitInv
<1>2. CASE ReceiveCommand \/ ReceiveEnds
  BY <1>2 DEF ReceiveCommand, ReceiveEnds, WaitInv, session
<1>3. CASE Greet
  BY <1>3 DEF Greet, WaitInv
<1>4. CASE GreetFails \/ Finish \/ Disconnect
  BY <1>4 DEF GreetFails, Finish, Disconnect, WaitInv, session
<1>5. CASE UNCHANGED liveVars
  BY <1>5 DEF WaitInv, liveVars, session
<1> QED BY <1>1, <1>2, <1>3, <1>4, <1>5 DEF Next

\* run() never handles an event of a paused clock, nor one it has not waited
\* for since the last command: "re-evaluate before consuming the scheduled
\* event".
THEOREM WaitInvariant == Spec => []EventWaitedFor
<1>1. WaitInv => EventWaitedFor
  BY DEF WaitInv, EventWaitedFor
<1> QED BY <1>1, InitWaitInv, StepWaitInv, PTL DEF Spec

-----------------------------------------------------------------------------
(* What the client is told.                                                 *)

\* The client has been told, or is about to be told, exactly the events of the
\* current session: told, then the batch that is being sent, then the outbox.
StreamInv ==
  /\ subscribers = Subscribers
  /\ published \in Seq(Told) /\ folded = published
  /\ told \in Seq(Told) /\ batch \in Seq(Told) /\ outbox \in Seq(Told)
  /\ endpoint = "greeting" => pc = "created" /\ cancelled = {}
  /\ pc \in {"created", "top", "drain", "wait", "process"}
       => told = published /\ batch = << >> /\ outbox = << >>
  /\ pc = "flush" => told \o outbox = published /\ batch = << >>
  /\ pc = "send"  => told \o batch = published /\ outbox = << >>
  /\ resume \in {"top", "drain"}

LEMMA InitStreamInv == Init => StreamInv
BY EmptySeq DEF Init, StreamInv

\* What a call into the engine publishes are events of the right kind.
LEMMA PublishedKinds ==
  ASSUME NEW n \in Nat, NEW kinds \in [1 .. n -> Events], NEW base \in Nat
  PROVE  [i \in 1 .. n |-> [no |-> base + i, event |-> kinds[i]]] \in Seq(Told)
<1> DEFINE events == [i \in 1 .. n |-> [no |-> base + i, event |-> kinds[i]]]
<1>1. \A i \in 1 .. n : base + i \in Nat \ {0} /\ kinds[i] \in Events
  OBVIOUS
<1>2. events \in [1 .. n -> Told]
  BY <1>1 DEF Told
<1> HIDE DEF events
<1>3. events \in Seq(Told)
  BY <1>2, SeqDef
<1> QED BY <1>3 DEF events

\* With both subscribers on the bus, statistics and outbox get the same events.
LEMMA EngineStream ==
  ASSUME StreamInv, NEW rest, Engine(rest),
         told = published, outbox = << >>
  PROVE  /\ subscribers' = Subscribers
         /\ published' \in Seq(Told) /\ folded' = published'
         /\ outbox' \in Seq(Told) /\ told \o outbox' = published'
<1>1. Len(published) \in Nat
  BY LenProperties DEF StreamInv
<1>2. PICK events \in Seq(Told) : Publish(events)
  <2>1. PICK n \in 0 .. MaxPerStep : \E kinds \in [1 .. n -> Events] :
          Publish([i \in 1 .. n |-> [no |-> Len(published) + i, event |-> kinds[i]]])
    BY DEF Engine
  <2>2. PICK kinds \in [1 .. n -> Events] :
          Publish([i \in 1 .. n |-> [no |-> Len(published) + i, event |-> kinds[i]]])
    BY <2>1
  <2>3. n \in Nat
    BY <2>1, LiveAssumption
  <2> QED BY <1>1, <2>2, <2>3, PublishedKinds
<1>3. subscribers = Subscribers /\ subscribers' = Subscribers
  BY DEF StreamInv, Engine
<1>4. /\ published' = published \o events
      /\ folded' = folded \o events
      /\ outbox' = << >> \o events
  BY <1>2, <1>3 DEF Publish, Subscribers
<1>5. << >> \o events = events
  BY ConcatEmptySeq
<1>6. published \o events \in Seq(Told)
  BY ConcatProperties DEF StreamInv
<1> QED BY <1>3, <1>4, <1>5, <1>6 DEF StreamInv

LEMMA ApplyHeadStream ==
  ASSUME StreamInv, pc \in {"drain", "wait"}, NEW next \in {"top", "drain"},
         ApplyHead(next), UNCHANGED endpoint
  PROVE  StreamInv'
<1> DEFINE c == Head(queue)
<1>1. told = published /\ batch = << >> /\ outbox = << >> /\ endpoint # "greeting"
  BY DEF StreamInv
<1>2. pc' = "flush" /\ batch' = << >> /\ resume' = next
  BY <1>1 DEF ApplyHead
<1>3. /\ subscribers' = Subscribers
      /\ published' \in Seq(Told) /\ folded' = published'
      /\ told' \in Seq(Told) /\ outbox' \in Seq(Told)
      /\ told' \o outbox' = published'
  <2>1. CASE Drive(c)
    BY <1>1, <2>1, EngineStream DEF Drive, StreamInv
  <2>2. CASE PauseOrResume(c) \/ Configure(c) \/ ToggleExplain(c)
    BY <1>1, <2>2, ConcatEmptySeq
       DEF PauseOrResume, Configure, ToggleExplain, StreamInv, session
  <2>3. CASE Reset(c)
    BY <2>3, EmptySeq, ConcatEmptySeq DEF Reset, NewSession, Attached, Subscribers
  <2> QED BY <2>1, <2>2, <2>3 DEF ApplyHead
<1> QED BY <1>1, <1>2, <1>3, EmptySeq DEF StreamInv

LEMMA FailHeadStream ==
  StreamInv /\ pc # "created" /\ FailHead /\ UNCHANGED endpoint => StreamInv'
BY DEF StreamInv, FailHead, session, flush

\* The head of the batch moves to the end of what the client has been told.
LEMMA SendEventStream == StreamInv /\ SendEvent => StreamInv'
<1> SUFFICES ASSUME StreamInv, SendEvent PROVE StreamInv'
  OBVIOUS
<1>1. /\ told \in Seq(Told) /\ batch \in Seq(Told) /\ batch # << >>
      /\ told \o batch = published
  BY DEF StreamInv, SendEvent, At
<1> DEFINE e == Head(batch)
<1>2. e \in Told /\ Tail(batch) \in Seq(Told)
  BY <1>1, HeadTailProperties
<1>3. Append(told, e) = told \o <<e>> /\ Append(told, e) \in Seq(Told)
  BY <1>1, <1>2, AppendIsConcat, AppendProperties
<1>4. <<e>> \o Tail(batch) = batch
  BY <1>1
<1>5. <<e>> \in Seq(Told)
  BY <1>2
<1>6. Append(told, e) \o Tail(batch) = published
  BY <1>1, <1>2, <1>3, <1>4, <1>5, ConcatAssociative
<1> QED BY <1>2, <1>3, <1>6 DEF SendEvent, At, StreamInv, session, tasks, outside

LEMMA RunStream == StreamInv /\ Run => StreamInv'
<1> SUFFICES ASSUME StreamInv, Run PROVE StreamInv'
  OBVIOUS
<1> USE DEF session, flush, tasks, outside
<1>1. CASE Top \/ BeginWait
  BY <1>1 DEF Top, BeginWait, At, StreamInv, Unmoved
<1>2. CASE Drain
  BY <1>2, ApplyHeadStream, FailHeadStream DEF Drain, At
<1>3. CASE WaitCommand
  BY <1>3, ApplyHeadStream, FailHeadStream DEF WaitCommand, AfterCommand
<1>4. CASE WaitTimeout
  BY <1>4 DEF WaitTimeout, At, StreamInv, Unmoved
<1>5. CASE Process
  <2>1. told = published /\ batch = << >> /\ outbox = << >> /\ endpoint # "greeting"
    BY <1>5 DEF Process, At, StreamInv
  <2>2. /\ subscribers' = Subscribers
        /\ published' \in Seq(Told) /\ folded' = published'
        /\ outbox' \in Seq(Told) /\ told \o outbox' = published'
    <3>1. CASE pending = << >>
      BY <1>5, <2>1, <3>1, ConcatEmptySeq DEF Process, StreamInv
    <3>2. CASE pending # << >>
      BY <1>5, <2>1, <3>2, EngineStream DEF Process
    <3> QED BY <3>1, <3>2
  <2> QED BY <1>5, <2>1, <2>2 DEF Process, StreamInv
<1>6. CASE BeginFlush
  BY <1>6, EmptySeq DEF BeginFlush, At, StreamInv
<1>7. CASE SendEvent
  BY <1>7, SendEventStream
<1>8. CASE SendNote
  BY <1>8 DEF SendNote, At, StreamInv
<1>9. CASE SendSnapshot
  <2>1. told = published
    BY <1>9, ConcatEmptySeq DEF SendSnapshot, At, AtSnapshot, StreamInv
  <2> QED BY <1>9, <2>1 DEF SendSnapshot, At, AtSnapshot, StreamInv
<1>10. CASE SendFails \/ RunCancelled
  BY <1>10 DEF SendFails, RunCancelled, At, StreamInv
<1> QED BY <1>1, <1>2, <1>3, <1>4, <1>5, <1>6, <1>7, <1>8, <1>9, <1>10 DEF Run

LEMMA StepStream == StreamInv /\ [Next]_liveVars => StreamInv'
<1> SUFFICES ASSUME StreamInv, [Next]_liveVars PROVE StreamInv'
  OBVIOUS
<1> USE DEF session, flush, tasks, outside
<1>1. CASE Run
  BY <1>1, RunStream
<1>2. CASE ReceiveCommand \/ ReceiveEnds
  BY <1>2 DEF ReceiveCommand, ReceiveEnds, StreamInv
<1>3. CASE Greet
  BY <1>3 DEF Greet, StreamInv
<1>4. CASE GreetFails \/ Finish \/ Disconnect
  BY <1>4 DEF GreetFails, Finish, Disconnect, StreamInv
<1>5. CASE UNCHANGED liveVars
  BY <1>5 DEF StreamInv, liveVars
<1> QED BY <1>1, <1>2, <1>3, <1>4, <1>5 DEF Next

\* "Every engine-published event during a single command or tick is flushed in
\* publish order, followed by a stats_snapshot": at the snapshot the client and
\* the statistics have exactly the events of the current session, through any
\* resets, pauses and commands applied in between.
THEOREM SnapshotInvariant == Spec => []SnapshotsAreExact
<1>1. StreamInv => SnapshotsAreExact
  BY ConcatEmptySeq DEF StreamInv, SnapshotsAreExact, AtSnapshot
<1> QED BY <1>1, InitStreamInv, StepStream, PTL DEF Spec

-----------------------------------------------------------------------------
(* Types.                                                                   *)

\* The parts of the type invariant that the session, the flush and the
\* command queue have to do with.
SessionTypes(pend, sched, pub, out, fold) ==
  /\ pend \in Seq(1 .. sched) /\ sched \in 0 .. MaxScheduled
  /\ pub \in Seq(Told) /\ out \in Seq(Told) /\ fold \in Seq(Told)

LEMMA InitTypeOK == Init => TypeOK
<1> SUFFICES ASSUME Init PROVE TypeOK
  OBVIOUS
<1>1. << >> \in Seq(1 .. 0) /\ << >> \in Seq(Told) /\ << >> \in Seq(Commands)
  BY EmptySeq
<1>2. 0 \in 0 .. MaxScheduled /\ 0 \in 0 .. MaxCommands
  BY LiveAssumption
<1> QED BY <1>1, <1>2 DEF Init, TypeOK, Subscribers

\* What is scheduled joins the events that were.
LEMMA SchedulesType ==
  ASSUME scheduled \in Nat, NEW rest \in Seq(1 .. scheduled), NEW n \in Nat,
         NEW s \in Schedules(rest, n)
  PROVE  s \in Seq(1 .. scheduled + n)
<1>1. Len(rest) \in Nat /\ ToSet(rest) \subseteq 1 .. scheduled
  BY LenProperties, ElementOfSeq DEF ToSet
<1>2. ToSet(rest) \cup scheduled + 1 .. scheduled + n \subseteq 1 .. scheduled + n
  BY <1>1
<1>3. Len(rest) + n \in Nat
  BY <1>1
<1>4. s \in [1 .. Len(rest) + n -> 1 .. scheduled + n]
  <2> DEFINE D == 1 .. Len(rest) + n
             old == ToSet(rest) \cup scheduled + 1 .. scheduled + n
             new == 1 .. scheduled + n
  <2>1. s \in [D -> old]
    BY DEF Schedules
  <2>2. old \subseteq new
    BY <1>2
  <2> HIDE DEF D, old, new
  <2>3. s \in [D -> new]
    BY <2>1, <2>2
  <2> QED BY <2>3 DEF D, new
<1> QED
  <2> DEFINE S == 1 .. scheduled + n
             k == Len(rest) + n
  <2>1. k \in Nat /\ s \in [1 .. k -> S]
    BY <1>3, <1>4
  <2> HIDE DEF S, k
  <2>2. s \in Seq(S)
    BY <2>1, SeqDef
  <2> QED BY <2>2 DEF S

LEMMA EngineTypes ==
  ASSUME TypeOK, NEW rest \in Seq(1 .. scheduled), Engine(rest)
  PROVE  /\ SessionTypes(pending', scheduled', published', outbox', folded')
         /\ scheduled <= scheduled'
         /\ UNCHANGED <<paused, subscribers>>
<1>1. Len(published) \in Nat /\ scheduled \in Nat
  BY LenProperties, LiveAssumption DEF TypeOK
<1>2. PICK events \in Seq(Told) : Publish(events)
  <2>1. PICK n \in 0 .. MaxPerStep : \E kinds \in [1 .. n -> Events] :
          Publish([i \in 1 .. n |-> [no |-> Len(published) + i, event |-> kinds[i]]])
    BY DEF Engine
  <2>2. PICK kinds \in [1 .. n -> Events] :
          Publish([i \in 1 .. n |-> [no |-> Len(published) + i, event |-> kinds[i]]])
    BY <2>1
  <2>3. n \in Nat
    BY <2>1, LiveAssumption
  <2> QED BY <1>1, <2>2, <2>3, PublishedKinds
<1>3. published' \in Seq(Told) /\ outbox' \in Seq(Told) /\ folded' \in Seq(Told)
  BY <1>2, ConcatProperties DEF Publish, TypeOK
<1>4. /\ pending' \in Seq(1 .. scheduled') /\ scheduled' \in 0 .. MaxScheduled
      /\ scheduled <= scheduled'
  <2>1. PICK n \in 0 .. MaxScheduled - scheduled :
          scheduled' = scheduled + n /\ pending' \in Schedules(rest, n)
    BY DEF Engine
  <2>2. n \in Nat /\ scheduled + n <= MaxScheduled /\ scheduled <= MaxScheduled
    <3>1. MaxScheduled \in Nat /\ scheduled \in 0 .. MaxScheduled
      BY LiveAssumption DEF TypeOK
    <3>2. n \in 0 .. MaxScheduled - scheduled
      BY <2>1
    <3> QED BY <3>1, <3>2
  <2>3. pending' \in Seq(1 .. scheduled')
    BY <1>1, <2>1, <2>2, SchedulesType
  <2> QED BY <1>1, <2>1, <2>2, <2>3, LiveAssumption
<1> QED BY <1>3, <1>4 DEF SessionTypes, Engine

\* A command leaves everything it may change with its type.
LEMMA ApplyHeadTypes ==
  ASSUME TypeOK, NEW next \in {"top", "drain"}, ApplyHead(next),
         cancelled' \subseteq cancelled,
         UNCHANGED <<receiving, endpoint, registered, connected, commands>>
  PROVE  TypeOK'
<1> DEFINE c == Head(queue)
<1>1. queue' \in Seq(Commands)
  BY HeadTailProperties DEF ApplyHead, TypeOK
<1>2. /\ SessionTypes(pending', scheduled', published', outbox', folded')
      /\ paused' \in BOOLEAN /\ subscribers' \subseteq Subscribers
      /\ explain' \in BOOLEAN /\ told' \in Seq(Told)
  <2>1. CASE Drive(c)
    <3>1. pending \in Seq(1 .. scheduled)
      BY DEF TypeOK
    <3> QED BY <2>1, <3>1, EngineTypes DEF Drive, TypeOK
  <2>2. CASE PauseOrResume(c) \/ Configure(c) \/ ToggleExplain(c)
    BY <2>2 DEF PauseOrResume, Configure, ToggleExplain, TypeOK, SessionTypes, session
  <2>3. CASE Reset(c)
    BY <2>3, EmptySeq
       DEF Reset, NewSession, Attached, Subscribers, TypeOK, SessionTypes
  <2> QED BY <2>1, <2>2, <2>3 DEF ApplyHead
<1> QED BY <1>1, <1>2 DEF ApplyHead, TypeOK, SessionTypes

LEMMA FailHeadTypes ==
  ASSUME TypeOK, FailHead, cancelled' \subseteq cancelled,
         UNCHANGED <<receiving, endpoint, registered, connected, commands>>
  PROVE  TypeOK'
<1>1. queue' \in Seq(Commands)
  BY HeadTailProperties DEF FailHead, TypeOK
<1> QED BY <1>1 DEF FailHead, TypeOK, session, flush, control

LEMMA RunTypes == TypeOK /\ Run => TypeOK'
<1> SUFFICES ASSUME TypeOK, Run PROVE TypeOK'
  OBVIOUS
<1> USE DEF session, flush, control, tasks, outside
<1>1. CASE Top \/ WaitTimeout
  BY <1>1 DEF Top, WaitTimeout, Unmoved, TypeOK
<1>2. CASE Drain
  BY <1>2, ApplyHeadTypes, FailHeadTypes DEF Drain
<1>3. CASE WaitCommand
  BY <1>3, ApplyHeadTypes, FailHeadTypes DEF WaitCommand, AfterCommand
<1>4. CASE BeginWait
  <2>1. pending # << >> => Head(pending) \in 1 .. scheduled
    BY HeadTailProperties DEF TypeOK
  <2>2. waitFor' \subseteq 1 .. scheduled
    BY <1>4, <2>1 DEF BeginWait
  <2> QED BY <1>4, <2>2 DEF BeginWait, Unmoved, TypeOK
<1>5. CASE Process
  <2>1. /\ SessionTypes(pending', scheduled', published', outbox', folded')
        /\ scheduled <= scheduled'
        /\ UNCHANGED <<paused, subscribers>>
    <3>1. CASE pending = << >>
      BY <1>5, <3>1, LiveAssumption DEF Process, SessionTypes, TypeOK
    <3>2. CASE pending # << >>
      <4>1. Tail(pending) \in Seq(1 .. scheduled)
        BY <3>2, HeadTailProperties DEF TypeOK
      <4> QED BY <1>5, <3>2, <4>1, EngineTypes DEF Process
    <3> QED BY <3>1, <3>2
  <2>2. waitFor' \subseteq 1 .. scheduled'
    BY <1>5, <2>1, LiveAssumption DEF Process, TypeOK, SessionTypes
  <2> QED BY <1>5, <2>1, <2>2 DEF Process, TypeOK, SessionTypes
<1>6. CASE BeginFlush
  BY <1>6, EmptySeq DEF BeginFlush, TypeOK
<1>7. CASE SendEvent
  <2>1. Head(batch) \in Told /\ batch' \in Seq(Told)
    BY <1>7, HeadTailProperties DEF SendEvent, TypeOK
  <2>2. told' \in Seq(Told)
    BY <1>7, <2>1, AppendProperties DEF SendEvent, TypeOK
  <2>3. noteDue' \in BOOLEAN
    BY <1>7 DEF SendEvent
  <2> QED BY <1>7, <2>1, <2>2, <2>3 DEF SendEvent, TypeOK
<1>8. CASE SendNote \/ SendSnapshot \/ SendFails
  BY <1>8 DEF SendNote, SendSnapshot, SendFails, TypeOK
<1>9. CASE RunCancelled
  BY <1>9 DEF RunCancelled, TypeOK
<1> QED BY <1>1, <1>2, <1>3, <1>4, <1>5, <1>6, <1>7, <1>8, <1>9 DEF Run

LEMMA StepTypes == TypeOK /\ [Next]_liveVars => TypeOK'
<1> SUFFICES ASSUME TypeOK, [Next]_liveVars PROVE TypeOK'
  OBVIOUS
<1> USE DEF session, flush, control, tasks, outside
<1>1. CASE Run
  BY <1>1, RunTypes
<1>2. CASE ReceiveCommand
  <2>1. queue' \in Seq(Commands)
    BY <1>2, AppendProperties DEF ReceiveCommand, TypeOK
  <2>2. commands' \in 0 .. MaxCommands
    BY <1>2, LiveAssumption DEF ReceiveCommand, TypeOK
  <2> QED BY <1>2, <2>1, <2>2 DEF ReceiveCommand, TypeOK
<1>3. CASE ReceiveEnds \/ Greet \/ GreetFails \/ Disconnect
  BY <1>3 DEF ReceiveEnds, Greet, GreetFails, Disconnect, TypeOK
<1>4. CASE Finish
  <2>1. cancelled' \subseteq {"run", "receive"} /\ stopped' \in BOOLEAN
    BY <1>4 DEF Finish, Stops, TypeOK
  <2> QED BY <1>4, <2>1 DEF Finish, TypeOK
<1>5. CASE UNCHANGED liveVars
  BY <1>5 DEF liveVars, TypeOK
<1> QED BY <1>1, <1>2, <1>3, <1>4, <1>5 DEF Next

\* For every set of commands and events the runner's and the endpoint's
\* variables keep their types: what is waited for is an event of the scheduler,
\* run() goes on after a flush at one of the two places it came from, and
\* only the two tasks are ever cancelled.
THEOREM LiveTypes == Spec => []TypeOK
<1> QED BY InitTypeOK, StepTypes, PTL DEF Spec
=============================================================================
