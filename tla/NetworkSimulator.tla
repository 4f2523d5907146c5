---------------------------- MODULE NetworkSimulator ----------------------------
(***************************************************************************)
(* NetworkSimulator (app/simulation/network_simulator.py): the fate of     *)
(* each packet under the configured conditions and the chaos switches,     *)
(* both of which a live client changes while packets are in flight.        *)
(*                                                                         *)
(* A unit of time is the least delay of the code, 0.1 ms.  A probability   *)
(* is what its roll can yield; sizes are bytes, bandwidths kbit/s and the  *)
(* buffer size kilobytes, as in the code.                                  *)
(***************************************************************************)
EXTENDS Integers, FiniteSets, FiniteSetsExt

CONSTANTS
  Conditions,         \* the NetworkConditions a client may install
  Chaos,              \* the numeric part of ChaosConditions
  InitialSwitches,    \* the flags a session may be built with, as after a reset
  Sizes,              \* payload sizes
  Pauses,             \* bound: how far time moves at once between deliveries
  MaxSent,            \* bound: packets transmitted
  MaxChanges          \* bound: updates and toggles

Chances == {"never", "sometimes", "always"}
Switches == {"high_latency", "burst_loss", "reordering", "bandwidth_cap", "buffer_overflow"}

NetworkConditions ==
  [loss : Chances, latency : Nat, jitter : Nat, bandwidth : Nat \ {0},
   bufferKb : Nat \ {0}, reorder : Chances]

ChaosConditions ==
  [latencyMultiplier : Nat \ {0}, burstSize : Nat \ {0}, burstTrigger : Chances,
   reorderMultiplier : Nat \ {0}, bandwidthCap : Nat \ {0}]

ASSUME NetworkAssumption ==
  /\ Conditions \subseteq NetworkConditions
  /\ Chaos \in ChaosConditions
  /\ InitialSwitches \subseteq SUBSET Switches
  /\ Sizes \subseteq Nat
  /\ Pauses \subseteq Nat \ {0}
  /\ {MaxSent, MaxChanges} \subseteq Nat

VARIABLES
  conditions,         \* self.conditions
  switches,           \* the flags of self.chaos that are set
  inFlightBytes,      \* _in_flight_bytes
  burstRemaining,     \* _burst_remaining
  transit,            \* accepted packets the scheduler has yet to deliver
  now,                \* clock.now_ms
  sent,               \* packets transmitted so far
  changes,            \* updates and toggles so far
  burstLosses,        \* history: packets dropped by the latest burst
  allowed             \* history: the occupancy the overflow check must keep to

buffer == <<inFlightBytes, transit>>
burst  == <<burstRemaining, burstLosses>>
config == <<conditions, switches, changes, allowed>>
networkVars == <<buffer, burst, config, now, sent>>

On(switch) == switch \in switches

\* self._rng.random() * 100 < percent
Rolls(chance) == CASE chance = "never"  -> {FALSE}
                   [] chance = "always" -> {TRUE}
                   [] OTHER             -> BOOLEAN

Least(a, b)    == IF a <= b THEN a ELSE b
Greatest(a, b) == IF a >= b THEN a ELSE b

Capacity(c) == c.bufferKb * 1024

Init ==
  /\ conditions \in Conditions
  /\ switches \in InitialSwitches
  /\ inFlightBytes = 0 /\ burstRemaining = 0
  /\ transit = {} /\ now = 0
  /\ sent = 0 /\ changes = 0
  /\ burstLosses = 0
  /\ allowed = Capacity(conditions)

-----------------------------------------------------------------------------
(* Delays.                                                                  *)

Latency == conditions.latency * (IF On("high_latency") THEN Chaos.latencyMultiplier ELSE 1)

Bandwidth ==
  IF On("bandwidth_cap") THEN Least(conditions.bandwidth, Chaos.bandwidthCap)
  ELSE conditions.bandwidth

\* 8 bits a byte and 10 units of time a millisecond.
Serialization(size) == (size * 80) \div Bandwidth

\* Mutant of Delay: nothing keeps jitter from making it negative.
DelayUnclamped(size, jitter) == Latency + jitter + Serialization(size)

\* _compute_delay_ms, for one sample of the jitter.
Delay(size, jitter) == Greatest(1, Latency + jitter + Serialization(size))

JitterSamples == (0 - conditions.jitter) .. conditions.jitter

\* Mutant of ReorderFactor: it is the packets in order that are held back.
ReorderFactorSwapped(reordered) == IF reordered THEN 1 ELSE 2

ReorderFactor(reordered) ==
  IF ~reordered THEN 1
  ELSE IF On("reordering") THEN Chaos.reorderMultiplier ELSE 2

\* Chaos mode raises the chance of reordering to a few percent at least.
ReorderChance ==
  IF On("reordering") /\ conditions.reorder = "never" THEN "sometimes" ELSE conditions.reorder

-----------------------------------------------------------------------------
(* transmit: the first test that applies decides.                           *)

Sending == sent < MaxSent /\ sent' = sent + 1

\* Mutant of BurstRest: the packet that triggers the burst is not counted.
BurstRestWhole == Chaos.burstSize

BurstRest == Greatest(Chaos.burstSize - 1, 0)

ContinueBurst ==
  /\ Sending
  /\ On("burst_loss") /\ burstRemaining > 0
  /\ burstRemaining' = burstRemaining - 1
  /\ burstLosses' = burstLosses + 1
  /\ UNCHANGED <<buffer, config, now>>

StartBurst ==
  /\ Sending
  /\ On("burst_loss") /\ burstRemaining = 0
  /\ TRUE \in Rolls(Chaos.burstTrigger)
  /\ burstRemaining' = BurstRest
  /\ burstLosses' = 1
  /\ UNCHANGED <<buffer, config, now>>

NoBurst ==
  On("burst_loss") => burstRemaining = 0 /\ FALSE \in Rolls(Chaos.burstTrigger)

\* Mutant of Overflows: the packet's own size is not counted.
OverflowsWhenFull(size) ==
  On("buffer_overflow") /\ inFlightBytes > Capacity(conditions)

Overflows(size) ==
  On("buffer_overflow") /\ inFlightBytes + size > Capacity(conditions)

DropOverflow ==
  /\ Sending /\ NoBurst
  /\ \E size \in Sizes : Overflows(size)
  /\ UNCHANGED <<buffer, burst, config, now>>

DropRandomly ==
  /\ Sending /\ NoBurst
  /\ \E size \in Sizes : ~Overflows(size)
  /\ TRUE \in Rolls(conditions.loss)
  /\ UNCHANGED <<buffer, burst, config, now>>

\* Mutant of Occupied: only a bounded buffer is accounted for.
OccupiedIfBounded(size) == IF On("buffer_overflow") THEN size ELSE 0

Occupied(size) == size

Accept ==
  /\ Sending /\ NoBurst
  /\ \E size \in Sizes, jitter \in JitterSamples, reordered \in Rolls(ReorderChance) :
       /\ ~Overflows(size)
       /\ inFlightBytes' = inFlightBytes + Occupied(size)
       /\ transit' = transit \cup
            {[id |-> sent, size |-> size, sentAt |-> now, era |-> changes, reordered |-> reordered,
              due |-> now + Delay(size, jitter) * ReorderFactor(reordered)]}
  /\ FALSE \in Rolls(conditions.loss)
  /\ UNCHANGED <<burst, config, now>>

Transmit == ContinueBurst \/ StartBurst \/ DropOverflow \/ DropRandomly \/ Accept

-----------------------------------------------------------------------------
(* What the session and the live runner do with the simulator.              *)

\* release_buffer, when the earliest packet is delivered.
Deliver ==
  \E p \in transit :
    /\ \A q \in transit : p.due <= q.due
    /\ now' = p.due
    /\ transit' = transit \ {p}
    /\ inFlightBytes' = Greatest(0, inFlightBytes - p.size)
    /\ UNCHANGED <<burst, config, sent>>

\* Some other event of the scheduler comes before the next delivery.  (With
\* nothing in transit the passing of time makes no difference.)
Advance ==
  /\ sent < MaxSent /\ transit # {}
  /\ \E d \in Pauses : now' = now + d
  /\ \A p \in transit : now' <= p.due
  /\ UNCHANGED <<buffer, burst, config, sent>>

\* A change starts a new account of what the overflow check has to keep to:
\* it does not evict, so what is in the buffer may exceed the new capacity.
Change ==
  /\ changes < MaxChanges
  /\ changes' = changes + 1
  /\ allowed' = Greatest(Capacity(conditions'), inFlightBytes)
  /\ UNCHANGED <<buffer, burst, now, sent>>

UpdateConditions ==
  /\ conditions' \in Conditions \ {conditions}
  /\ Change
  /\ UNCHANGED switches

ToggleChaos ==
  /\ \E s \in Switches : switches' = IF On(s) THEN switches \ {s} ELSE switches \cup {s}
  /\ UNCHANGED conditions
  /\ Change

Next == Transmit \/ Deliver \/ Advance \/ UpdateConditions \/ ToggleChaos

Spec == Init /\ [][Next]_networkVars

-----------------------------------------------------------------------------
(* Properties.                                                              *)

InTransit == [id : Nat, size : Nat, sentAt : Nat, era : Nat, reordered : BOOLEAN, due : Nat]

\* Types; a packet in transit arrives later than it was sent, whatever jitter
\* does to its delay, and not in the past.
TypeOK ==
  /\ conditions \in Conditions
  /\ switches \subseteq Switches
  /\ inFlightBytes \in Nat /\ burstRemaining \in Nat
  /\ transit \subseteq InTransit
  /\ \A p \in transit : p.due > p.sentAt /\ p.due >= now
  /\ now \in Nat /\ sent \in Nat /\ changes \in Nat
  /\ burstLosses \in Nat /\ allowed \in Nat

\* The occupancy is the bytes in transit, through every switch of the
\* overflow check and change of the buffer: nothing leaks, and the clamp at
\* zero in release_buffer never has anything to correct.
BufferAccounts == inFlightBytes = MapThenSumSet(LAMBDA p : p.size, transit)

\* While the overflow check is on, the buffer never holds more than its
\* capacity, or than it held when the capacity or the switches last changed.
BufferBounded == On("buffer_overflow") => inFlightBytes <= allowed

\* A trigger costs burst_loss_size packets at most, the one that rolled it
\* included, even if the switch goes off and on again in between.
BurstsBounded == burstLosses + burstRemaining <= Chaos.burstSize

\* Without jitter or a change in between, a packet is overtaken only by a
\* smaller one or because it was chosen to be reordered.
OrderKept ==
  \A p, q \in transit :
    /\ conditions.jitter = 0 /\ p.era = changes /\ q.era = changes
    /\ p.sentAt <= q.sentAt /\ p.size <= q.size
    /\ p.reordered => q.reordered
    => p.due <= q.due
=============================================================================
