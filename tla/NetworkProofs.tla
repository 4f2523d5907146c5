----------------------------- MODULE NetworkProofs -----------------------------
(***************************************************************************)
(* Proofs about NetworkSimulator: types, the bound on the buffer and its   *)
(* account, the length of bursts and the order of arrival, for every set   *)
(* of conditions and chaos parameters.                                     *)
(***************************************************************************)
EXTENDS NetworkSimulator, SumProofs

LEMMA CapacityIsNat ==
  ASSUME NEW c \in NetworkConditions
  PROVE  Capacity(c) \in Nat
BY DEF Capacity, NetworkConditions

\* _compute_delay_ms: whole and at least the least delay, for every jitter.
LEMMA DelayPositive ==
  ASSUME TypeOK, NEW size \in Sizes, NEW jitter \in JitterSamples
  PROVE  Delay(size, jitter) \in Nat \ {0}
<1>1. conditions \in NetworkConditions /\ Chaos \in ChaosConditions /\ size \in Nat
  BY NetworkAssumption DEF TypeOK
<1>2. Latency \in Nat
  BY <1>1 DEF Latency, NetworkConditions, ChaosConditions
<1>3. Bandwidth \in Nat \ {0}
  BY <1>1 DEF Bandwidth, Least, NetworkConditions, ChaosConditions
<1>4. Serialization(size) \in Nat
  <2>1. size * 80 \in Nat
    BY <1>1
  <2> QED BY <2>1, <1>3 DEF Serialization
<1>5. jitter \in Int
  BY <1>1 DEF JitterSamples, NetworkConditions
<1> QED BY <1>2, <1>4, <1>5 DEF Delay, Greatest

LEMMA ReorderFactorPositive ==
  ASSUME NEW reordered \in BOOLEAN
  PROVE  ReorderFactor(reordered) \in Nat \ {0}
BY NetworkAssumption DEF ReorderFactor, ChaosConditions

LEMMA PositiveProduct ==
  ASSUME NEW a \in Nat \ {0}, NEW b \in Nat \ {0}
  PROVE  a * b \in Nat \ {0}
BY SMT

\* A packet that is accepted has the type of one in transit and a due time
\* after now.
LEMMA AcceptedPacket ==
  ASSUME TypeOK, NEW size \in Sizes, NEW jitter \in JitterSamples,
         NEW reordered \in Rolls(ReorderChance)
  PROVE  LET p == [id |-> sent, size |-> size, sentAt |-> now, era |-> changes,
                   reordered |-> reordered,
                   due |-> now + Delay(size, jitter) * ReorderFactor(reordered)]
         IN  p \in InTransit /\ p.due > p.sentAt /\ p.due >= now
<1>1. reordered \in BOOLEAN
  BY DEF Rolls
<1>2. Delay(size, jitter) * ReorderFactor(reordered) \in Nat \ {0}
  BY <1>1, DelayPositive, ReorderFactorPositive, PositiveProduct
<1> QED BY <1>1, <1>2, NetworkAssumption DEF TypeOK, InTransit

-----------------------------------------------------------------------------
LEMMA InitTypeOK == Init => TypeOK
<1> SUFFICES ASSUME Init PROVE TypeOK
  OBVIOUS
<1>1. Capacity(conditions) \in Nat
  BY CapacityIsNat, NetworkAssumption DEF Init
<1> QED BY <1>1, NetworkAssumption DEF Init, TypeOK

LEMMA StepTypeOK == TypeOK /\ [Next]_networkVars => TypeOK'
<1> SUFFICES ASSUME TypeOK, [Next]_networkVars PROVE TypeOK'
  OBVIOUS
<1> USE DEF TypeOK, buffer, burst, config
<1>1. CASE ContinueBurst
  BY <1>1 DEF ContinueBurst, Sending
<1>2. CASE StartBurst
  BY <1>2, NetworkAssumption DEF StartBurst, Sending, BurstRest, Greatest, ChaosConditions
<1>3. CASE DropOverflow
  BY <1>3 DEF DropOverflow, Sending
<1>4. CASE DropRandomly
  BY <1>4 DEF DropRandomly, Sending
<1>5. CASE Accept
  <2>1. PICK size \in Sizes, jitter \in JitterSamples, reordered \in Rolls(ReorderChance) :
          /\ inFlightBytes' = inFlightBytes + Occupied(size)
          /\ transit' = transit \cup
               {[id |-> sent, size |-> size, sentAt |-> now, era |-> changes,
                 reordered |-> reordered,
                 due |-> now + Delay(size, jitter) * ReorderFactor(reordered)]}
    BY <1>5 DEF Accept
  <2> DEFINE p == [id |-> sent, size |-> size, sentAt |-> now, era |-> changes,
                   reordered |-> reordered,
                   due |-> now + Delay(size, jitter) * ReorderFactor(reordered)]
  <2>2. p \in InTransit /\ p.due > p.sentAt /\ p.due >= now
    BY AcceptedPacket
  <2>3. transit' = transit \cup {p}
    BY <2>1
  <2>4. inFlightBytes' \in Nat
    BY <2>1, NetworkAssumption DEF Occupied
  <2> HIDE DEF p
  <2> QED BY <1>5, <2>2, <2>3, <2>4 DEF Accept, Sending
<1>6. CASE Deliver
  <2>1. PICK p \in transit :
          /\ \A q \in transit : p.due <= q.due
          /\ now' = p.due
          /\ transit' = transit \ {p}
          /\ inFlightBytes' = Greatest(0, inFlightBytes - p.size)
    BY <1>6 DEF Deliver
  <2>2. p \in InTransit
    OBVIOUS
  <2> QED BY <1>6, <2>1, <2>2 DEF Deliver, InTransit, Greatest
<1>7. CASE Advance
  BY <1>7, NetworkAssumption DEF Advance, InTransit
<1>8. CASE UpdateConditions
  <2>1. Capacity(conditions') \in Nat
    BY <1>8, CapacityIsNat, NetworkAssumption DEF UpdateConditions
  <2> QED BY <1>8, <2>1 DEF UpdateConditions, Change, Greatest
<1>9. CASE ToggleChaos
  <2>1. Capacity(conditions') \in Nat
    BY <1>9, CapacityIsNat, NetworkAssumption DEF ToggleChaos
  <2>2. switches' \subseteq Switches
    BY <1>9 DEF ToggleChaos
  <2> QED BY <1>9, <2>1, <2>2 DEF ToggleChaos, Change, Greatest
<1>10. CASE UNCHANGED networkVars
  BY <1>10 DEF networkVars
<1> QED BY <1>1, <1>2, <1>3, <1>4, <1>5, <1>6, <1>7, <1>8, <1>9, <1>10 DEF Next, Transmit

\* Whatever conditions and switches a client installs, in whatever order, the
\* simulator's state keeps its types and every packet is due after it is sent.
THEOREM NetworkTypes == Spec => []TypeOK
<1> QED BY InitTypeOK, StepTypeOK, PTL DEF Spec

-----------------------------------------------------------------------------
LEMMA InitBounds == Init => BufferBounded /\ BurstsBounded
<1> SUFFICES ASSUME Init PROVE BufferBounded /\ BurstsBounded
  OBVIOUS
<1>1. Capacity(conditions) \in Nat
  BY CapacityIsNat, NetworkAssumption DEF Init
<1> QED BY <1>1, NetworkAssumption DEF Init, BufferBounded, BurstsBounded, ChaosConditions

\* The overflow check compares with the capacity of the moment, which is not
\* more than what the last change allowed.
CapacityAllowed == Capacity(conditions) <= allowed

LEMMA InitCapacityAllowed == Init => CapacityAllowed
BY CapacityIsNat, NetworkAssumption DEF Init, CapacityAllowed

LEMMA StepBounds ==
  ASSUME TypeOK, CapacityAllowed, BufferBounded, BurstsBounded, [Next]_networkVars
  PROVE  CapacityAllowed' /\ BufferBounded' /\ BurstsBounded'
<1>1. Capacity(conditions) \in Nat /\ Chaos.burstSize \in Nat \ {0}
  BY CapacityIsNat, NetworkAssumption DEF TypeOK, ChaosConditions
<1> USE DEF TypeOK, CapacityAllowed, BufferBounded, BurstsBounded, On, buffer, burst, config
<1>2. CASE ContinueBurst
  BY <1>1, <1>2 DEF ContinueBurst
<1>3. CASE StartBurst
  BY <1>1, <1>3 DEF StartBurst, BurstRest, Greatest
<1>4. CASE DropOverflow \/ DropRandomly
  BY <1>4 DEF DropOverflow, DropRandomly
<1>5. CASE Accept
  <2>1. PICK size \in Sizes : /\ ~Overflows(size)
                              /\ inFlightBytes' = inFlightBytes + Occupied(size)
    BY <1>5 DEF Accept
  <2> QED BY <1>1, <1>5, <2>1, NetworkAssumption DEF Accept, Overflows, Occupied
<1>6. CASE Deliver
  <2>1. PICK p \in transit : inFlightBytes' = Greatest(0, inFlightBytes - p.size)
    BY <1>6 DEF Deliver
  <2>2. p.size \in Nat
    BY <2>1 DEF InTransit
  <2>3. inFlightBytes' <= inFlightBytes
    BY <2>1, <2>2 DEF Greatest
  <2> QED BY <1>6, <2>1, <2>2, <2>3 DEF Deliver, Greatest
<1>7. CASE Advance
  BY <1>7 DEF Advance
<1>8. CASE UpdateConditions
  <2>1. Capacity(conditions') \in Nat
    BY <1>8, CapacityIsNat, NetworkAssumption DEF UpdateConditions
  <2> QED BY <1>8, <2>1 DEF UpdateConditions, Change, Greatest
<1>9. CASE ToggleChaos
  BY <1>1, <1>9 DEF ToggleChaos, Change, Greatest
<1>10. CASE UNCHANGED networkVars
  BY <1>10 DEF networkVars
<1> QED BY <1>2, <1>3, <1>4, <1>5, <1>6, <1>7, <1>8, <1>9, <1>10 DEF Next, Transmit

\* With the overflow check on, the buffer holds at most its capacity or what
\* it held at the last change of conditions or switches.
THEOREM BufferInvariant == Spec => []BufferBounded
<1> QED BY InitTypeOK, StepTypeOK, InitBounds, InitCapacityAllowed, StepBounds, PTL DEF Spec

\* A trigger never costs more than burst_loss_size packets.
THEOREM BurstInvariant == Spec => []BurstsBounded
<1> QED BY InitTypeOK, StepTypeOK, InitBounds, InitCapacityAllowed, StepBounds, PTL DEF Spec

-----------------------------------------------------------------------------
(* Order.                                                                   *)

LEMMA QuotientMonotone ==
  ASSUME NEW a \in Nat, NEW b \in Nat, NEW d \in Nat \ {0}, a <= b
  PROVE  a \div d \in Nat /\ b \div d \in Nat /\ a \div d <= b \div d
BY SMT

LEMMA ProductMonotone ==
  ASSUME NEW a \in Nat, NEW b \in Nat, NEW m \in Nat, NEW n \in Nat, a <= b, m <= n
  PROVE  a * m <= b * n
<1>1. a * m <= b * m
  BY SMT
<1>2. b * m <= b * n
  BY SMT
<1> QED BY <1>1, <1>2, SMT

\* Without jitter the larger packet takes at least as long.
LEMMA DelayMonotone ==
  ASSUME TypeOK, NEW a \in Nat, NEW b \in Nat, a <= b
  PROVE  Delay(a, 0) \in Nat /\ Delay(b, 0) \in Nat /\ Delay(a, 0) <= Delay(b, 0)
<1>1. conditions \in NetworkConditions /\ Chaos \in ChaosConditions
  BY NetworkAssumption DEF TypeOK
<1>2. Latency \in Nat
  BY <1>1 DEF Latency, NetworkConditions, ChaosConditions
<1>3. Bandwidth \in Nat \ {0}
  BY <1>1 DEF Bandwidth, Least, NetworkConditions, ChaosConditions
<1>4. a * 80 \in Nat /\ b * 80 \in Nat /\ a * 80 <= b * 80
  OBVIOUS
<1>5. Serialization(a) \in Nat /\ Serialization(b) \in Nat /\ Serialization(a) <= Serialization(b)
  BY <1>3, <1>4, QuotientMonotone DEF Serialization
<1> QED BY <1>2, <1>5 DEF Delay, Greatest

LEMMA ReorderFactorMonotone ==
  ASSUME NEW r \in BOOLEAN, NEW s \in BOOLEAN, r => s
  PROVE  ReorderFactor(r) <= ReorderFactor(s)
BY NetworkAssumption DEF ReorderFactor, ChaosConditions

\* A packet sent under the present conditions, if they have no jitter, is due
\* as late as its size and its being reordered say.
Punctual(p) ==
  /\ p.era <= changes
  /\ conditions.jitter = 0 /\ p.era = changes
       => p.due = p.sentAt + Delay(p.size, 0) * ReorderFactor(p.reordered)

DuesInv == \A p \in transit : Punctual(p)

LEMMA InitDuesInv == Init => DuesInv
BY DEF Init, DuesInv

LEMMA StepDuesInv == TypeOK /\ DuesInv /\ [Next]_networkVars => DuesInv'
<1> SUFFICES ASSUME TypeOK, DuesInv, [Next]_networkVars PROVE DuesInv'
  OBVIOUS
<1> USE DEF DuesInv, buffer, burst, config
<1>1. ASSUME UNCHANGED config, NEW p, Punctual(p)
      PROVE  Punctual(p)'
  BY <1>1 DEF Punctual, Delay, Latency, Serialization, Bandwidth, ReorderFactor, On
<1>2. CASE Accept
  <2>1. PICK size \in Sizes, jitter \in JitterSamples, reordered \in Rolls(ReorderChance) :
          transit' = transit \cup
            {[id |-> sent, size |-> size, sentAt |-> now, era |-> changes,
              reordered |-> reordered,
              due |-> now + Delay(size, jitter) * ReorderFactor(reordered)]}
    BY <1>2 DEF Accept
  <2>q. PICK q :
          /\ q = [id |-> sent, size |-> size, sentAt |-> now, era |-> changes,
                  reordered |-> reordered,
                  due |-> now + Delay(size, jitter) * ReorderFactor(reordered)]
          /\ transit' = transit \cup {q}
    BY <2>1
  <2>2. UNCHANGED config
    BY <1>2 DEF Accept
  <2>3. conditions.jitter = 0 => jitter = 0
    BY DEF JitterSamples
  <2>4. Punctual(q)
    BY <2>q, <2>3 DEF Punctual, TypeOK
  <2>5. \A p \in transit' : Punctual(p)
    BY <2>q, <2>4
  <2> QED BY <1>1, <2>2, <2>5
<1>3. CASE ContinueBurst \/ StartBurst \/ DropOverflow \/ DropRandomly \/ Advance
  <2>1. UNCHANGED <<config, transit>>
    BY <1>3 DEF ContinueBurst, StartBurst, DropOverflow, DropRandomly, Advance
  <2> QED BY <1>1, <2>1
<1>4. CASE Deliver
  <2>1. UNCHANGED config /\ transit' \subseteq transit
    BY <1>4 DEF Deliver
  <2> QED BY <1>1, <2>1
<1>5. CASE UpdateConditions \/ ToggleChaos
  <2>1. transit' = transit /\ changes' = changes + 1 /\ changes \in Nat
    BY <1>5 DEF UpdateConditions, ToggleChaos, Change, TypeOK
  <2>2. \A p \in transit : p.era \in Nat /\ p.era <= changes
    BY DEF TypeOK, InTransit, Punctual
  <2> QED BY <2>1, <2>2 DEF Punctual
<1>6. CASE UNCHANGED networkVars
  BY <1>1, <1>6 DEF networkVars
<1> QED BY <1>2, <1>3, <1>4, <1>5, <1>6 DEF Next, Transmit

LEMMA DuesOrder == TypeOK /\ DuesInv => OrderKept
<1> SUFFICES ASSUME TypeOK, DuesInv,
                    NEW p \in transit, NEW q \in transit,
                    conditions.jitter = 0, p.era = changes, q.era = changes,
                    p.sentAt <= q.sentAt, p.size <= q.size, p.reordered => q.reordered
             PROVE  p.due <= q.due
  BY DEF OrderKept
<1>1. p \in InTransit /\ q \in InTransit
  BY DEF TypeOK
<1>2. /\ p.size \in Nat /\ p.sentAt \in Nat /\ p.reordered \in BOOLEAN
      /\ q.size \in Nat /\ q.sentAt \in Nat /\ q.reordered \in BOOLEAN
  BY <1>1 DEF InTransit
<1>3. /\ p.due = p.sentAt + Delay(p.size, 0) * ReorderFactor(p.reordered)
      /\ q.due = q.sentAt + Delay(q.size, 0) * ReorderFactor(q.reordered)
  BY DEF DuesInv, Punctual
<1>4. /\ Delay(p.size, 0) \in Nat /\ Delay(q.size, 0) \in Nat
      /\ Delay(p.size, 0) <= Delay(q.size, 0)
  BY <1>2, DelayMonotone
<1>5. /\ ReorderFactor(p.reordered) \in Nat /\ ReorderFactor(q.reordered) \in Nat
      /\ ReorderFactor(p.reordered) <= ReorderFactor(q.reordered)
  BY <1>2, ReorderFactorMonotone, ReorderFactorPositive
<1> DEFINE a == Delay(p.size, 0) * ReorderFactor(p.reordered)
           b == Delay(q.size, 0) * ReorderFactor(q.reordered)
<1>6. a \in Int /\ b \in Int /\ a <= b
  BY <1>4, <1>5, ProductMonotone
<1>7. p.due = p.sentAt + a /\ q.due = q.sentAt + b
  BY <1>3
<1> HIDE DEF a, b
<1> QED BY <1>2, <1>6, <1>7

\* A packet is overtaken only by a smaller one or because it was chosen to be
\* reordered, as long as nothing changes in between and there is no jitter.
THEOREM OrderInvariant == Spec => []OrderKept
<1> QED BY InitTypeOK, StepTypeOK, InitDuesInv, StepDuesInv, DuesOrder, PTL DEF Spec

-----------------------------------------------------------------------------
(* The account of the buffer.                                               *)

SizeOf == [p \in InTransit |-> p.size]

Occupancy(pkts) == MapThenSumSet(LAMBDA p : p.size, pkts)

\* MapThenSumSet is the sum of the sizes.
LEMMA OccupancyIsSum ==
  ASSUME NEW T \in SUBSET InTransit, IsFiniteSet(T)
  PROVE  IsSum(Occupancy(T), T, SizeOf)
<1> DEFINE Iter(f) == f = [s \in SUBSET T |-> IF s = {} THEN 0
                             ELSE (CHOOSE x \in s : TRUE).size + f[s \ {CHOOSE x \in s : TRUE}]]
           iter == CHOOSE f : Iter(f)
<1>1. Occupancy(T) = iter[T]
  BY DEF Occupancy, MapThenSumSet, MapThenFoldSet
<1>2. SizeOf \in [InTransit -> Nat]
  BY DEF SizeOf, InTransit
<1>3. PICK f : Sums(f, T, SizeOf)
  BY <1>2, SumsExist
<1>4. ASSUME NEW s \in SUBSET T, s # {}
      PROVE  SizeOf[FirstOf(s)] = (CHOOSE x \in s : TRUE).size
  <2>1. FirstOf(s) \in InTransit
    BY <1>4, FirstOfIn
  <2> QED BY <2>1 DEF SizeOf, FirstOf
<1>5. ASSUME NEW g PROVE Sums(g, T, SizeOf) <=> Iter(g)
  BY <1>4 DEF Sums, FirstOf
<1> HIDE DEF Iter
<1>6. \E g : Iter(g)
  BY <1>3, <1>5, Zenon
<1>7. Iter(iter)
  BY <1>6
<1> HIDE DEF iter
<1> QED BY <1>1, <1>5, <1>7 DEF IsSum

\* An empty buffer holds nothing, one more packet its size.
LEMMA OccupancyOfNone == Occupancy({}) = 0
<1>1. IsSum(Occupancy({}), {}, SizeOf)
  BY OccupancyIsSum, FS_EmptySet
<1> QED BY <1>1, SumOfNone

LEMMA OccupancyOfMore ==
  ASSUME NEW T \in SUBSET InTransit, IsFiniteSet(T), NEW p \in InTransit \ T
  PROVE  /\ Occupancy(T) \in Nat
         /\ Occupancy(T \cup {p}) = Occupancy(T) + p.size
<1>1. SizeOf \in [InTransit -> Nat] /\ SizeOf[p] = p.size
  BY DEF SizeOf, InTransit
<1>2. T \cup {p} \in SUBSET InTransit /\ IsFiniteSet(T \cup {p})
  BY FS_AddElement
<1>3. IsSum(Occupancy(T), T, SizeOf) /\ IsSum(Occupancy(T \cup {p}), T \cup {p}, SizeOf)
  BY <1>2, OccupancyIsSum
<1> QED BY <1>1, <1>3, SumIsNat, SumOfMore

\* Packets in transit have ids that were given out, so the next one is new.
AccountInv ==
  /\ IsFiniteSet(transit)
  /\ \A p \in transit : p.id < sent
  /\ inFlightBytes = Occupancy(transit)

LEMMA InitAccount == Init => AccountInv
BY OccupancyOfNone, FS_EmptySet DEF Init, AccountInv

LEMMA StepAccount == TypeOK /\ AccountInv /\ [Next]_networkVars => AccountInv'
<1> SUFFICES ASSUME TypeOK, AccountInv, [Next]_networkVars PROVE AccountInv'
  OBVIOUS
<1>1. CASE Accept
  <2>1. PICK size \in Sizes, jitter \in JitterSamples, reordered \in Rolls(ReorderChance) :
          /\ inFlightBytes' = inFlightBytes + Occupied(size)
          /\ transit' = transit \cup
               {[id |-> sent, size |-> size, sentAt |-> now, era |-> changes,
                 reordered |-> reordered,
                 due |-> now + Delay(size, jitter) * ReorderFactor(reordered)]}
    BY <1>1 DEF Accept
  <2> DEFINE p == [id |-> sent, size |-> size, sentAt |-> now, era |-> changes,
                   reordered |-> reordered,
                   due |-> now + Delay(size, jitter) * ReorderFactor(reordered)]
  <2>2. p \in InTransit /\ p.id = sent /\ p.size = size
    BY AcceptedPacket
  <2>3. transit' = transit \cup {p} /\ inFlightBytes' = inFlightBytes + size /\ sent' = sent + 1
    BY <1>1, <2>1 DEF Accept, Sending, Occupied
  <2> HIDE DEF p
  <2>4. transit \in SUBSET InTransit /\ p \notin transit /\ sent \in Nat
    BY <2>2 DEF TypeOK, AccountInv
  <2>5. IsFiniteSet(transit')
    BY <2>3, FS_AddElement DEF AccountInv
  <2>6. \A q \in transit' : q.id < sent'
    <3>1. \A q \in transit : q.id \in Nat /\ q.id < sent
      BY <2>4 DEF AccountInv, InTransit
    <3> QED BY <2>2, <2>3, <2>4, <3>1
  <2>7. Occupancy(transit') = Occupancy(transit) + size
    BY <2>2, <2>3, <2>4, OccupancyOfMore DEF AccountInv
  <2> QED BY <2>3, <2>5, <2>6, <2>7 DEF AccountInv
<1>2. CASE Deliver
  <2>1. PICK p \in transit :
          /\ transit' = transit \ {p} /\ sent' = sent
          /\ inFlightBytes' = Greatest(0, inFlightBytes - p.size)
    BY <1>2 DEF Deliver
  <2>2. /\ transit' \in SUBSET InTransit /\ p \in InTransit \ transit'
        /\ transit = transit' \cup {p} /\ IsFiniteSet(transit')
    BY <2>1, FS_RemoveElement DEF TypeOK, AccountInv
  <2>3. Occupancy(transit') \in Nat /\ Occupancy(transit) = Occupancy(transit') + p.size
    <3> DEFINE rest == transit'
    <3> HIDE DEF rest
    <3>1. /\ rest \in SUBSET InTransit /\ p \in InTransit \ rest
          /\ transit = rest \cup {p} /\ IsFiniteSet(rest)
      BY <2>2 DEF rest
    <3>2. Occupancy(rest) \in Nat /\ Occupancy(transit) = Occupancy(rest) + p.size
      BY <3>1, OccupancyOfMore
    <3> QED BY <3>2 DEF rest
  <2>4. p.size \in Nat
    BY <2>2 DEF InTransit
  <2>5. inFlightBytes' = Occupancy(transit')
    BY <2>1, <2>3, <2>4 DEF AccountInv, Greatest
  <2> QED BY <2>1, <2>2, <2>5 DEF AccountInv
<1>3. ASSUME UNCHANGED <<inFlightBytes, transit>>, sent' = sent \/ sent' = sent + 1
      PROVE  AccountInv'
  <2>1. \A p \in transit : p.id \in Nat
    BY DEF TypeOK, InTransit
  <2> QED BY <1>3, <2>1 DEF AccountInv, TypeOK
<1>4. CASE ContinueBurst \/ StartBurst \/ DropOverflow \/ DropRandomly
  BY <1>3, <1>4 DEF ContinueBurst, StartBurst, DropOverflow, DropRandomly, Sending, buffer
<1>5. CASE Advance \/ UpdateConditions \/ ToggleChaos \/ UNCHANGED networkVars
  BY <1>3, <1>5 DEF Advance, UpdateConditions, ToggleChaos, Change, networkVars, buffer
<1> QED BY <1>1, <1>2, <1>4, <1>5 DEF Next, Transmit

\* The occupancy is always the bytes in transit, so the clamp of
\* release_buffer never hides a leak (network_simulator.py transmit,
\* release_buffer).
THEOREM AccountInvariant == Spec => []BufferAccounts
<1>1. AccountInv => BufferAccounts
  BY DEF AccountInv, BufferAccounts, Occupancy
<1> QED BY <1>1, InitTypeOK, StepTypeOK, InitAccount, StepAccount, PTL DEF Spec

=============================================================================
