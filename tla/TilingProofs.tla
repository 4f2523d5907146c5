----------------------------- MODULE TilingProofs -----------------------------
(***************************************************************************)
(* The retransmission queues cover exactly what is unacknowledged          *)
(* (UnackedTiled), hence an idle session has had everything acknowledged   *)
(* (IdleMeansAcked) and the server's FIN stays tracked until the client    *)
(* has it (StatesAgree), for all configurations, losses and delays.        *)
(*                                                                         *)
(* The tracked packets of an endpoint are pieces, side by side, of its     *)
(* unacknowledged numbers.  Sending adds pieces at the end, a resend puts  *)
(* a piece of the same extent in the place of another, and an ACK removes  *)
(* pieces from the front - whole ones, because every acknowledgement under *)
(* way falls between two pieces (Clear), because what is received does,    *)
(* because what is delivered is a piece or overlaps none.                  *)
(*                                                                         *)
(* What a step can do to the client's queue (ClientStep) then shows that   *)
(* the window gates every segment (WindowRespected) and never strands one  *)
(* (NoStall).                                                              *)
(***************************************************************************)
EXTENDS ConnectionProofs

\* Two packets that share no sequence number, and two of the same extent.
Apt(p, q)  == SegmentEndSeq(p) <= q.seq \/ SegmentEndSeq(q) <= p.seq
Same(p, q) == p.seq = q.seq /\ p.len = q.len /\ p.kind = q.kind

\* Sequence number a falls inside none of the entries.
Clear(E, a) == \A e \in E : a <= e.pkt.seq \/ SegmentEndSeq(e.pkt) <= a

\* The entries E cover lo .. hi - 1, side by side, under ids below n.
Tiled(E, lo, hi, n) ==
  /\ \A e, f \in E : e # f => e.pkt.id # f.pkt.id /\ Apt(e.pkt, f.pkt)
  /\ \A e \in E : /\ e.pkt.id < n
                  /\ lo <= e.pkt.seq /\ e.pkt.seq < SegmentEndSeq(e.pkt)
                  /\ SegmentEndSeq(e.pkt) <= hi
  /\ \A s \in lo .. hi - 1 : \E e \in E : Covers(e, s)

\* The packets P cover lo .. hi - 1 in the same way, under ids from n on.
Pieces(P, lo, hi, n, k) ==
  /\ \A p, q \in P : p # q => p.id # q.id /\ Apt(p, q)
  /\ \A p \in P : /\ n <= p.id /\ p.id < k
                  /\ lo <= p.seq /\ p.seq < SegmentEndSeq(p) /\ SegmentEndSeq(p) <= hi
  /\ \A s \in lo .. hi - 1 : \E p \in P : p.seq <= s /\ s < SegmentEndSeq(p)

\* The entries register_sent makes of the packets P at time t.
Track(P, t) ==
  {[pkt |-> p, deadline |-> t + ManagerConfig.rto, retries |-> 0] : p \in P}

-----------------------------------------------------------------------------
(* Pieces.                                                                  *)

LEMMA ExtentType ==
  ASSUME NEW p \in Packet
  PROVE  /\ p.id \in Nat /\ p.seq \in Nat /\ p.len \in Nat
         /\ SegmentEndSeq(p) \in Nat /\ p.seq + p.len <= SegmentEndSeq(p)
         /\ SegmentEndSeq(p) <= p.seq + p.len + 1
  BY DEF Packet, SegmentEndSeq

LEMMA SameExtent ==
  ASSUME NEW p \in Packet, NEW q \in Packet, Same(p, q)
  PROVE  /\ SegmentEndSeq(p) = SegmentEndSeq(q) /\ p.seq = q.seq
         /\ Same(q, p)
         /\ \A x \in Packet : Apt(p, x) => Apt(q, x) /\ Apt(x, q)
  BY DEF Same, SegmentEndSeq, Apt

\* Every packet gets one entry.
LEMMA Tracked ==
  ASSUME NEW P, NEW t
  PROVE  /\ \A e \in Track(P, t) : e.pkt \in P
         /\ \A e, f \in Track(P, t) : e # f => e.pkt # f.pkt
         /\ \A p \in P : \E e \in Track(P, t) : e.pkt = p
  <1> DEFINE entry(p) == [pkt |-> p, deadline |-> t + ManagerConfig.rto, retries |-> 0]
  <1>1. Track(P, t) = {entry(p) : p \in P}
    BY DEF Track
  <1>2. \A p : entry(p).pkt = p
    OBVIOUS
  <1> HIDE DEF entry
  <1> QED
    BY <1>1, <1>2

\* An acknowledgement that falls between pieces takes the ones before it.
LEMMA Acknowledge ==
  ASSUME NEW E \in SUBSET Entry, NEW lo \in Int, NEW hi \in Int, NEW n \in Nat, NEW a \in Int,
         Tiled(E, lo, hi, n), Clear(E, a), lo <= a
  PROVE  Tiled({e \in E : ~(SegmentEndSeq(e.pkt) <= a)}, a, hi, n)
  <1>1. \A e \in E : e.pkt.seq \in Nat /\ SegmentEndSeq(e.pkt) \in Nat
    BY ExtentType DEF Entry
  <1>2. ASSUME NEW s \in a .. hi - 1
        PROVE  \E e \in {e \in E : ~(SegmentEndSeq(e.pkt) <= a)} : Covers(e, s)
    <2>1. PICK e \in E : Covers(e, s)
      BY <1>2 DEF Tiled
    <2>2. ~(SegmentEndSeq(e.pkt) <= a)
      BY <1>1, <2>1 DEF Covers
    <2> QED
      BY <2>1, <2>2
  <1>3. \A e \in E : SegmentEndSeq(e.pkt) <= a \/ a <= e.pkt.seq
    BY DEF Clear
  <1> QED
    BY <1>2, <1>3 DEF Tiled

\* New pieces go at the end.
LEMMA Extend ==
  ASSUME NEW E \in SUBSET Entry, NEW lo \in Int, NEW hi \in Int, NEW n \in Nat,
         Tiled(E, lo, hi, n), lo <= hi,
         NEW P \in SUBSET Packet, NEW end \in Int, NEW k \in Nat, hi <= end, n <= k,
         Pieces(P, hi, end, n, k), NEW t
  PROVE  Tiled(E \cup Track(P, t), lo, end, k)
  <1> DEFINE F == Track(P, t)
  <1>1. \A e \in E : e.pkt \in Packet /\ e.pkt.id \in Nat
                     /\ e.pkt.seq \in Nat /\ SegmentEndSeq(e.pkt) \in Nat
    BY ExtentType DEF Entry
  <1>2. /\ \A f \in F : f.pkt \in P
        /\ \A f, g \in F : f # g => f.pkt # g.pkt
        /\ \A p \in P : \E f \in F : f.pkt = p
    BY Tracked
  <1>3. \A p \in P : p.id \in Nat /\ p.seq \in Nat /\ SegmentEndSeq(p) \in Nat
    BY ExtentType
  <1> HIDE DEF F
  <1> USE DEF Pieces
  <1>4. ASSUME NEW e \in E \cup F, NEW f \in E \cup F, e # f
        PROVE  e.pkt.id # f.pkt.id /\ Apt(e.pkt, f.pkt)
    <2>1. CASE e \in E /\ f \in E
      BY <1>4, <2>1 DEF Tiled
    <2>2. CASE e \in E /\ f \in F
      <3>1. e.pkt.id < n /\ SegmentEndSeq(e.pkt) <= hi /\ n <= f.pkt.id /\ hi <= f.pkt.seq
        BY <1>2, <2>2 DEF Tiled
      <3> QED
        BY <1>1, <1>2, <1>3, <2>2, <3>1 DEF Apt
    <2>3. CASE e \in F /\ f \in E
      <3>1. f.pkt.id < n /\ SegmentEndSeq(f.pkt) <= hi /\ n <= e.pkt.id /\ hi <= e.pkt.seq
        BY <1>2, <2>3 DEF Tiled
      <3> QED
        BY <1>1, <1>2, <1>3, <2>3, <3>1 DEF Apt
    <2>4. CASE e \in F /\ f \in F
      BY <1>2, <1>4, <2>4
    <2> QED
      BY <2>1, <2>2, <2>3, <2>4
  <1>5. ASSUME NEW e \in E \cup F
        PROVE  /\ e.pkt.id < k
               /\ lo <= e.pkt.seq /\ e.pkt.seq < SegmentEndSeq(e.pkt)
               /\ SegmentEndSeq(e.pkt) <= end
    <2>1. CASE e \in E
      <3>1. /\ e.pkt.id < n /\ lo <= e.pkt.seq /\ e.pkt.seq < SegmentEndSeq(e.pkt)
            /\ SegmentEndSeq(e.pkt) <= hi
        BY <2>1 DEF Tiled
      <3> QED
        BY <1>1, <2>1, <3>1
    <2>2. CASE e \in F
      <3>1. /\ e.pkt.id < k /\ hi <= e.pkt.seq /\ e.pkt.seq < SegmentEndSeq(e.pkt)
            /\ SegmentEndSeq(e.pkt) <= end /\ e.pkt.seq \in Nat
        BY <1>2, <1>3, <2>2
      <3> QED
        BY <3>1
    <2> QED
      BY <2>1, <2>2
  <1>6. ASSUME NEW s \in lo .. end - 1
        PROVE  \E e \in E \cup F : Covers(e, s)
    <2>1. CASE s < hi
      <3>1. s \in lo .. hi - 1
        BY <1>6, <2>1
      <3> QED
        BY <3>1 DEF Tiled
    <2>2. CASE ~(s < hi)
      <3>1. s \in hi .. end - 1
        BY <1>6, <2>2
      <3>2. PICK p \in P : p.seq <= s /\ s < SegmentEndSeq(p)
        BY <3>1
      <3>3. PICK f \in F : f.pkt = p
        BY <1>2
      <3> QED
        BY <3>2, <3>3 DEF Covers
    <2> QED
      BY <2>1, <2>2
  <1> QED
    BY <1>4, <1>5, <1>6 DEF Tiled, F

-----------------------------------------------------------------------------
(* Copies.                                                                  *)

\* The ids of copies are new, distinct and in the order of the originals'.
LEMMA Ranks ==
  ASSUME txCount \in Nat, NEW P \in SUBSET Packet, IsFiniteSet(P)
  PROVE  LET rank(p) == Cardinality({q \in P : q.id < p.id})
         IN  /\ \A p \in P : rank(p) \in Nat /\ rank(p) < Cardinality(P)
             /\ \A p, q \in P : p.id < q.id => rank(p) < rank(q)
  <1> DEFINE below(p) == {q \in P : q.id < p.id}
  <1>1. Cardinality(P) \in Nat
    BY FS_CardinalityType
  <1>2. \A p \in P : IsFiniteSet(below(p)) /\ Cardinality(below(p)) \in Nat
    BY FS_Subset, FS_CardinalityType
  <1>3. \A p \in P : p.id \in Nat
    BY ExtentType
  <1>4. ASSUME NEW p \in P PROVE Cardinality(below(p)) < Cardinality(P)
    <2>1. p \notin below(p)
      BY <1>3
    <2>2. below(p) \in SUBSET P /\ below(p) # P
      BY <2>1
    <2> HIDE DEF below
    <2> QED
      BY <1>1, <1>2, <2>2, FS_Subset
  <1>5. ASSUME NEW p \in P, NEW q \in P, p.id < q.id
        PROVE  Cardinality(below(p)) < Cardinality(below(q))
    <2>1. below(p) \in SUBSET below(q)
      BY <1>3, <1>5
    <2>2. p \notin below(p) /\ p \in below(q)
      BY <1>3, <1>5
    <2>3. below(p) # below(q)
      BY <2>2
    <2> HIDE DEF below
    <2> QED
      BY <1>2, <2>1, <2>3, FS_Subset
  <1> QED
    BY <1>2, <1>4, <1>5

LEMMA CopiesCount ==
  ASSUME txCount \in Nat, NEW P \in SUBSET Packet, IsFiniteSet(P),
         \A p, q \in P : p # q => p.id # q.id
  PROVE  /\ IsFiniteSet(Copies(P)) /\ Cardinality(Copies(P)) = Cardinality(P)
         /\ \A x \in Copies(P) : \E p \in P :
              /\ x.id \in txCount .. txCount + Cardinality(P) - 1
              /\ Same(x, p) /\ x.ack = p.ack /\ x.src = p.src
         /\ \A p \in P : \E x \in Copies(P) : Same(x, p)
         /\ \A x, y \in Copies(P) : x # y =>
              /\ x.id # y.id
              /\ \E p, q \in P : p # q /\ Same(x, p) /\ Same(y, q)
  <1> DEFINE rank(p) == Cardinality({q \in P : q.id < p.id})
             f == [p \in P |-> [p EXCEPT !.id = txCount + rank(p)]]
  <1>1. /\ \A p \in P : rank(p) \in Nat /\ rank(p) < Cardinality(P)
        /\ \A p, q \in P : p.id < q.id => rank(p) < rank(q)
    BY Ranks
  <1>2. Cardinality(P) \in Nat
    BY FS_CardinalityType
  <1>3. \A p \in P : p.id \in Nat
    BY ExtentType
  <1>4. Copies(P) = {f[p] : p \in P}
    BY DEF Copies
  <1>5. \A p \in P : /\ f[p].id = txCount + rank(p) /\ Same(f[p], p)
                     /\ f[p].ack = p.ack /\ f[p].src = p.src
    BY DEF Packet, Same
  <1> HIDE DEF rank, f
  <1>6. ASSUME NEW p \in P, NEW q \in P, p # q PROVE f[p].id # f[q].id
    <2>1. p.id < q.id \/ q.id < p.id
      BY <1>3, <1>6
    <2>2. rank(p) # rank(q)
      BY <1>1, <2>1
    <2> QED
      BY <1>1, <1>5, <2>2
  <1>7. f \in Bijection(P, Copies(P))
    <2>1. f \in [P -> Copies(P)]
      BY <1>4 DEF f
    <2>2. f \in Injection(P, Copies(P))
      BY <1>6, <2>1 DEF Injection, IsInjective
    <2>3. \A x \in Copies(P) : \E p \in P : f[p] = x
      BY <1>4
    <2>4. f \in Surjection(P, Copies(P))
      BY <2>1, <2>3 DEF Surjection
    <2> QED
      BY <2>2, <2>4 DEF Bijection
  <1>8. IsFiniteSet(Copies(P)) /\ Cardinality(Copies(P)) = Cardinality(P)
    BY <1>7, FS_Bijection DEF ExistsBijection
  <1>9. \A p \in P : f[p].id \in txCount .. txCount + Cardinality(P) - 1
    BY <1>1, <1>2, <1>5
  <1> QED
    BY <1>4, <1>5, <1>6, <1>8, <1>9

\* A resend puts a piece of the same extent in the place of each original.
LEMMA Resend ==
  ASSUME txCount \in Nat, NEW E \in SUBSET Entry, NEW lo \in Int, NEW hi \in Int,
         Tiled(E, lo, hi, txCount),
         NEW P \in SUBSET Packet, IsFiniteSet(P), P \subseteq {e.pkt : e \in E}, NEW t
  PROVE  /\ Tiled({e \in E : e.pkt.id \notin Ids(P)} \cup Track(Copies(P), t),
                  lo, hi, txCount + Cardinality(Copies(P)))
         /\ \A x \in Copies(P) : \E p \in P : Same(x, p) /\ x.ack = p.ack /\ x.src = p.src
  <1> DEFINE K == {e \in E : e.pkt.id \notin Ids(P)}
             C == Copies(P)
             F == Track(C, t)
             n == txCount + Cardinality(C)
  <1>1. \A p \in P : \E e \in E : p = e.pkt
    OBVIOUS
  <1>2. \A p, q \in P : p # q => p.id # q.id /\ Apt(p, q)
    BY <1>1 DEF Tiled
  <1>3. /\ C \in SUBSET Packet /\ Cardinality(C) \in Nat
        /\ \A x \in C : \E p \in P :
              /\ x.id \in txCount .. n - 1
              /\ Same(x, p) /\ x.ack = p.ack /\ x.src = p.src
        /\ \A p \in P : \E x \in C : Same(x, p)
        /\ \A x, y \in C : x # y =>
              x.id # y.id /\ \E p, q \in P : p # q /\ Same(x, p) /\ Same(y, q)
    BY <1>2, CopiesCount, CopiesProperties, FS_CardinalityType
  <1>4. /\ \A f \in F : f.pkt \in C
        /\ \A f, g \in F : f # g => f.pkt # g.pkt
        /\ \A x \in C : \E f \in F : f.pkt = x
    BY Tracked
  <1>5. /\ K \subseteq E /\ \A e \in K : \A p \in P : e.pkt # p /\ e.pkt.id # p.id
        /\ \A e \in E : e \in K \/ \E p \in P : p.id = e.pkt.id
    BY DEF Ids
  <1>6. /\ \A e \in E : e.pkt \in Packet /\ e.pkt.id \in Nat /\ e.pkt.id < txCount
        /\ \A e \in E : e.pkt.seq \in Nat /\ SegmentEndSeq(e.pkt) \in Nat
    BY ExtentType DEF Entry, Tiled
  <1> HIDE DEF K, C, F
  <1>7. ASSUME NEW e \in K, NEW x \in C
        PROVE  e.pkt.id # x.id /\ Apt(e.pkt, x) /\ Apt(x, e.pkt)
    <2>1. PICK p \in P : x.id \in txCount .. n - 1 /\ Same(x, p)
      BY <1>3
    <2>2. PICK f \in E : p = f.pkt
      BY <1>1
    <2>3. e \in E /\ e # f
      BY <1>5, <2>2
    <2>4. Apt(p, e.pkt)
      BY <2>2, <2>3 DEF Tiled
    <2>5. Same(p, x) /\ e.pkt \in Packet /\ x \in Packet /\ p \in Packet
      BY <1>3, <1>6, <2>1, <2>3, SameExtent
    <2>6. Apt(e.pkt, x) /\ Apt(x, e.pkt)
      BY <2>4, <2>5, SameExtent
    <2>7. e.pkt.id # x.id
      BY <1>3, <1>6, <2>1, <2>3
    <2> QED
      BY <2>6, <2>7
  <1>8. ASSUME NEW x \in C, NEW y \in C, x # y
        PROVE  x.id # y.id /\ Apt(x, y)
    <2>1. PICK p \in P, q \in P : p # q /\ Same(x, p) /\ Same(y, q)
      BY <1>3, <1>8
    <2>2. Apt(p, q) /\ Same(p, x) /\ Same(q, y)
      BY <1>2, <1>3, <2>1, SameExtent
    <2>3. Apt(x, y)
      BY <1>3, <2>2, SameExtent
    <2> QED
      BY <1>3, <1>8, <2>3
  <1>9. ASSUME NEW e \in K \cup F, NEW f \in K \cup F, e # f
        PROVE  e.pkt.id # f.pkt.id /\ Apt(e.pkt, f.pkt)
    <2>1. CASE e \in K /\ f \in K
      BY <1>5, <1>9, <2>1 DEF Tiled
    <2>2. CASE e \in K /\ f \in F
      BY <1>4, <1>7, <2>2
    <2>3. CASE e \in F /\ f \in K
      BY <1>4, <1>7, <2>3
    <2>4. CASE e \in F /\ f \in F
      BY <1>4, <1>8, <1>9, <2>4
    <2> QED
      BY <2>1, <2>2, <2>3, <2>4
  <1>10. ASSUME NEW x \in C
         PROVE  /\ x.id < n /\ lo <= x.seq /\ x.seq < SegmentEndSeq(x)
                /\ SegmentEndSeq(x) <= hi
    <2>1. PICK p \in P : x.id \in txCount .. n - 1 /\ Same(x, p)
      BY <1>3
    <2>2. /\ lo <= p.seq /\ p.seq < SegmentEndSeq(p) /\ SegmentEndSeq(p) <= hi
      BY <1>1 DEF Tiled
    <2>3. x.seq = p.seq /\ SegmentEndSeq(x) = SegmentEndSeq(p)
      BY <1>3, <2>1, SameExtent
    <2> QED
      BY <1>3, <2>1, <2>2, <2>3
  <1>11. ASSUME NEW e \in K \cup F
         PROVE  /\ e.pkt.id < n /\ lo <= e.pkt.seq /\ e.pkt.seq < SegmentEndSeq(e.pkt)
                /\ SegmentEndSeq(e.pkt) <= hi
    <2>1. CASE e \in K
      <3>1. e \in E
        BY <1>5, <2>1
      <3>2. e.pkt.id < n
        BY <1>3, <1>6, <3>1
      <3> QED
        BY <3>1, <3>2 DEF Tiled
    <2>2. CASE e \in F
      BY <1>4, <1>10, <2>2
    <2> QED
      BY <2>1, <2>2
  <1>12. ASSUME NEW s \in lo .. hi - 1 PROVE \E e \in K \cup F : Covers(e, s)
    <2>1. PICK e \in E : Covers(e, s)
      BY DEF Tiled
    <2>2. CASE e \in K
      BY <2>1, <2>2
    <2>3. CASE e \notin K
      <3>1. PICK p \in P : p.id = e.pkt.id
        BY <1>5, <2>3
      <3>2. PICK f \in E : p = f.pkt
        BY <1>1
      <3>3. p = e.pkt
        BY <3>1, <3>2 DEF Tiled
      <3>4. PICK x \in C : Same(x, p)
        BY <1>3
      <3>5. x.seq = p.seq /\ SegmentEndSeq(x) = SegmentEndSeq(p)
        BY <1>3, <3>4, SameExtent
      <3>6. PICK g \in F : g.pkt = x
        BY <1>4
      <3>7. Covers(g, s)
        BY <2>1, <3>3, <3>5, <3>6 DEF Covers
      <3> QED
        BY <3>7
    <2> QED
      BY <2>2, <2>3
  <1>13. Tiled(K \cup F, lo, hi, n)
    BY <1>9, <1>11, <1>12 DEF Tiled
  <1> QED
    BY <1>3, <1>13 DEF K, C, F

-----------------------------------------------------------------------------
(* New data.                                                                *)

\* The message is cut into segments that leave no byte out.
Abut(segs) ==
  \A i \in 1 .. Len(segs) - 1 : segs[i + 1].offset = segs[i].offset + segs[i].len

LEMMA SegmentAbut ==
  ASSUME NEW length \in Nat, NEW mss \in Nat \ {0}
  PROVE  Abut(Segment(length, mss))
  <1> DEFINE n == (length + mss - 1) \div mss
             segs == Segment(length, mss)
  <1>1. n \in Nat /\ n * mss <= length + mss - 1
    BY QuotientIsNat, QuotientBound
  <1>2. segs = [i \in 1 .. n |-> [offset |-> (i - 1) * mss,
                                  len |-> Smaller(mss, length - (i - 1) * mss)]]
    BY DEF Segment
  <1>3. Len(segs) = n
    BY <1>1, <1>2
  <1> HIDE DEF n, segs
  <1> SUFFICES ASSUME NEW i \in 1 .. n - 1
               PROVE  segs[i + 1].offset = segs[i].offset + segs[i].len
    BY <1>3 DEF Abut, segs
  <1>4. i \in 1 .. n /\ i + 1 \in 1 .. n /\ (i + 1) - 1 = i
    BY <1>1
  <1>5. segs[i].offset = (i - 1) * mss /\ segs[i + 1].offset = i * mss
        /\ segs[i].len = Smaller(mss, length - (i - 1) * mss)
    BY <1>2, <1>4
  <1>6. (i + 1) * mss <= n * mss
    BY <1>1, <1>4, ProductMonotone
  <1>7. (i + 1) * mss = i * mss + mss /\ (i - 1) * mss = i * mss - mss
    OBVIOUS
  <1>8. i * mss \in Int /\ n * mss \in Int
    BY <1>1
  <1>9. mss <= length - (i - 1) * mss
    BY <1>1, <1>6, <1>7, <1>8
  <1>10. segs[i].len = mss
    BY <1>5, <1>7, <1>8, <1>9 DEF Smaller
  <1> QED
    BY <1>5, <1>7, <1>8, <1>10

\* Every byte from the start of the first segment to the end of the last is
\* in one of them.
LEMMA ByteInSegment ==
  ASSUME NEW n \in Nat \ {0}, NEW g \in [0 .. n - 1 -> SegmentRecords],
         \A k \in 1 .. n - 1 : g[k].offset = g[k - 1].offset + g[k - 1].len,
         NEW x \in Nat, g[0].offset <= x, x < g[n - 1].offset + g[n - 1].len
  PROVE  \E k \in 0 .. n - 1 : g[k].offset <= x /\ x < g[k].offset + g[k].len
  <1> DEFINE S == {k \in 0 .. n - 1 : x < g[k].offset + g[k].len}
  <1>1. \A k \in 0 .. n - 1 : g[k].offset \in Nat /\ g[k].len \in Nat
    BY DEF SegmentRecords
  <1>2. n - 1 \in 0 .. n - 1
    OBVIOUS
  <1>3. S \subseteq Nat /\ S # {}
    BY <1>2
  <1>4. PICK k \in S : \A j \in S : k <= j
    <2>1. PICK k \in S : \A j \in S : ~(<<j, k>> \in OpToRel(<, Nat))
      BY <1>3, WFMin, NatLessThanWellFounded
    <2>2. k \in Nat /\ \A j \in S : j \in Nat
      BY <1>3
    <2>3. \A j \in S : ~(j < k)
      BY <2>1, <2>2 DEF OpToRel
    <2> HIDE DEF S
    <2> QED
      BY <2>2, <2>3
  <1>5. k \in 0 .. n - 1 /\ x < g[k].offset + g[k].len
    BY <1>4
  <1>6. g[k].offset <= x
    <2>1. CASE k = 0
      BY <2>1
    <2>2. CASE k # 0
      <3>1. k - 1 \in 0 .. n - 1 /\ k \in 1 .. n - 1
        BY <1>5, <2>2
      <3>2. k - 1 \notin S
        BY <1>4, <3>1
      <3>3. ~(x < g[k - 1].offset + g[k - 1].len)
        BY <3>1, <3>2
      <3>4. g[k].offset = g[k - 1].offset + g[k - 1].len
        BY <3>1
      <3>5. g[k - 1].offset \in Nat /\ g[k - 1].len \in Nat
        BY <1>1, <3>1
      <3> QED
        BY <3>3, <3>4, <3>5
    <2> QED
      BY <2>1, <2>2
  <1> QED
    BY <1>5, <1>6

\* What _try_send_more_data sends are pieces of the numbers it takes.
LEMMA DataTiles ==
  ASSUME txCount \in Nat, sndNxt["client"] \in Nat,
         NEW m, NEW c, NEW segs, NEW next, SendTypes(m, c, segs, next),
         Apart(segs), Abut(segs)
  PROVE  LET P == DataPackets(m, c, segs, next)
             hi == sndNxt["client"]
         IN  /\ IsFiniteSet(P) /\ Cardinality(P) = SendCount(m, c, segs, next)
             /\ Pieces(P, hi, hi + DataBytes(m, c, segs, next),
                       txCount, txCount + Cardinality(P))
  <1> DEFINE P == DataPackets(m, c, segs, next)
             n == SendCount(m, c, segs, next)
             hi == sndNxt["client"]
             end == hi + DataBytes(m, c, segs, next)
             g == [k \in 0 .. n - 1 |-> segs[next + k]]
             f == [k \in 0 .. n - 1 |->
                     NewPacket(txCount + k, "DATA", hi + g[k].offset - segs[next].offset,
                               NoAck, g[k].len, "client")]
  <1>1. n \in 0 .. Len(segs) - next + 1 /\ next \in 1 .. Len(segs) + 1 /\ Len(segs) \in Nat
        /\ segs \in Seq(SegmentRecords)
    BY SendCountProperties DEF SendTypes
  <1>2. n \in Nat
    BY <1>1
  <1>3. \A k \in 0 .. n - 1 : next + k \in 1 .. Len(segs)
    BY <1>1
  <1>4. g \in [0 .. n - 1 -> SegmentRecords]
    <2> SUFFICES ASSUME NEW k \in 0 .. n - 1 PROVE segs[next + k] \in SegmentRecords
      OBVIOUS
    <2> QED
      BY <1>1, <1>3, ElementOfSeq
  <1>5. P = {f[k] : k \in 0 .. n - 1}
    BY DEF DataPackets
  <1>6. n # 0 => segs[next] = g[0] /\ segs[next + n - 1] = g[n - 1]
    <2> HAVE n # 0
    <2>1. 0 \in 0 .. n - 1 /\ n - 1 \in 0 .. n - 1 /\ next + 0 = next
          /\ next + (n - 1) = next + n - 1
      BY <1>1
    <2> QED
      BY <2>1
  <1>7. \A j, k \in 0 .. n - 1 : j < k => g[j].offset + g[j].len <= g[k].offset
    <2> SUFFICES ASSUME NEW j \in 0 .. n - 1, NEW k \in 0 .. n - 1, j < k
                 PROVE  segs[next + j].offset + segs[next + j].len <= segs[next + k].offset
      OBVIOUS
    <2>1. next + j \in 1 .. Len(segs) /\ next + k \in 1 .. Len(segs) /\ next + j < next + k
      BY <1>1, <1>3
    <2> QED
      BY <2>1 DEF Apart
  <1>8. ASSUME NEW k \in 1 .. n - 1
        PROVE  g[k].offset = g[k - 1].offset + g[k - 1].len
    <2>1. k \in 0 .. n - 1 /\ k - 1 \in 0 .. n - 1
      BY <1>2
    <2>2. g[k] = segs[next + k] /\ g[k - 1] = segs[next + (k - 1)]
      BY <2>1
    <2>3. next + (k - 1) \in 1 .. Len(segs) - 1 /\ (next + (k - 1)) + 1 = next + k
      BY <1>1
    <2>4. segs[next + k].offset = segs[next + (k - 1)].offset + segs[next + (k - 1)].len
      BY <2>3 DEF Abut
    <2> HIDE DEF g
    <2> QED
      BY <2>2, <2>4
  <1>9. \A k \in 0 .. n - 1 : g[k].offset \in Nat /\ g[k].len \in Nat
    BY <1>4 DEF SegmentRecords
  <1>10. \A k \in 0 .. n - 1 :
           /\ f[k].id = txCount + k /\ f[k].len = g[k].len /\ f[k].kind = "DATA"
           /\ f[k].seq = hi + g[k].offset - segs[next].offset
    BY DEF NewPacket
  <1>11. P \in SUBSET Packet /\ IsFiniteSet(P) /\ DataBytes(m, c, segs, next) \in Nat
    BY DataPacketsProperties
  <1>12. \A p \in P : p.len > 0 /\ p.seq >= hi /\ p.seq + p.len <= end
    BY DataPacketsExtent
  <1>13. end = hi + (IF n = 0 THEN 0 ELSE g[n - 1].offset + g[n - 1].len - g[0].offset)
    BY <1>6 DEF DataBytes
  <1> HIDE DEF f, g, n, P, end
  <1>14. \A k \in 0 .. n - 1 :
           /\ f[k].seq = hi + g[k].offset - g[0].offset
           /\ SegmentEndSeq(f[k]) = f[k].seq + g[k].len
           /\ f[k] \in P
    <2> TAKE k \in 0 .. n - 1
    <2>1. n # 0
      BY <1>2
    <2>2. f[k].seq = hi + g[k].offset - g[0].offset
      BY <1>6, <1>10, <2>1
    <2>3. f[k] \in P /\ f[k].kind = "DATA" /\ f[k].len = g[k].len
      BY <1>5, <1>10
    <2>4. f[k].seq \in Nat /\ f[k].len \in Nat
      BY <1>11, <2>3 DEF Packet
    <2> QED
      BY <2>2, <2>3, <2>4 DEF SegmentEndSeq
  <1>15. f \in Bijection(0 .. n - 1, P)
    <2>1. f \in [0 .. n - 1 -> P]
      BY <1>5 DEF f
    <2>2. ASSUME NEW j \in 0 .. n - 1, NEW k \in 0 .. n - 1, f[j] = f[k] PROVE j = k
      <3>1. txCount + j = txCount + k
        BY <1>10, <2>2
      <3> QED
        BY <1>2, <3>1
    <2>3. f \in Injection(0 .. n - 1, P)
      BY <2>1, <2>2 DEF Injection, IsInjective
    <2>4. f \in Surjection(0 .. n - 1, P)
      BY <1>5, <2>1 DEF Surjection
    <2> QED
      BY <2>3, <2>4 DEF Bijection
  <1>16. Cardinality(P) = n
    <2>1. IsFiniteSet(0 .. n - 1)
          /\ Cardinality(0 .. n - 1) = IF 0 > n - 1 THEN 0 ELSE (n - 1) - 0 + 1
      BY <1>2, FS_Interval
    <2>2. Cardinality(0 .. n - 1) = n
      BY <1>2, <2>1
    <2> QED
      BY <1>15, <2>1, <2>2, FS_Bijection DEF ExistsBijection
  <1>17. ASSUME NEW p \in P, NEW q \in P, p # q PROVE p.id # q.id /\ Apt(p, q)
    <2>1. PICK j \in 0 .. n - 1, k \in 0 .. n - 1 : p = f[j] /\ q = f[k]
      BY <1>5
    <2>2. j < k \/ k < j
      BY <1>2, <1>17, <2>1
    <2>3. p.id # q.id
      BY <1>2, <1>10, <2>1, <2>2
    <2>4. 0 \in 0 .. n - 1
      BY <1>2
    <2>5. /\ g[j].offset \in Nat /\ g[k].offset \in Nat /\ g[j].len \in Nat
          /\ g[k].len \in Nat /\ g[0].offset \in Nat
      BY <1>9, <2>4
    <2>6. /\ p.seq = hi + g[j].offset - g[0].offset /\ SegmentEndSeq(p) = p.seq + g[j].len
          /\ q.seq = hi + g[k].offset - g[0].offset /\ SegmentEndSeq(q) = q.seq + g[k].len
      BY <1>14, <2>1
    <2>7. g[j].offset + g[j].len <= g[k].offset \/ g[k].offset + g[k].len <= g[j].offset
      BY <1>7, <2>2
    <2>8. Apt(p, q)
      BY <2>5, <2>6, <2>7 DEF Apt
    <2> QED
      BY <2>3, <2>8
  <1>18. ASSUME NEW p \in P
         PROVE  /\ txCount <= p.id /\ p.id < txCount + Cardinality(P)
                /\ hi <= p.seq /\ p.seq < SegmentEndSeq(p) /\ SegmentEndSeq(p) <= end
    <2>1. PICK k \in 0 .. n - 1 : p = f[k]
      BY <1>5
    <2>2. txCount <= p.id /\ p.id < txCount + n
      BY <1>2, <1>10, <2>1
    <2>3. SegmentEndSeq(p) = p.seq + p.len /\ p.seq \in Nat /\ p.len \in Nat
      BY <1>10, <1>11, <2>1 DEF SegmentEndSeq, Packet
    <2> QED
      BY <1>12, <1>16, <2>2, <2>3
  <1>19. ASSUME NEW s \in hi .. end - 1
         PROVE  \E p \in P : p.seq <= s /\ s < SegmentEndSeq(p)
    <2>1. n # 0
      BY <1>13, <1>19
    <2> DEFINE x == s - hi + g[0].offset
    <2>2. 0 \in 0 .. n - 1 /\ n - 1 \in 0 .. n - 1 /\ n \in Nat \ {0}
      BY <1>2, <2>1
    <2>3. g[0].offset \in Nat /\ g[n - 1].offset \in Nat /\ g[n - 1].len \in Nat
      BY <1>9, <2>2
    <2>4. end = hi + g[n - 1].offset + g[n - 1].len - g[0].offset
      BY <1>13, <2>1, <2>3
    <2>5. x \in Nat /\ g[0].offset <= x /\ s = hi + x - g[0].offset
          /\ x < g[n - 1].offset + g[n - 1].len
      BY <1>19, <2>3, <2>4
    <2> HIDE DEF x
    <2>6. PICK k \in 0 .. n - 1 : g[k].offset <= x /\ x < g[k].offset + g[k].len
      BY <1>4, <1>8, <2>2, <2>5, ByteInSegment
    <2>7. /\ f[k].seq = hi + g[k].offset - g[0].offset
          /\ SegmentEndSeq(f[k]) = f[k].seq + g[k].len
          /\ f[k] \in P /\ g[k].offset \in Nat /\ g[k].len \in Nat
      BY <1>9, <1>14
    <2>8. f[k].seq <= s /\ s < SegmentEndSeq(f[k])
      BY <2>3, <2>5, <2>6, <2>7
    <2> QED
      BY <2>7, <2>8
  <1> QED
    BY <1>11, <1>16, <1>17, <1>18, <1>19 DEF n, P, end, Pieces

-----------------------------------------------------------------------------
(* The invariant.                                                           *)

\* An acknowledgement under way acknowledges something, and whole pieces.
AckFits(p) ==
  p.ack # NoAck => /\ p.ack > InitialSeq[Peer(p.src)]
                   /\ Clear(mgr[Peer(p.src)].inFlight, p.ack)

\* A packet under way is a piece, or what it was a piece of is acknowledged.
Fits(p) == \A e \in mgr[p.src].inFlight : Same(p, e.pkt) \/ Apt(p, e.pkt)

Tiles ==
  /\ \A r \in Roles : Tiled(mgr[r].inFlight, Unacked(r), sndNxt[r], txCount)
  /\ \A r \in Roles : mgr[r].lastAck # NoAck => mgr[r].lastAck > InitialSeq[r]
  /\ \A r \in Roles : Clear(mgr[r].inFlight, rcvNxt[Peer(r)])
  /\ \A w \in wire : AckFits(w.pkt) /\ (NeedsAckTracking(w.pkt) => Fits(w.pkt))
  /\ \A r \in Roles : \A e \in mgr[r].inFlight : AckFits(e.pkt)
  /\ \A r \in Roles : Opened(r) => rcvNxt[r] > InitialSeq[Peer(r)]
  /\ Abut(segments)

TilingInv == ConnInv /\ Tiles

\* Types, for the proofs below.
LEMMA TileTypes ==
  ASSUME ConnInv
  PROVE  /\ TypeInv /\ TypeOK
         /\ "client" \in Roles /\ "server" \in Roles
         /\ \A r \in Roles : (r = "client" \/ r = "server") /\ Peer(r) \in Roles
         /\ \A r \in Roles : Peer(r) # r /\ Peer(Peer(r)) = r
         /\ \A q, r \in Roles : q = r \/ q = Peer(r)
         /\ mgr \in [Roles -> Manager]
         /\ \A r \in Roles : /\ mgr[r].inFlight \in SUBSET Entry
                             /\ IsFiniteSet(mgr[r].inFlight)
                             /\ mgr[r].lastAck \in Int /\ Unacked(r) \in Int
                             /\ sndNxt[r] \in Nat /\ rcvNxt[r] \in Nat
                             /\ InitialSeq[r] \in Nat /\ InitialSeq[r] > 0
                             /\ rcvNxt[Peer(r)] <= sndNxt[r]
                             /\ mgr[r].lastAck <= rcvNxt[Peer(r)]
         /\ \A r \in Roles : \A e \in mgr[r].inFlight :
              /\ e.pkt.src = r /\ e.pkt \in Packet /\ PacketOK(e.pkt)
              /\ NeedsAckTracking(e.pkt)
         /\ \A w \in wire : w.pkt \in Packet /\ w.pkt.src \in Roles /\ PacketOK(w.pkt)
         /\ txCount \in Nat
         /\ Peer("client") = "server" /\ Peer("server") = "client"
         /\ sndNxt \in [Roles -> Nat] /\ rcvNxt \in [Roles -> Nat]
         /\ state \in [Roles -> States]
  <1>1. TypeInv /\ TypeOK
    BY DEF ConnInv, TimerInv, TypeInv
  <1>2. mgr \in [Roles -> Manager]
    BY <1>1 DEF TypeOK
  <1>3. /\ "client" \in Roles /\ "server" \in Roles
        /\ \A r \in Roles : (r = "client" \/ r = "server") /\ Peer(r) \in Roles
        /\ \A r \in Roles : Peer(r) # r /\ Peer(Peer(r)) = r
        /\ \A q, r \in Roles : q = r \/ q = Peer(r)
        /\ Peer("client") = "server" /\ Peer("server") = "client"
    BY DEF Roles, Peer
  <1>4. \A r \in Roles : /\ mgr[r].inFlight \in SUBSET Entry
                         /\ mgr[r].lastAck \in Int
                         /\ InitialSeq[r] \in Nat /\ InitialSeq[r] > 0
    BY <1>2, SessionAssumption DEF Manager, NoAck
  <1>5. \A r \in Roles : Unacked(r) \in Int
    BY <1>4 DEF Unacked
  <1>6. \A r \in Roles : \A e \in mgr[r].inFlight :
          e.pkt.src = r /\ e.pkt \in Packet /\ PacketOK(e.pkt) /\ NeedsAckTracking(e.pkt)
    BY <1>4 DEF ConnInv, TimerInv, Watched, Packets, Entry
  <1>7. \A w \in wire : w.pkt \in Packet /\ w.pkt.src \in Roles /\ PacketOK(w.pkt)
    BY <1>1, DeliveryType DEF ConnInv, Packets, Packet
  <1>8. Numbers
    BY DEF ConnInv
  <1>9. \A r \in Roles : rcvNxt[Peer(r)] <= sndNxt[r] /\ mgr[r].lastAck <= rcvNxt[Peer(r)]
    BY <1>3, <1>8 DEF Numbers
  <1> QED
    BY <1>1, <1>2, <1>3, <1>4, <1>5, <1>6, <1>7, <1>9 DEF TypeOK

\* A tracked packet takes numbers that its sender has counted.
LEMMA SentEnd ==
  ASSUME ConnInv, NEW p \in Packet, PacketOK(p), NeedsAckTracking(p)
  PROVE  p.src \in Roles /\ p.seq < SegmentEndSeq(p) /\ SegmentEndSeq(p) <= sndNxt[p.src]
  <1>1. /\ p.src \in Roles /\ p.seq \in Nat /\ p.len \in Nat /\ p.kind \in Kinds
        /\ sndNxt["client"] \in Nat /\ sndNxt["server"] \in Nat /\ sndNxt[p.src] \in Nat
        /\ InitialSeq["client"] \in Nat /\ InitialSeq["server"] \in Nat
    BY TileTypes DEF Packet
  <1>2. Numbers /\ started
    BY DEF ConnInv, PacketOK
  <1>3. DataEnd("client") <= sndNxt["client"] /\ DataEnd("client") \in Int
    BY <1>1 DEF DataEnd
  <1>4. CASE p.kind = "SYN"
    BY <1>1, <1>2, <1>4 DEF PacketOK, Numbers, SegmentEndSeq
  <1>5. CASE p.kind = "SYN_ACK"
    BY <1>1, <1>2, <1>5 DEF PacketOK, Numbers, SegmentEndSeq
  <1>6. CASE p.kind = "DATA"
    BY <1>1, <1>2, <1>3, <1>6 DEF PacketOK, SegmentEndSeq
  <1>7. CASE p.kind = "FIN"
    BY <1>1, <1>2, <1>7 DEF PacketOK, SegmentEndSeq
  <1> QED
    BY <1>1, <1>4, <1>5, <1>6, <1>7 DEF NeedsAckTracking, Kinds

\* The end of a packet under way falls between pieces.
LEMMA PieceEnd ==
  ASSUME TilingInv, NEW w \in wire, NeedsAckTracking(w.pkt)
  PROVE  Clear(mgr[w.pkt.src].inFlight, SegmentEndSeq(w.pkt))
  <1>1. /\ w.pkt \in Packet /\ w.pkt.src \in Roles /\ PacketOK(w.pkt)
        /\ \A e \in mgr[w.pkt.src].inFlight : e.pkt \in Packet
    BY TileTypes DEF TilingInv
  <1>2. w.pkt.seq < SegmentEndSeq(w.pkt)
    BY <1>1, SentEnd DEF TilingInv
  <1>3. Fits(w.pkt)
    BY DEF TilingInv, Tiles
  <1> SUFFICES ASSUME NEW e \in mgr[w.pkt.src].inFlight
               PROVE  \/ SegmentEndSeq(w.pkt) <= e.pkt.seq
                      \/ SegmentEndSeq(e.pkt) <= SegmentEndSeq(w.pkt)
    BY DEF Clear
  <1>4. /\ w.pkt.seq \in Nat /\ SegmentEndSeq(w.pkt) \in Nat
        /\ e.pkt.seq \in Nat /\ SegmentEndSeq(e.pkt) \in Nat
    BY <1>1, ExtentType
  <1>5. CASE Same(w.pkt, e.pkt)
    BY <1>1, <1>4, <1>5, SameExtent
  <1>6. CASE Apt(w.pkt, e.pkt)
    BY <1>2, <1>4, <1>6 DEF Apt
  <1> QED
    BY <1>3, <1>5, <1>6 DEF Fits

-----------------------------------------------------------------------------
(* What a transmission leaves.                                              *)

\* If what r tracks after the step is tiled, if what it sends anew begins
\* where it was and the rest repeats pieces, and if what it acknowledges and
\* has received falls between the pieces of its peer, everything fits.
LEMMA TransmitTiles ==
  ASSUME TilingInv, ConnInv', NEW r \in Roles, NEW m \in Manager,
         m.inFlight \subseteq mgr[r].inFlight,
         m.lastAck # NoAck => m.lastAck > InitialSeq[r],
         NEW out \in SUBSET Packet, \A p \in out : p.src = r /\ AckFits(p),
         IsFiniteSet(out),
         NEW onWire \in SUBSET wire, NEW armed, NEW t,
         Transmit(r, m, out, onWire, armed, t),
         sndNxt'[Peer(r)] = sndNxt[Peer(r)], rcvNxt'[Peer(r)] = rcvNxt[Peer(r)],
         Tiled(m.inFlight \cup Track({p \in out : NeedsAckTracking(p)}, t),
               IF m.lastAck = NoAck THEN InitialSeq[r] ELSE m.lastAck,
               sndNxt'[r], txCount + Cardinality(out)),
         \A p \in out : NeedsAckTracking(p) =>
           sndNxt[r] <= p.seq \/ \E e \in mgr[r].inFlight : Same(p, e.pkt),
         Clear(mgr[Peer(r)].inFlight, rcvNxt'[r]),
         \A q \in Roles : Opened(q)' => rcvNxt'[q] > InitialSeq[Peer(q)],
         Abut(segments')
  PROVE  TilingInv'
  <1> DEFINE s == Peer(r)
             tracked == {p \in out : NeedsAckTracking(p)}
             new == Track(tracked, t)
             old == mgr[r].inFlight
  <1>type. /\ s \in Roles /\ s # r /\ (\A q \in Roles : q = r \/ q = s)
           /\ Peer(s) = r /\ mgr \in [Roles -> Manager] /\ txCount \in Nat
           /\ sndNxt[r] \in Nat /\ sndNxt[s] \in Nat
           /\ rcvNxt[r] \in Nat /\ rcvNxt[s] \in Nat /\ rcvNxt[s] <= sndNxt[r]
           /\ \A q \in Roles : Peer(q) \in Roles
           /\ \A q \in Roles : \A e \in mgr[q].inFlight :
                e.pkt.src = q /\ e.pkt \in Packet /\ PacketOK(e.pkt) /\ NeedsAckTracking(e.pkt)
           /\ \A w \in wire : w.pkt \in Packet /\ w.pkt.src \in Roles /\ PacketOK(w.pkt)
    BY TileTypes DEF TilingInv
  <1>tiles. Tiles
    BY DEF TilingInv
  <1>1. PICK fate \in [out -> Delays \cup {Lost}] :
          /\ mgr' = [mgr EXCEPT ![r] = RegisterSent(m, tracked, t)]
          /\ wire' = onWire \cup {DeliveryEvent(p, t + fate[p]) :
                                    p \in out \ {p \in out : fate[p] = Lost}}
          /\ txCount' = txCount + Cardinality(out)
    BY DEF Transmit
  <1>2. RegisterSent(m, tracked, t).inFlight = m.inFlight \cup new
        /\ RegisterSent(m, tracked, t).lastAck = m.lastAck
    BY DEF RegisterSent, Manager, Track
  <1>3. /\ mgr'[r].inFlight = m.inFlight \cup new /\ mgr'[r].lastAck = m.lastAck
        /\ mgr'[s] = mgr[s]
    <2> HIDE DEF new, tracked
    <2> QED
      BY <1>1, <1>2, <1>type
  <1>4. txCount' \in Nat /\ txCount <= txCount'
    BY <1>1, <1>type, FS_CardinalityType
  <1>5. (\A e \in new : e.pkt \in tracked) /\ \A p \in tracked : \E e \in new : e.pkt = p
    <2> HIDE DEF tracked
    <2> QED
      BY Tracked
  <1>6. \A w \in wire' : w \in wire \/ (w.pkt \in out /\ w \notin onWire)
    BY <1>1 DEF DeliveryEvent
  <1>7. tracked \subseteq out /\ \A p \in tracked : p \in Packet /\ NeedsAckTracking(p)
    OBVIOUS
  <1> HIDE DEF s, tracked, new
  <1>8. \A e \in old : e.pkt \in Packet
    BY <1>type
  <1>9. ASSUME NEW p \in tracked
        PROVE  sndNxt[r] <= p.seq \/ \E e \in old : Same(p, e.pkt)
    BY <1>9 DEF tracked
  <1> HIDE DEF old
  \* A number r has counted that fell between the pieces still does.
  <1>10. ASSUME NEW a \in Int, a <= sndNxt[r], Clear(old, a)
         PROVE  Clear(mgr'[r].inFlight, a)
    <2> SUFFICES ASSUME NEW e \in mgr'[r].inFlight
                 PROVE  a <= e.pkt.seq \/ SegmentEndSeq(e.pkt) <= a
      BY DEF Clear
    <2>1. CASE e \in m.inFlight
      BY <1>10, <2>1 DEF Clear, old
    <2>2. CASE e \in new
      <3>1. e.pkt \in tracked /\ e.pkt \in Packet
        BY <1>5, <1>7, <2>2
      <3>2. CASE sndNxt[r] <= e.pkt.seq
        <4>1. e.pkt.seq \in Nat
          BY <3>1, ExtentType
        <4> QED
          BY <1>10, <1>type, <3>2, <4>1
      <3>3. CASE \E f \in old : Same(e.pkt, f.pkt)
        <4>1. PICK f \in old : Same(e.pkt, f.pkt)
          BY <3>3
        <4>2. e.pkt.seq = f.pkt.seq /\ SegmentEndSeq(e.pkt) = SegmentEndSeq(f.pkt)
          BY <1>8, <3>1, <4>1, SameExtent
        <4> QED
          BY <1>10, <4>2 DEF Clear
      <3> QED
        BY <1>9, <3>1, <3>2, <3>3
    <2> QED
      BY <1>3, <2>1, <2>2
  <1>11. ASSUME NEW q \in Roles
         PROVE  Tiled(mgr[q].inFlight, Unacked(q), sndNxt[q], txCount)'
    <2>1. CASE q = r
      BY <1>1, <1>3, <2>1 DEF Unacked, tracked, new
    <2>2. CASE q = s
      <3>1. Tiled(mgr[s].inFlight, Unacked(s), sndNxt[s], txCount)
        BY <1>tiles, <1>type DEF Tiles
      <3>2. \A e \in mgr[s].inFlight : e.pkt.id \in Nat
        BY <1>type, ExtentType
      <3>3. \A e \in mgr[s].inFlight : e.pkt.id < txCount'
        BY <1>4, <1>type, <3>1, <3>2 DEF Tiled
      <3>4. Unacked(s)' = Unacked(s) /\ mgr'[s].inFlight = mgr[s].inFlight
            /\ sndNxt'[s] = sndNxt[s]
        BY <1>3 DEF Unacked, s
      <3> QED
        BY <2>2, <3>1, <3>3, <3>4 DEF Tiled
    <2> QED
      BY <1>type, <2>1, <2>2
  <1>12. \A q \in Roles : mgr'[q].lastAck # NoAck => mgr'[q].lastAck > InitialSeq[q]
    BY <1>3, <1>tiles, <1>type DEF Tiles
  <1>13. \A q \in Roles : Clear(mgr'[q].inFlight, rcvNxt'[Peer(q)])
    <2>1. Clear(mgr'[s].inFlight, rcvNxt'[Peer(s)])
      BY <1>3, <1>type DEF s
    <2>2. Clear(old, rcvNxt[s])
      BY <1>tiles DEF Tiles, s, old
    <2>3. Clear(mgr'[r].inFlight, rcvNxt[s])
      BY <1>10, <1>type, <2>2
    <2>4. Clear(mgr'[r].inFlight, rcvNxt'[Peer(r)])
      BY <2>3 DEF s
    <2> QED
      BY <1>type, <2>1, <2>4
  \* Acknowledgements that fitted still do.
  <1>14. ASSUME NEW p \in Packet, p.src \in Roles, AckFits(p), p.src = r \/ PacketOK(p)
         PROVE  AckFits(p)'
    <2> SUFFICES ASSUME p.ack # NoAck
                 PROVE  Clear(mgr'[Peer(p.src)].inFlight, p.ack)
                        /\ p.ack > InitialSeq[Peer(p.src)]
      BY DEF AckFits
    <2>1. p.ack > InitialSeq[Peer(p.src)] /\ Clear(mgr[Peer(p.src)].inFlight, p.ack)
          /\ p.ack \in Int
      BY <1>14 DEF AckFits, Packet, NoAck
    <2>2. CASE p.src = r
      BY <1>3, <2>1, <2>2 DEF s
    <2>3. CASE p.src = s
      <3>1. p.ack <= rcvNxt[s]
        BY <1>14, <1>type, <2>3 DEF PacketOK
      <3>2. p.ack <= sndNxt[r]
        BY <1>type, <2>1, <3>1
      <3>3. Peer(p.src) = r
        BY <1>type, <2>3
      <3> QED
        BY <1>10, <2>1, <3>2, <3>3 DEF old
    <2> QED
      BY <1>14, <1>type, <2>2, <2>3
  <1>15. ASSUME NEW q \in Roles, NEW e \in mgr'[q].inFlight
         PROVE  AckFits(e.pkt)'
    <2>1. CASE e \in mgr[q].inFlight
      <3>1. AckFits(e.pkt) /\ e.pkt \in Packet /\ e.pkt.src \in Roles /\ PacketOK(e.pkt)
        BY <1>tiles, <1>type, <2>1 DEF Tiles
      <3> QED
        BY <1>14, <3>1
    <2>2. CASE e \in new
      <3>1. e.pkt \in out /\ e.pkt \in Packet /\ e.pkt.src = r /\ AckFits(e.pkt)
        BY <1>5, <1>7, <2>2
      <3> QED
        BY <1>14, <3>1
    <2>3. e \in mgr[q].inFlight \/ e \in new
      BY <1>3, <1>type DEF s, old
    <2> QED
      BY <2>1, <2>2, <2>3
  <1>16. ASSUME NEW w \in wire' PROVE AckFits(w.pkt)'
    <2>1. CASE w \in wire
      <3>1. AckFits(w.pkt) /\ w.pkt \in Packet /\ w.pkt.src \in Roles /\ PacketOK(w.pkt)
        BY <1>tiles, <1>type, <2>1 DEF Tiles
      <3> QED
        BY <1>14, <3>1
    <2>2. CASE w.pkt \in out
      <3>1. w.pkt \in Packet /\ w.pkt.src = r /\ AckFits(w.pkt)
        BY <2>2
      <3> QED
        BY <1>14, <3>1
    <2> QED
      BY <1>6, <2>1, <2>2
  <1>17. ASSUME NEW w \in wire', NeedsAckTracking(w.pkt) PROVE Fits(w.pkt)'
    <2> DEFINE p == w.pkt
    <2>1. CASE w \in wire
      <3>1. Fits(p) /\ p \in Packet /\ p.src \in Roles /\ PacketOK(p)
        BY <1>17, <1>tiles, <1>type, <2>1 DEF Tiles
      <3> SUFFICES ASSUME NEW e \in mgr'[p.src].inFlight
                   PROVE  Same(p, e.pkt) \/ Apt(p, e.pkt)
        BY DEF Fits
      <3>2. CASE e \in mgr[p.src].inFlight
        BY <3>1, <3>2 DEF Fits
      <3>3. CASE e \notin mgr[p.src].inFlight
        <4>1. p.src = r /\ e \in new
          BY <1>3, <1>type, <3>1, <3>3 DEF old
        <4>2. e.pkt \in tracked /\ e.pkt \in Packet
          BY <1>5, <1>7, <4>1
        <4>3. CASE sndNxt[r] <= e.pkt.seq
          <5>1. SegmentEndSeq(p) <= sndNxt[r]
            BY <1>17, <3>1, <4>1, SentEnd DEF TilingInv
          <5>2. SegmentEndSeq(p) \in Nat /\ e.pkt.seq \in Nat
            BY <3>1, <4>2, ExtentType
          <5> QED
            BY <1>type, <4>3, <5>1, <5>2 DEF Apt
        <4>4. CASE \E f \in old : Same(e.pkt, f.pkt)
          <5>1. PICK f \in old : Same(e.pkt, f.pkt)
            BY <4>4
          <5>2. Same(p, f.pkt) \/ Apt(p, f.pkt)
            BY <3>1, <4>1 DEF Fits, old
          <5>3. Same(f.pkt, e.pkt) /\ f.pkt \in Packet
            BY <1>8, <4>2, <5>1, SameExtent
          <5>4. Same(p, f.pkt) => Same(p, e.pkt)
            BY <5>3 DEF Same
          <5>5. Apt(p, f.pkt) => Apt(p, e.pkt)
            <6>1. f.pkt.seq = e.pkt.seq /\ SegmentEndSeq(f.pkt) = SegmentEndSeq(e.pkt)
              BY <4>2, <5>3, SameExtent
            <6> QED
              BY <6>1 DEF Apt
          <5> QED
            BY <5>2, <5>4, <5>5
        <4> QED
          BY <1>9, <4>2, <4>3, <4>4
      <3> QED
        BY <3>2, <3>3
    <2>2. CASE w.pkt \in out
      <3>1. p \in tracked /\ p.src = r
        BY <1>17, <2>2 DEF tracked
      <3>2. PICK f \in new : f.pkt = p
        BY <1>5, <3>1
      <3>3. f \in mgr'[r].inFlight
        BY <1>3, <3>2
      <3> SUFFICES ASSUME NEW e \in mgr'[r].inFlight
                   PROVE  Same(p, e.pkt) \/ Apt(p, e.pkt)
        BY <3>1 DEF Fits
      <3>4. CASE e = f
        BY <3>2, <3>4 DEF Same
      <3>5. CASE e # f
        <4>1. Tiled(mgr[r].inFlight, Unacked(r), sndNxt[r], txCount)'
          BY <1>11
        <4>2. Apt(f.pkt, e.pkt)
          BY <3>3, <3>5, <4>1 DEF Tiled
        <4> QED
          BY <3>2, <4>2
      <3> QED
        BY <3>4, <3>5
    <2> QED
      BY <1>6, <2>1, <2>2
  <1>18. Tiles'
    BY <1>11, <1>12, <1>13, <1>15, <1>16, <1>17 DEF Tiles
  <1> QED
    BY <1>18 DEF TilingInv

-----------------------------------------------------------------------------
(* The commands.                                                            *)

LEMMA TiledBelow ==
  ASSUME NEW E, \A e \in E : e.pkt.id \in Nat, NEW lo, NEW hi,
         NEW n \in Nat, NEW k \in Nat, n <= k, Tiled(E, lo, hi, n)
  PROVE  Tiled(E, lo, hi, k)
  <1>1. \A e \in E : e.pkt.id < k
    BY DEF Tiled
  <1> QED
    BY <1>1 DEF Tiled

\* A SYN, a SYN-ACK or a FIN is a piece of one number.
LEMMA OnePiece ==
  ASSUME NEW E \in SUBSET Entry, NEW lo \in Int, NEW hi \in Int, NEW n \in Nat,
         Tiled(E, lo, hi, n), lo <= hi, NEW k \in Nat,
         NEW p \in Packet, p.kind \in {"SYN", "SYN_ACK", "FIN"}, p.len = 0, p.seq = hi,
         n <= p.id, p.id < k, NEW t
  PROVE  Tiled(E \cup Track({p}, t), lo, hi + 1, k)
  <1>1. p.seq \in Nat /\ p.id \in Nat
    BY ExtentType
  <1>2. SegmentEndSeq(p) = hi + 1
    BY <1>1 DEF SegmentEndSeq
  <1>3. n <= k /\ hi + 1 \in Int /\ hi <= hi + 1
    BY <1>1
  <1>4. Pieces({p}, hi, hi + 1, n, k)
    BY <1>1, <1>2 DEF Pieces
  <1> QED
    BY <1>1, <1>2, <1>3, <1>4, Extend

\* Nothing sent: nothing tracked or acknowledged.
LEMMA Unsent ==
  ASSUME TilingInv, NEW r \in Roles, sndNxt[r] = 0
  PROVE  mgr[r].inFlight = {} /\ mgr[r].lastAck = NoAck
  <1>1. /\ rcvNxt[Peer(r)] <= 0 /\ rcvNxt[Peer(r)] \in Nat /\ mgr[r].lastAck <= rcvNxt[Peer(r)]
        /\ InitialSeq[r] \in Nat /\ mgr[r].lastAck \in Int
        /\ \A e \in mgr[r].inFlight : e.pkt \in Packet
    BY TileTypes DEF TilingInv
  <1>2. /\ mgr[r].lastAck # NoAck => mgr[r].lastAck > InitialSeq[r]
        /\ Tiled(mgr[r].inFlight, Unacked(r), sndNxt[r], txCount)
    BY DEF TilingInv, Tiles
  <1>3. mgr[r].inFlight = {}
    <2> SUFFICES ASSUME NEW e \in mgr[r].inFlight PROVE FALSE
      OBVIOUS
    <2>1. e.pkt.seq < SegmentEndSeq(e.pkt) /\ SegmentEndSeq(e.pkt) <= 0
      BY <1>2 DEF Tiled
    <2>2. e.pkt.seq \in Nat /\ SegmentEndSeq(e.pkt) \in Nat
      BY <1>1, ExtentType
    <2> QED
      BY <2>1, <2>2
  <1> QED
    BY <1>1, <1>2, <1>3

\* Nothing at all is covered by nothing.
LEMMA NoPieces ==
  ASSUME NEW a \in Int, NEW n
  PROVE  Tiled({}, a, a, n)
  <1>1. a .. a - 1 = {}
    OBVIOUS
  <1> QED
    BY <1>1 DEF Tiled

\* What is unacknowledged ends where the numbers sent do.
LEMMA UnackedBelow ==
  ASSUME TilingInv, NEW r \in Roles, InitialSeq[r] <= sndNxt[r]
  PROVE  Unacked(r) <= sndNxt[r]
  <1>1. /\ mgr[r].lastAck <= rcvNxt[Peer(r)] /\ rcvNxt[Peer(r)] <= sndNxt[r]
        /\ mgr[r].lastAck \in Int /\ rcvNxt[Peer(r)] \in Nat /\ sndNxt[r] \in Nat
    BY TileTypes DEF TilingInv
  <1> QED
    BY <1>1 DEF Unacked

\* An endpoint that has opened keeps what it received.
LEMMA OpenedKept ==
  ASSUME TilingInv, ConnInv', Forward, NEW q \in Roles, Opened(q)
  PROVE  rcvNxt'[q] > InitialSeq[Peer(q)]
  <1>1. rcvNxt[q] > InitialSeq[Peer(q)]
    BY DEF TilingInv, Tiles
  <1>2. rcvNxt[q] \in Nat /\ InitialSeq[Peer(q)] \in Nat /\ rcvNxt'[q] >= rcvNxt[q]
    BY TileTypes DEF TilingInv, Forward
  <1>3. rcvNxt'[q] \in Nat
    BY DEF ConnInv, TimerInv, TypeInv, TypeOK
  <1> QED
    BY <1>1, <1>2, <1>3

LEMMA StartTiles ==
  ASSUME TilingInv, ConnInv', Forward, Start
  PROVE  TilingInv'
  <1> DEFINE ISN == InitialSeq["client"]
             syn == NewPacket(txCount, "SYN", ISN, NoAck, 0, "client")
             m == mgr["client"]
  <1>type. /\ "client" \in Roles /\ "server" \in Roles /\ Peer("client") = "server"
           /\ (\A r \in Roles : r = "client" \/ r = "server")
           /\ mgr \in [Roles -> Manager] /\ sndNxt \in [Roles -> Nat]
           /\ ISN \in Nat /\ txCount \in Nat /\ TypeInv
    BY TileTypes DEF TilingInv
  <1>inv. Tiles /\ Numbers /\ ConnInv
    BY DEF TilingInv, ConnInv
  <1>1. /\ ~started
        /\ sndNxt' = [sndNxt EXCEPT !["client"] = ISN + 1]
        /\ Transmit("client", m, {syn}, wire, timers, now)
        /\ UNCHANGED <<rcvNxt, segments>>
    BY DEF Start, sending
  <1>2. state' = [client |-> "SYN_SENT", server |-> "LISTEN"]
    BY <1>1, <1>type, Triggered DEF TypeInv, Start
  <1>3. sndNxt["client"] = 0
    BY <1>1, <1>inv DEF Numbers
  <1>4. m.inFlight = {} /\ m.lastAck = NoAck
    BY <1>3, <1>type, Unsent
  <1>5. {syn} \in SUBSET Packet /\ IsFiniteSet({syn}) /\ Cardinality({syn}) = 1
    <2>1. {syn} \in SUBSET Packet
      BY <1>type DEF NewPacket, Packet, Kinds
    <2> HIDE DEF syn
    <2> QED
      BY <2>1, FS_Singleton
  <1>6. /\ syn.src = "client" /\ syn.ack = NoAck /\ syn.kind = "SYN" /\ syn.len = 0
        /\ syn.seq = ISN /\ syn.id = txCount
    BY DEF NewPacket
  <1> HIDE DEF syn
  <1>7. {p \in {syn} : NeedsAckTracking(p)} = {syn}
    BY <1>6 DEF NeedsAckTracking
  <1>8. Tiled({} \cup Track({syn}, now), ISN, ISN + 1, txCount + 1)
    <2>1. Tiled({}, ISN, ISN, txCount)
      BY <1>type, NoPieces
    <2>2. /\ {} \in SUBSET Entry /\ ISN \in Int /\ ISN <= ISN
          /\ txCount + 1 \in Nat /\ txCount <= txCount /\ txCount < txCount + 1
          /\ syn \in Packet /\ syn.kind \in {"SYN", "SYN_ACK", "FIN"}
      BY <1>5, <1>6, <1>type
    <2> HIDE DEF ISN
    <2> QED
      BY <1>6, <1>type, <2>1, <2>2, OnePiece
  <1>9. Tiled(m.inFlight \cup Track({p \in {syn} : NeedsAckTracking(p)}, now),
              IF m.lastAck = NoAck THEN ISN ELSE m.lastAck,
              sndNxt'["client"], txCount + Cardinality({syn}))
    BY <1>1, <1>4, <1>5, <1>7, <1>8, <1>type
  <1>10. \A p \in {syn} : p.src = "client" /\ AckFits(p) /\ sndNxt["client"] <= p.seq
    BY <1>3, <1>6, <1>type DEF AckFits
  <1>11. Clear(mgr[Peer("client")].inFlight, rcvNxt'["client"]) /\ Abut(segments')
    BY <1>1, <1>inv, <1>type DEF Tiles, Peer
  <1>12. \A q \in Roles : ~Opened(q)'
    BY <1>2, <1>type DEF Opened
  <1>13. /\ sndNxt'[Peer("client")] = sndNxt[Peer("client")]
         /\ rcvNxt'[Peer("client")] = rcvNxt[Peer("client")]
         /\ m \in Manager /\ wire \in SUBSET wire
    BY <1>1, <1>type
  <1> QED
    BY <1>1, <1>4, <1>5, <1>9, <1>10, <1>11, <1>12, <1>13, <1>type, TransmitTiles

LEMMA SendTiles ==
  ASSUME TilingInv, ConnInv', Forward, NEW length \in MessageLengths, Send(length)
  PROVE  TilingInv'
  <1> DEFINE segs == Segment(length, tcpConfig.mss)
             m == mgr["client"]
             c == cong["client"]
             out == DataPackets(m, c, segs, 1)
             bytes == DataBytes(m, c, segs, 1)
  <1>type. /\ "client" \in Roles /\ "server" \in Roles /\ Peer("client") = "server"
           /\ (\A r \in Roles : r = "client" \/ r = "server")
           /\ mgr \in [Roles -> Manager] /\ sndNxt \in [Roles -> Nat]
           /\ InitialSeq["client"] \in Nat /\ txCount \in Nat /\ TypeInv /\ TypeOK
           /\ m.inFlight \in SUBSET Entry /\ Unacked("client") \in Int
    BY TileTypes DEF TilingInv
  <1>inv. Tiles /\ Numbers /\ ConnInv
    BY DEF TilingInv, ConnInv
  <1>1. /\ state["client"] = "ESTABLISHED"
        /\ segments' = segs
        /\ sndNxt' = [sndNxt EXCEPT !["client"] = @ + bytes]
        /\ Transmit("client", m, out, wire, timers, now)
        /\ UNCHANGED <<started, state, rcvNxt>>
    BY DEF Send
  <1>2. started
    BY <1>1, <1>type DEF TypeInv
  <1>3. segs \in Seq(SegmentRecords) /\ Ordered(segs) /\ Apart(segs) /\ Abut(segs)
    <2>1. length \in Nat /\ tcpConfig \in TcpConfigs
      BY SessionAssumption, <1>type DEF TypeOK
    <2>2. tcpConfig.mss \in Nat \ {0}
      BY <2>1 DEF TcpConfigs
    <2> QED
      BY <2>1, <2>2, SegmentProperties, SegmentApart, SegmentAbut
  <1>4. SendTypes(m, c, segs, 1)
    BY <1>3, <1>type DEF SendTypes, TypeOK
  <1> HIDE DEF segs
  <1>5. /\ out \in SUBSET Packet /\ bytes \in Nat
        /\ \A p \in out : p.kind = "DATA" /\ p.src = "client" /\ p.ack = NoAck
    BY <1>3, <1>4, <1>type, DataPacketsProperties, DataPacketsExtent
  <1>6. /\ IsFiniteSet(out) /\ Cardinality(out) \in Nat
        /\ Pieces(out, sndNxt["client"], sndNxt["client"] + bytes,
                  txCount, txCount + Cardinality(out))
    <2>1. txCount \in Nat /\ sndNxt["client"] \in Nat
      BY <1>type
    <2> HIDE DEF m, c
    <2>2. /\ IsFiniteSet(out)
          /\ Pieces(out, sndNxt["client"], sndNxt["client"] + bytes,
                    txCount, txCount + Cardinality(out))
      BY <1>3, <1>4, <2>1, DataTiles
    <2> QED
      BY <2>2, FS_CardinalityType
  <1> HIDE DEF out, bytes, c
  <1>7. {p \in out : NeedsAckTracking(p)} = out
    BY <1>5 DEF NeedsAckTracking
  <1>8. Unacked("client") <= sndNxt["client"]
    <2>1. sndNxt["client"] > InitialSeq["client"] /\ sndNxt["client"] \in Nat
      BY <1>2, <1>inv, <1>type DEF Numbers
    <2> QED
      BY <1>type, <2>1, UnackedBelow
  <1>9. Tiled(m.inFlight \cup Track(out, now), Unacked("client"),
              sndNxt["client"] + bytes, txCount + Cardinality(out))
    <2>1. Tiled(m.inFlight, Unacked("client"), sndNxt["client"], txCount)
      BY <1>inv, <1>type DEF Tiles
    <2>2. /\ sndNxt["client"] \in Int /\ sndNxt["client"] + bytes \in Int
          /\ sndNxt["client"] <= sndNxt["client"] + bytes
          /\ txCount + Cardinality(out) \in Nat /\ txCount <= txCount + Cardinality(out)
          /\ m.inFlight \in SUBSET Entry /\ Unacked("client") \in Int /\ txCount \in Nat
      BY <1>5, <1>6, <1>type
    <2> DEFINE E == m.inFlight
               lo == Unacked("client")
               hi == sndNxt["client"]
               end == hi + bytes
               k == txCount + Cardinality(out)
    <2>3. /\ Tiled(E, lo, hi, txCount) /\ E \in SUBSET Entry /\ lo \in Int /\ hi \in Int
          /\ end \in Int /\ k \in Nat /\ txCount \in Nat
          /\ lo <= hi /\ hi <= end /\ txCount <= k /\ out \in SUBSET Packet
      BY <1>5, <1>8, <2>1, <2>2
    <2>4. Pieces(out, hi, end, txCount, k)
      BY <1>6
    <2> HIDE DEF E, lo, hi, end, k
    <2>5. Tiled(E \cup Track(out, now), lo, end, k)
      BY <2>3, <2>4, Extend
    <2> QED
      BY <2>5 DEF E, lo, hi, end, k
  <1>10. Tiled(m.inFlight \cup Track({p \in out : NeedsAckTracking(p)}, now),
               IF m.lastAck = NoAck THEN InitialSeq["client"] ELSE m.lastAck,
               sndNxt'["client"], txCount + Cardinality(out))
    BY <1>1, <1>7, <1>9, <1>type DEF Unacked
  <1>11. \A p \in out : p.src = "client" /\ AckFits(p) /\ sndNxt["client"] <= p.seq
    BY <1>5, <1>6 DEF AckFits, Pieces
  <1>12. /\ Clear(mgr[Peer("client")].inFlight, rcvNxt'["client"]) /\ Abut(segments')
         /\ m.lastAck # NoAck => m.lastAck > InitialSeq["client"]
    BY <1>1, <1>3, <1>inv, <1>type DEF Tiles, Peer
  <1>13. \A q \in Roles : Opened(q)' => rcvNxt'[q] > InitialSeq[Peer(q)]
    BY <1>1, OpenedKept DEF Opened
  <1>14. /\ sndNxt'[Peer("client")] = sndNxt[Peer("client")]
         /\ rcvNxt'[Peer("client")] = rcvNxt[Peer("client")]
         /\ m \in Manager /\ wire \in SUBSET wire
    BY <1>1, <1>type
  <1> QED
    BY <1>1, <1>5, <1>6, <1>10, <1>11, <1>12, <1>13, <1>14, <1>type, TransmitTiles

LEMMA CloseTiles ==
  ASSUME TilingInv, ConnInv', Forward, Close
  PROVE  TilingInv'
  <1> DEFINE fin == NewPacket(txCount, "FIN", sndNxt["client"], NoAck, 0, "client")
             m == mgr["client"]
  <1>type. /\ "client" \in Roles /\ "server" \in Roles /\ Peer("client") = "server"
           /\ (\A r \in Roles : r = "client" \/ r = "server")
           /\ mgr \in [Roles -> Manager] /\ sndNxt \in [Roles -> Nat]
           /\ InitialSeq["client"] \in Nat /\ txCount \in Nat /\ TypeInv
           /\ m.inFlight \in SUBSET Entry /\ Unacked("client") \in Int
           /\ state \in [Roles -> States]
    BY TileTypes DEF TilingInv
  <1>inv. Tiles /\ Numbers /\ ConnInv
    BY DEF TilingInv, ConnInv
  <1>1. /\ state["client"] = "ESTABLISHED"
        /\ state' = [state EXCEPT !["client"] = "FIN_WAIT_1"]
        /\ sndNxt' = [sndNxt EXCEPT !["client"] = @ + 1]
        /\ Transmit("client", m, {fin}, wire, timers, now)
        /\ UNCHANGED <<started, rcvNxt, segments>>
    BY Triggered DEF Close, sending
  <1>2. started
    BY <1>1, <1>type DEF TypeInv
  <1>3. {fin} \in SUBSET Packet /\ IsFiniteSet({fin}) /\ Cardinality({fin}) = 1
    <2>1. {fin} \in SUBSET Packet
      BY <1>type DEF NewPacket, Packet, Kinds
    <2> HIDE DEF fin
    <2> QED
      BY <2>1, FS_Singleton
  <1>4. /\ fin.src = "client" /\ fin.ack = NoAck /\ fin.kind = "FIN" /\ fin.len = 0
        /\ fin.seq = sndNxt["client"] /\ fin.id = txCount
    BY DEF NewPacket
  <1> HIDE DEF fin
  <1>5. {p \in {fin} : NeedsAckTracking(p)} = {fin}
    BY <1>4 DEF NeedsAckTracking
  <1>6. Unacked("client") <= sndNxt["client"]
    <2>1. sndNxt["client"] > InitialSeq["client"] /\ sndNxt["client"] \in Nat
      BY <1>2, <1>inv, <1>type DEF Numbers
    <2> QED
      BY <1>type, <2>1, UnackedBelow
  <1>7. Tiled(m.inFlight \cup Track({fin}, now), Unacked("client"),
              sndNxt["client"] + 1, txCount + 1)
    <2>1. Tiled(m.inFlight, Unacked("client"), sndNxt["client"], txCount)
      BY <1>inv, <1>type DEF Tiles
    <2>2. sndNxt["client"] \in Int /\ txCount + 1 \in Nat /\ txCount <= txCount
          /\ txCount < txCount + 1
      BY <1>type
    <2> HIDE DEF m
    <2> QED
      BY <1>3, <1>4, <1>6, <1>type, <2>1, <2>2, OnePiece
  <1>8. Tiled(m.inFlight \cup Track({p \in {fin} : NeedsAckTracking(p)}, now),
              IF m.lastAck = NoAck THEN InitialSeq["client"] ELSE m.lastAck,
              sndNxt'["client"], txCount + Cardinality({fin}))
    BY <1>1, <1>3, <1>5, <1>7, <1>type DEF Unacked
  <1>9. \A p \in {fin} : p.src = "client" /\ AckFits(p) /\ sndNxt["client"] <= p.seq
    BY <1>4, <1>type DEF AckFits
  <1>10. /\ Clear(mgr[Peer("client")].inFlight, rcvNxt'["client"]) /\ Abut(segments')
         /\ m.lastAck # NoAck => m.lastAck > InitialSeq["client"]
    BY <1>1, <1>inv, <1>type DEF Tiles, Peer
  <1>11. \A q \in Roles : Opened(q)' => rcvNxt'[q] > InitialSeq[Peer(q)]
    <2>1. \A q \in Roles : Opened(q)' => Opened(q)
      BY <1>1, <1>type DEF Opened
    <2> QED
      BY <2>1, OpenedKept
  <1>12. /\ sndNxt'[Peer("client")] = sndNxt[Peer("client")]
         /\ rcvNxt'[Peer("client")] = rcvNxt[Peer("client")]
         /\ m \in Manager /\ wire \in SUBSET wire
    BY <1>1, <1>type
  <1> DEFINE out == {fin}
  <1>13. /\ out \in SUBSET Packet /\ IsFiniteSet(out) /\ "client" \in Roles
         /\ m.inFlight \subseteq mgr["client"].inFlight
         /\ Transmit("client", m, out, wire, timers, now)
         /\ Tiled(m.inFlight \cup Track({p \in out : NeedsAckTracking(p)}, now),
                  IF m.lastAck = NoAck THEN InitialSeq["client"] ELSE m.lastAck,
                  sndNxt'["client"], txCount + Cardinality(out))
         /\ \A p \in out : p.src = "client" /\ AckFits(p) /\ sndNxt["client"] <= p.seq
    BY <1>1, <1>3, <1>8, <1>9, <1>type
  <1> HIDE DEF out, m
  <1> QED
    BY <1>10, <1>11, <1>12, <1>13, TransmitTiles

\* A step that neither sends nor receives.
LEMMA QuietTiles ==
  ASSUME TilingInv, ConnInv', Forward,
         UNCHANGED <<sndNxt, rcvNxt, segments, mgr, wire, txCount>>,
         \A q \in Roles : Opened(q)' => Opened(q)
  PROVE  TilingInv'
  <1>1. Tiles
    BY DEF TilingInv
  <1>2. \A p : AckFits(p)' <=> AckFits(p)
    BY DEF AckFits
  <1>3. \A p : Fits(p)' <=> Fits(p)
    BY DEF Fits
  <1>4. \A q \in Roles : Opened(q)' => rcvNxt'[q] > InitialSeq[Peer(q)]
    BY OpenedKept
  <1>5. \A r \in Roles : Unacked(r)' = Unacked(r)
    BY DEF Unacked
  <1>6. Tiles'
    BY <1>1, <1>2, <1>3, <1>4, <1>5 DEF Tiles
  <1> QED
    BY <1>6 DEF TilingInv

-----------------------------------------------------------------------------
(* ACK bookkeeping.                                                         *)


\* What r sends on a packet it tracks, or copies of packets it does.
LEMMA AckTiles ==
  ASSUME TilingInv, NEW r \in Roles, NEW p \in Packet, Peer(p.src) = r, p.ack # NoAck,
         PacketOK(p), AckFits(p), AckBookkeeping(r, p), NEW t
  PROVE  LET m == AckedManager(r, p)
             out == AckedOutput(r, p)
         IN  /\ m.lastAck # NoAck /\ m.lastAck > InitialSeq[r]
             /\ Tiled(m.inFlight \cup Track(out, t), m.lastAck, sndNxt'[r],
                      txCount + Cardinality(out))
             /\ \A q \in out : /\ q.src = r /\ AckFits(q) /\ NeedsAckTracking(q)
                               /\ sndNxt[r] <= q.seq \/ \E e \in mgr[r].inFlight : Same(q, e.pkt)
  <1> DEFINE M == mgr[r]
             E == mgr[r].inFlight
             a == p.ack
             n == OnAck(M, a)
             m == AckedManager(r, p)
             c == AckedCongestion(r, p)
             out == AckedOutput(r, p)
             target == FastRetransmitTarget(M, a)
  <1>type. /\ TypeInv /\ TypeOK /\ M \in Manager /\ E \in SUBSET Entry /\ IsFiniteSet(E)
           /\ a \in Nat /\ Unacked(r) \in Int /\ M.lastAck \in Int
           /\ sndNxt \in [Roles -> Nat] /\ sndNxt[r] \in Nat /\ txCount \in Nat
           /\ InitialSeq[r] \in Nat /\ Peer(p.src) \in Roles /\ p.src \in Roles
           /\ rcvNxt[Peer(r)] \in Nat /\ rcvNxt[Peer(r)] <= sndNxt[r]
           /\ "client" \in Roles
           /\ \A e \in E : /\ e.pkt.src = r /\ e.pkt \in Packet /\ NeedsAckTracking(e.pkt)
    <2>1. p.src \in Roles /\ a \in Nat
      BY DEF Packet
    <2> QED
      BY <2>1, TileTypes DEF TilingInv
  <1>inv. Tiles /\ ConnInv
    BY DEF TilingInv
  <1>1. a > InitialSeq[r] /\ Clear(E, a)
    BY DEF AckFits
  <1>2. a <= sndNxt[r]
    <2>1. Peer(r) = p.src
      BY <1>type, TileTypes DEF TilingInv
    <2>2. a <= rcvNxt[p.src]
      BY DEF PacketOK
    <2> QED
      BY <1>type, <2>1, <2>2
  <1>3. Tiled(E, Unacked(r), sndNxt[r], txCount)
    BY <1>inv DEF Tiles
  <1>4. M.lastAck # NoAck => M.lastAck > InitialSeq[r]
    BY <1>inv DEF Tiles
  <1>5. /\ n \in Manager /\ m.lastAck = n.lastAck /\ m \in Manager
        /\ m.inFlight = {e \in n.inFlight : e.pkt.id \notin Ids(target)}
    <2>1. n \in Manager
      BY <1>type, OnAckProperties
    <2> QED
      BY <2>1, CancelProperties DEF AckedManager
  <1>6. target \in SUBSET Packet /\ IsFiniteSet(target) /\ target \subseteq {e.pkt : e \in E}
    BY <1>type, FastRetransmitTargetProperties
  <1>7. /\ sndNxt' = IF Resumes(r, p)
                     THEN [sndNxt EXCEPT ![r] = @ + DataBytes(m, c, segments, nextSeg)]
                     ELSE sndNxt
        /\ out = IF Resumes(r, p) THEN DataPackets(m, c, segments, nextSeg) ELSE Copies(target)
    BY DEF AckBookkeeping, AckedOutput
  <1>8. \A q \in target : AckFits(q) /\ q.src = r /\ NeedsAckTracking(q)
    BY <1>6, <1>inv, <1>type DEF Tiles
  <1> HIDE DEF c, target
  <1>9. CASE ~IsNewProgress(M, a)
    <2>1. Acked(M, a) = {} /\ n.inFlight = E /\ n.lastAck = M.lastAck /\ M.lastAck # NoAck
      BY <1>9, <1>type DEF Acked, OnAck, Manager, IsNewProgress
    <2>2. ~Resumes(r, p)
      BY <2>1 DEF Resumes
    <2>3. out = Copies(target) /\ sndNxt'[r] = sndNxt[r]
      BY <1>7, <2>2
    <2>4. m.inFlight = {e \in E : e.pkt.id \notin Ids(target)} /\ m.lastAck = M.lastAck
          /\ Unacked(r) = M.lastAck
      BY <1>5, <2>1 DEF Unacked
    <2> HIDE DEF M, E, n, m, out, a
    <2>5. /\ Tiled({e \in E : e.pkt.id \notin Ids(target)} \cup Track(Copies(target), t),
                   Unacked(r), sndNxt[r], txCount + Cardinality(Copies(target)))
          /\ \A x \in Copies(target) : \E q \in target :
               Same(x, q) /\ x.ack = q.ack /\ x.src = q.src
      <3> DEFINE lo == Unacked(r)
                 hi == sndNxt[r]
      <3>1. /\ lo \in Int /\ hi \in Int /\ txCount \in Nat /\ E \in SUBSET Entry
            /\ Tiled(E, lo, hi, txCount)
        BY <1>3, <1>type
      <3> HIDE DEF lo, hi
      <3>2. /\ Tiled({e \in E : e.pkt.id \notin Ids(target)} \cup Track(Copies(target), t),
                     lo, hi, txCount + Cardinality(Copies(target)))
            /\ \A x \in Copies(target) : \E q \in target :
                 Same(x, q) /\ x.ack = q.ack /\ x.src = q.src
        BY <1>6, <3>1, Resend
      <3> QED
        BY <3>2 DEF lo, hi
    <2>6. ASSUME NEW x \in out
          PROVE  /\ x.src = r /\ AckFits(x) /\ NeedsAckTracking(x)
                 /\ \E e \in E : Same(x, e.pkt)
      <3>1. PICK q \in target : Same(x, q) /\ x.ack = q.ack /\ x.src = q.src
        BY <2>3, <2>5
      <3>2. AckFits(q) /\ q.src = r /\ NeedsAckTracking(q)
        BY <1>8
      <3>3. PICK e \in E : q = e.pkt
        BY <1>6
      <3> QED
        BY <3>1, <3>2, <3>3 DEF AckFits, NeedsAckTracking, Same
    <2>7. m.lastAck # NoAck /\ m.lastAck > InitialSeq[r]
      BY <1>4, <2>1, <2>4 DEF M
    <2>8. Tiled(m.inFlight \cup Track(out, t), m.lastAck, sndNxt'[r], txCount + Cardinality(out))
      BY <2>3, <2>4, <2>5
    <2> QED
      BY <2>6, <2>7, <2>8 DEF m, out, E
  <1>10. CASE IsNewProgress(M, a)
    <2>1. target = {}
      BY <1>10 DEF target, FastRetransmitTarget, TriggersFastRetransmit, IsDuplicateAck
    <2>2. n.inFlight = E \ Acked(M, a) /\ n.lastAck = a
      BY <1>10, <1>type DEF OnAck, Manager, IsDuplicateAck
    <2>3. Acked(M, a) = {e \in E : SegmentEndSeq(e.pkt) <= a}
      BY <1>10 DEF Acked
    <2>4. /\ m.inFlight = {e \in E : ~(SegmentEndSeq(e.pkt) <= a)} /\ m.lastAck = a
          /\ m.inFlight \in SUBSET Entry
      BY <1>5, <1>type, <2>1, <2>2, <2>3 DEF Ids
    <2>5. Unacked(r) <= a
      BY <1>1, <1>10, <1>type DEF Unacked, IsNewProgress
    <2>6. Tiled(m.inFlight, a, sndNxt[r], txCount)
      <3>1. sndNxt[r] \in Int /\ a \in Int
        BY <1>type
      <3> HIDE DEF M, E, n, m, out, a
      <3>2. Tiled({e \in E : ~(SegmentEndSeq(e.pkt) <= a)}, a, sndNxt[r], txCount)
        BY <1>1, <1>3, <1>type, <2>5, <3>1, Acknowledge
      <3> QED
        BY <2>4, <3>2
    <2>7. CASE ~Resumes(r, p)
      <3>1. out = {} /\ sndNxt'[r] = sndNxt[r]
        BY <1>7, <2>1, <2>7 DEF Copies
      <3>2. Track(out, t) = {} /\ Cardinality(out) = 0
        BY <3>1, FS_EmptySet DEF Track
      <3>3. m.inFlight \cup Track(out, t) = m.inFlight /\ txCount + Cardinality(out) = txCount
        BY <1>type, <3>2
      <3> HIDE DEF m, out, a
      <3>4. Tiled(m.inFlight \cup Track(out, t), m.lastAck, sndNxt'[r],
                  txCount + Cardinality(out))
        BY <2>4, <2>6, <3>1, <3>3
      <3>5. m.lastAck # NoAck /\ m.lastAck > InitialSeq[r]
        BY <1>1, <2>4 DEF a
      <3> QED
        BY <3>1, <3>4, <3>5 DEF m, out
    <2>8. CASE Resumes(r, p)
      <3> DEFINE bytes == DataBytes(m, c, segments, nextSeg)
                 hi == sndNxt["client"]
                 k == txCount + Cardinality(out)
      <3>1. r = "client" /\ out = DataPackets(m, c, segments, nextSeg)
        BY <1>7, <2>8 DEF Resumes
      <3>2. SendTypes(m, c, segments, nextSeg) /\ Apart(segments) /\ Abut(segments)
        BY <1>inv, <1>type, AckStepProperties DEF c, ConnInv, Tiles
      <3>3. sndNxt'[r] = hi + bytes /\ hi = sndNxt[r]
        BY <1>7, <1>type, <2>8, <3>1
      <3> HIDE DEF m, out, a
      <3>4. /\ out \in SUBSET Packet /\ bytes \in Nat
            /\ \A q \in out : q.kind = "DATA" /\ q.src = "client" /\ q.ack = NoAck
        BY <1>type, <3>1, <3>2, DataPacketsProperties, DataPacketsExtent
      <3>5. IsFiniteSet(out) /\ Pieces(out, hi, hi + bytes, txCount, k)
        BY <1>type, <3>1, <3>2, DataTiles
      <3>6. Cardinality(out) \in Nat
        BY <3>5, FS_CardinalityType
      <3>7. /\ hi \in Int /\ hi + bytes \in Int /\ hi <= hi + bytes
            /\ k \in Nat /\ txCount <= k /\ a <= hi /\ a \in Int
        BY <1>2, <1>type, <3>3, <3>4, <3>6 DEF a
      <3>8. Tiled(m.inFlight \cup Track(out, t), a, hi + bytes, k)
        <4> DEFINE end == hi + bytes
        <4>1. end \in Int /\ hi <= end /\ Pieces(out, hi, end, txCount, k)
          BY <3>5, <3>7
        <4>2. Tiled(m.inFlight, a, hi, txCount)
          BY <2>6, <3>3
        <4> HIDE DEF hi, k, end
        <4>3. Tiled(m.inFlight \cup Track(out, t), a, end, k)
          BY <1>type, <2>4, <3>4, <3>7, <4>1, <4>2, Extend
        <4> QED
          BY <4>3 DEF end
      <3>9. \A q \in out : /\ q.src = r /\ AckFits(q) /\ NeedsAckTracking(q)
                           /\ sndNxt[r] <= q.seq
        BY <3>1, <3>3, <3>4, <3>5 DEF AckFits, NeedsAckTracking, Pieces
      <3>10. m.lastAck # NoAck /\ m.lastAck > InitialSeq[r]
        BY <1>1, <2>4 DEF a
      <3>11. Tiled(m.inFlight \cup Track(out, t), m.lastAck, sndNxt'[r],
                   txCount + Cardinality(out))
        BY <2>4, <3>3, <3>8
      <3> QED
        BY <3>9, <3>10, <3>11 DEF m, out
    <2> QED
      BY <2>7, <2>8
  <1> QED
    BY <1>9, <1>10

-----------------------------------------------------------------------------
(* The deliveries.                                                          *)

\* What is tracked, if nothing tracked is sent.
LEMMA NothingTracked ==
  ASSUME TilingInv, NEW r \in Roles, NEW k \in Nat, NEW t, NEW P, P = {}
  PROVE  Tiled(mgr[r].inFlight \cup Track(P, t),
               IF mgr[r].lastAck = NoAck THEN InitialSeq[r] ELSE mgr[r].lastAck,
               sndNxt[r], txCount + k)
  <1> DEFINE E == mgr[r].inFlight
             n == txCount + k
             lo == Unacked(r)
             hi == sndNxt[r]
  <1>1. /\ \A e \in E : e.pkt.id \in Nat
        /\ txCount \in Nat /\ n \in Nat /\ txCount <= n
    BY TileTypes, ExtentType DEF TilingInv
  <1>2. Tiled(E, lo, hi, txCount)
    BY DEF TilingInv, Tiles
  <1>3. E \cup Track(P, t) = E
    BY DEF Track
  <1>4. lo = IF mgr[r].lastAck = NoAck THEN InitialSeq[r] ELSE mgr[r].lastAck
    BY DEF Unacked
  <1> HIDE DEF E, n, lo, hi
  <1>5. Tiled(E, lo, hi, n)
    BY <1>1, <1>2, TiledBelow
  <1> QED
    BY <1>3, <1>4, <1>5 DEF E, n, hi

LEMMA DeliverSynTiles ==
  ASSUME TilingInv, ConnInv', Forward, DeliverSyn
  PROVE  TilingInv'
  <1>type. /\ "client" \in Roles /\ "server" \in Roles
           /\ Peer("server") = "client" /\ Peer("client") = "server"
           /\ (\A r \in Roles : r = "client" \/ r = "server")
           /\ mgr \in [Roles -> Manager] /\ sndNxt \in [Roles -> Nat]
           /\ rcvNxt \in [Roles -> Nat] /\ state \in [Roles -> States]
           /\ InitialSeq["client"] \in Nat /\ InitialSeq["server"] \in Nat
           /\ txCount \in Nat /\ mgr["server"] \in Manager
           /\ mgr["server"].inFlight \in SUBSET Entry
    BY TileTypes DEF TilingInv
  <1>inv. Tiles /\ Numbers /\ ConnInv
    BY DEF TilingInv, ConnInv
  <1>1. PICK w \in wire :
          LET p == w.pkt
              synAck == NewPacket(txCount, "SYN_ACK", InitialSeq["server"], p.seq + 1, 0, "server")
          IN  /\ p.kind = "SYN"
              /\ IF state["server"] = "LISTEN"
                 THEN /\ state' = [state EXCEPT !["server"] = "SYN_RECEIVED"]
                      /\ rcvNxt' = [rcvNxt EXCEPT !["server"] = p.seq + 1]
                      /\ sndNxt' = [sndNxt EXCEPT !["server"] = InitialSeq["server"] + 1]
                      /\ Transmit("server", mgr["server"], {synAck}, wire \ {w}, timers, w.due)
                 ELSE /\ UNCHANGED <<state, rcvNxt, sndNxt>>
                      /\ Transmit("server", mgr["server"], {}, wire \ {w}, timers, w.due)
    BY Triggered DEF DeliverSyn, Delivering
  <1>2. UNCHANGED <<started, segments>>
    BY DEF DeliverSyn, sending
  <1>3. /\ w.pkt.seq = InitialSeq["client"] /\ w.pkt.src = "client" /\ w.pkt.len = 0
        /\ w.pkt.kind = "SYN" /\ started
    BY <1>1, TileTypes DEF TilingInv, PacketOK
  <1>4. SegmentEndSeq(w.pkt) = InitialSeq["client"] + 1
    BY <1>3, <1>type DEF SegmentEndSeq
  <1>5. Clear(mgr["client"].inFlight, InitialSeq["client"] + 1)
    BY <1>3, <1>4, PieceEnd DEF NeedsAckTracking
  <1>6. /\ mgr["server"].lastAck # NoAck => mgr["server"].lastAck > InitialSeq["server"]
        /\ wire \ {w} \in SUBSET wire /\ Abut(segments')
        /\ mgr["server"].inFlight \subseteq mgr["server"].inFlight
        /\ Clear(mgr["client"].inFlight, rcvNxt["server"])
    BY <1>2, <1>inv, <1>type DEF Tiles
  <1> DEFINE m == mgr["server"]
  <1>7. CASE state["server"] = "LISTEN"
    <2> DEFINE synAck == NewPacket(txCount, "SYN_ACK", InitialSeq["server"],
                                   InitialSeq["client"] + 1, 0, "server")
    <2>1. /\ Transmit("server", m, {synAck}, wire \ {w}, timers, w.due)
          /\ sndNxt' = [sndNxt EXCEPT !["server"] = InitialSeq["server"] + 1]
          /\ rcvNxt' = [rcvNxt EXCEPT !["server"] = InitialSeq["client"] + 1]
          /\ state' = [state EXCEPT !["server"] = "SYN_RECEIVED"]
      BY <1>1, <1>3, <1>7
    <2>2. ~Opened("server") /\ sndNxt["server"] = 0
      BY <1>7, <1>inv DEF Opened, Numbers
    <2>3. m.inFlight = {} /\ m.lastAck = NoAck
      BY <1>type, <2>2, Unsent
    <2>4. {synAck} \in SUBSET Packet /\ IsFiniteSet({synAck}) /\ Cardinality({synAck}) = 1
      <3>1. {synAck} \in SUBSET Packet
        BY <1>type DEF NewPacket, Packet, Kinds
      <3> HIDE DEF synAck
      <3> QED
        BY <3>1, FS_Singleton
    <2>5. /\ synAck.src = "server" /\ synAck.ack = InitialSeq["client"] + 1
          /\ synAck.kind = "SYN_ACK" /\ synAck.len = 0
          /\ synAck.seq = InitialSeq["server"] /\ synAck.id = txCount
      BY DEF NewPacket
    <2> HIDE DEF synAck
    <2>6. {p \in {synAck} : NeedsAckTracking(p)} = {synAck}
      BY <2>5 DEF NeedsAckTracking
    <2>7. Tiled(m.inFlight \cup Track({synAck}, w.due), InitialSeq["server"],
                InitialSeq["server"] + 1, txCount + 1)
      <3> DEFINE a == InitialSeq["server"]
                 t == w.due
                 E == m.inFlight
      <3>1. /\ a \in Int /\ a <= a /\ txCount + 1 \in Nat /\ txCount <= txCount
            /\ txCount < txCount + 1 /\ synAck.seq = a /\ E \in SUBSET Entry
        BY <1>type, <2>5
      <3>2. Tiled(E, a, a, txCount)
        BY <2>3, <3>1, NoPieces
      <3> HIDE DEF a, t, E
      <3>3. Tiled(E \cup Track({synAck}, t), a, a + 1, txCount + 1)
        BY <1>type, <2>4, <2>5, <3>1, <3>2, OnePiece
      <3> QED
        BY <3>3 DEF a, t, E
    <2>8. Tiled(m.inFlight \cup Track({p \in {synAck} : NeedsAckTracking(p)}, w.due),
                IF m.lastAck = NoAck THEN InitialSeq["server"] ELSE m.lastAck,
                sndNxt'["server"], txCount + Cardinality({synAck}))
      BY <1>type, <2>1, <2>3, <2>4, <2>6, <2>7
    <2>9. /\ synAck.src = "server" /\ AckFits(synAck) /\ sndNxt["server"] <= synAck.seq
          /\ Clear(mgr["client"].inFlight, rcvNxt'["server"])
      BY <1>5, <1>type, <2>1, <2>2, <2>5 DEF AckFits
    <2>10. \A q \in Roles : Opened(q)' => rcvNxt'[q] > InitialSeq[Peer(q)]
      <3>1. Opened("client")' => Opened("client")
        BY <1>2, <1>type, <2>1 DEF Opened
      <3>2. rcvNxt'["server"] > InitialSeq["client"]
        BY <1>type, <2>1
      <3> QED
        BY <1>type, <3>1, <3>2, OpenedKept
    <2>11. sndNxt'["client"] = sndNxt["client"] /\ rcvNxt'["client"] = rcvNxt["client"]
      BY <1>type, <2>1
    <2> DEFINE out == {synAck}
               t == w.due
               onWire == wire \ {w}
    <2>12. /\ out \in SUBSET Packet /\ IsFiniteSet(out)
           /\ m.inFlight \subseteq mgr["server"].inFlight
           /\ Transmit("server", m, out, onWire, timers, t) /\ onWire \in SUBSET wire
           /\ Tiled(m.inFlight \cup Track({p \in out : NeedsAckTracking(p)}, t),
                    IF m.lastAck = NoAck THEN InitialSeq["server"] ELSE m.lastAck,
                    sndNxt'["server"], txCount + Cardinality(out))
           /\ \A p \in out : p.src = "server" /\ AckFits(p) /\ sndNxt["server"] <= p.seq
           /\ m \in Manager /\ (m.lastAck # NoAck => m.lastAck > InitialSeq["server"])
      BY <1>6, <1>type, <2>1, <2>4, <2>8, <2>9
    <2> HIDE DEF out, m, t, onWire
    <2> QED
      BY <1>6, <1>type, <2>9, <2>10, <2>11, <2>12, TransmitTiles
  <1>8. CASE state["server"] # "LISTEN"
    <2> DEFINE out == {}
               t == w.due
               onWire == wire \ {w}
    <2>1. UNCHANGED <<state, rcvNxt, sndNxt>> /\ Transmit("server", m, out, onWire, timers, t)
      BY <1>1, <1>8
    <2>2. /\ out \in SUBSET Packet /\ IsFiniteSet(out) /\ Cardinality(out) \in Nat
          /\ {p \in out : NeedsAckTracking(p)} = {} /\ (\A p \in out : FALSE)
      BY FS_EmptySet
    <2> HIDE DEF out, t
    <2>3. Tiled(m.inFlight \cup Track({p \in out : NeedsAckTracking(p)}, t),
                IF m.lastAck = NoAck THEN InitialSeq["server"] ELSE m.lastAck,
                sndNxt'["server"], txCount + Cardinality(out))
      BY <1>type, <2>1, <2>2, NothingTracked
    <2>4. \A q \in Roles : Opened(q)' => rcvNxt'[q] > InitialSeq[Peer(q)]
      <3>1. \A q \in Roles : Opened(q)' => Opened(q)
        BY <1>2, <2>1 DEF Opened
      <3> QED
        BY <3>1, OpenedKept
    <2>5. /\ m \in Manager /\ (m.lastAck # NoAck => m.lastAck > InitialSeq["server"])
          /\ m.inFlight \subseteq mgr["server"].inFlight /\ onWire \in SUBSET wire
      BY <1>6, <1>type
    <2> HIDE DEF m, onWire
    <2> QED
      BY <1>6, <1>type, <2>1, <2>2, <2>3, <2>4, <2>5, TransmitTiles
  <1> QED
    BY <1>7, <1>8

\* ACK bookkeeping at r, and what it sends together with ACKs of its own.
LEMMA AckSent ==
  ASSUME TilingInv, ConnInv', NEW r \in Roles, NEW p \in Packet, Peer(p.src) = r,
         p.ack # NoAck, PacketOK(p), AckFits(p), AckBookkeeping(r, p),
         NEW more \in SUBSET Packet, IsFiniteSet(more),
         \A q \in more : q.src = r /\ q.kind = "ACK" /\ AckFits(q),
         NEW onWire \in SUBSET wire, NEW armed, NEW t,
         Transmit(r, AckedManager(r, p), AckedOutput(r, p) \cup more, onWire, armed, t),
         rcvNxt'[Peer(r)] = rcvNxt[Peer(r)], Clear(mgr[Peer(r)].inFlight, rcvNxt'[r]),
         \A q \in Roles : Opened(q)' => rcvNxt'[q] > InitialSeq[Peer(q)],
         Abut(segments')
  PROVE  TilingInv'
  <1> DEFINE m == AckedManager(r, p)
             sent == AckedOutput(r, p)
             out == sent \cup more
             n == txCount + Cardinality(sent)
             k == txCount + Cardinality(out)
             lo == m.lastAck
             hi == sndNxt'[r]
             F == m.inFlight \cup Track(sent, t)
  <1>type. /\ TypeInv /\ mgr[r] \in Manager /\ txCount \in Nat
           /\ sndNxt \in [Roles -> Nat] /\ Peer(r) \in Roles /\ Peer(r) # r
           /\ \A e \in mgr[r].inFlight : e.pkt.src = r /\ e.pkt \in Packet
    BY TileTypes DEF TilingInv
  <1>1. /\ lo # NoAck /\ lo > InitialSeq[r]
        /\ Tiled(F, lo, hi, n)
        /\ \A q \in sent : /\ q.src = r /\ AckFits(q) /\ NeedsAckTracking(q)
                           /\ sndNxt[r] <= q.seq \/ \E e \in mgr[r].inFlight : Same(q, e.pkt)
    BY AckTiles
  <1>2. sent \in SUBSET Packet /\ IsFiniteSet(sent)
    BY <1>type, AckStepProperties
  <1>3. m.inFlight \subseteq mgr[r].inFlight
    BY <1>type, AckStepSource
  <1>4. m \in Manager
    BY <1>type, AckStepProperties DEF SendTypes
  <1>5. sndNxt'[Peer(r)] = sndNxt[Peer(r)]
    BY <1>type DEF AckBookkeeping
  <1>6. /\ \A q \in more : ~NeedsAckTracking(q)
        /\ \A q \in sent : NeedsAckTracking(q)
    BY <1>1 DEF NeedsAckTracking
  <1>10. \A e \in F : e.pkt.id \in Nat
    BY <1>2, <1>3, <1>type, ExtentType, Tracked
  <1>13. Transmit(r, m, out, onWire, armed, t)
    OBVIOUS
  <1> HIDE DEF sent, m
  <1>7. {q \in out : NeedsAckTracking(q)} = sent
    BY <1>6
  <1>8. out \in SUBSET Packet /\ IsFiniteSet(out) /\ sent \subseteq out
    BY <1>2, FS_Union
  <1>9. n \in Nat /\ k \in Nat /\ n <= k
    <2>1. /\ Cardinality(sent) <= Cardinality(out)
          /\ Cardinality(sent) \in Nat /\ Cardinality(out) \in Nat
      BY <1>2, <1>8, FS_Subset, FS_CardinalityType
    <2> QED
      BY <1>type, <2>1
  <1>11. Tiled(F, lo, hi, k)
    <2> HIDE DEF F, lo, hi, n, k
    <2> QED
      BY <1>1, <1>9, <1>10, TiledBelow
  <1>12. /\ Tiled(m.inFlight \cup Track({q \in out : NeedsAckTracking(q)}, t),
                  IF m.lastAck = NoAck THEN InitialSeq[r] ELSE m.lastAck,
                  sndNxt'[r], txCount + Cardinality(out))
         /\ m.lastAck # NoAck => m.lastAck > InitialSeq[r]
    BY <1>1, <1>7, <1>11
  <1>14. /\ \A q \in out : q.src = r /\ AckFits(q)
         /\ \A q \in out : NeedsAckTracking(q) =>
              sndNxt[r] <= q.seq \/ \E e \in mgr[r].inFlight : Same(q, e.pkt)
    BY <1>1, <1>6
  <1> HIDE DEF out
  <1> QED
    BY <1>3, <1>4, <1>5, <1>8, <1>12, <1>13, <1>14, TransmitTiles

LEMMA DeliverAckTiles ==
  ASSUME TilingInv, ConnInv', Forward, DeliverAck
  PROVE  TilingInv'
  <1>type. /\ "client" \in Roles /\ "server" \in Roles
           /\ Peer("server") = "client" /\ Peer("client") = "server"
           /\ (\A r \in Roles : (r = "client" \/ r = "server") /\ Peer(r) \in Roles)
           /\ state \in [Roles -> States]
    BY TileTypes DEF TilingInv
  <1>1. PICK w \in wire :
          LET p == w.pkt
              r == Peer(p.src)
          IN  /\ p.kind = "ACK"
              /\ AckBookkeeping(r, p)
              /\ state' = IF CanApply(state[r], "RECV_ACK")
                          THEN [state EXCEPT ![r] = Apply(@, "RECV_ACK")] ELSE state
              /\ Transmit(r, AckedManager(r, p), AckedOutput(r, p), wire \ {w},
                          timers \cup (IF state[r] = "CLOSING"
                                       THEN {TimeWaitEvent(r, w.due + tcpConfig.timeWait)} ELSE {}),
                          w.due)
    BY DEF DeliverAck, Delivering
  <1> DEFINE p == w.pkt
             r == Peer(p.src)
             armed == timers \cup (IF state[r] = "CLOSING"
                                   THEN {TimeWaitEvent(r, w.due + tcpConfig.timeWait)} ELSE {})
             more == {}
             t == w.due
             onWire == wire \ {w}
  <1>2. UNCHANGED <<started, rcvNxt, segments>>
    BY DEF DeliverAck
  <1>3. /\ p \in Packet /\ r \in Roles /\ PacketOK(p) /\ AckFits(p) /\ p.kind = "ACK"
        /\ AckBookkeeping(r, p)
    BY <1>1, <1>type, TileTypes DEF TilingInv, Tiles
  <1>4. p.ack # NoAck
    BY <1>3 DEF PacketOK
  <1>5. Transmit(r, AckedManager(r, p), AckedOutput(r, p) \cup more, onWire, armed, t)
    <2>1. AckedOutput(r, p) \cup more = AckedOutput(r, p)
      OBVIOUS
    <2>2. Transmit(r, AckedManager(r, p), AckedOutput(r, p), onWire, armed, t)
      BY <1>1
    <2> HIDE DEF more, onWire, armed, t, r, p
    <2> QED
      BY <2>1, <2>2
  <1>6. \A q \in Roles : Opened(q)' => Opened(q)
    <2>1. state' = IF CanApply(state[r], "RECV_ACK")
                   THEN [state EXCEPT ![r] = Apply(@, "RECV_ACK")] ELSE state
      BY <1>1
    <2>2. CASE ~CanApply(state[r], "RECV_ACK")
      BY <1>2, <2>1, <2>2 DEF Opened
    <2>3. CASE CanApply(state[r], "RECV_ACK")
      <3>1. state[r] # "SYN_SENT" /\ state[r] # "LISTEN"
        BY <2>3, Triggered
      <3>2. \A q \in Roles : q = r \/ state'[q] = state[q]
        BY <1>type, <2>1, <2>3
      <3> HIDE DEF r
      <3> QED
        BY <1>2, <3>1, <3>2 DEF Opened
    <2> QED
      BY <2>1, <2>2, <2>3
  <1>7. \A q \in Roles : Opened(q)' => rcvNxt'[q] > InitialSeq[Peer(q)]
    BY <1>6, OpenedKept
  <1>8. /\ rcvNxt'[Peer(r)] = rcvNxt[Peer(r)] /\ Abut(segments')
        /\ Clear(mgr[Peer(r)].inFlight, rcvNxt'[r])
    <2>1. /\ \A q \in Roles : Clear(mgr[q].inFlight, rcvNxt[Peer(q)])
          /\ Peer(Peer(r)) = r /\ Peer(r) \in Roles /\ Abut(segments)
      BY <1>3, <1>type DEF TilingInv, Tiles
    <2> QED
      BY <1>2, <2>1
  <1>9. more \in SUBSET Packet /\ IsFiniteSet(more) /\ (\A q \in more : FALSE)
        /\ onWire \in SUBSET wire
    BY FS_EmptySet
  <1>10. Peer(p.src) = r
    OBVIOUS
  <1> HIDE DEF more, onWire, armed, t, r, p
  <1> QED
    BY <1>3, <1>4, <1>5, <1>7, <1>8, <1>9, <1>10, AckSent

LEMMA DeliverSynAckTiles ==
  ASSUME TilingInv, ConnInv', Forward, DeliverSynAck
  PROVE  TilingInv'
  <1>type. /\ "client" \in Roles /\ "server" \in Roles
           /\ Peer("server") = "client" /\ Peer("client") = "server"
           /\ (\A r \in Roles : r = "client" \/ r = "server")
           /\ state \in [Roles -> States] /\ rcvNxt \in [Roles -> Nat]
           /\ InitialSeq["client"] \in Nat /\ InitialSeq["server"] \in Nat
           /\ txCount \in Nat /\ TypeInv
    BY TileTypes DEF TilingInv
  <1>inv. Tiles /\ Numbers /\ StatePairs /\ state["client"] \in ClientStates
    BY DEF TilingInv, ConnInv
  <1>1. PICK w \in wire :
          LET p == w.pkt
              opening == state["client"] = "SYN_SENT"
              next == IF opening THEN p.seq + 1 ELSE rcvNxt["client"]
              reply == NewPacket(txCount + Cardinality(AckedOutput("client", p)), "ACK",
                                 sndNxt'["client"], next, 0, "client")
          IN  /\ p.kind = "SYN_ACK"
              /\ AckBookkeeping("client", p)
              /\ state' = IF opening THEN [state EXCEPT !["client"] = "ESTABLISHED"] ELSE state
              /\ rcvNxt' = [rcvNxt EXCEPT !["client"] = next]
              /\ Transmit("client", AckedManager("client", p),
                          AckedOutput("client", p) \cup
                            (IF opening \/ state["client"] = "ESTABLISHED" THEN {reply} ELSE {}),
                          wire \ {w}, timers, w.due)
    BY Triggered DEF DeliverSynAck, Delivering
  <1> DEFINE p == w.pkt
             opening == state["client"] = "SYN_SENT"
             next == IF opening THEN InitialSeq["server"] + 1 ELSE rcvNxt["client"]
             reply == NewPacket(txCount + Cardinality(AckedOutput("client", p)), "ACK",
                                sndNxt'["client"], next, 0, "client")
             more == IF opening \/ state["client"] = "ESTABLISHED" THEN {reply} ELSE {}
             t == w.due
             onWire == wire \ {w}
  <1>2. UNCHANGED <<started, segments>>
    BY DEF DeliverSynAck
  <1>3. /\ p \in Packet /\ PacketOK(p) /\ AckFits(p) /\ p.kind = "SYN_ACK"
        /\ AckBookkeeping("client", p)
    BY <1>1, <1>type, TileTypes DEF TilingInv, Tiles
  <1>4. /\ p.seq = InitialSeq["server"] /\ p.ack = InitialSeq["client"] + 1 /\ p.len = 0
        /\ p.src = "server" /\ started /\ p.ack # NoAck
    BY <1>3, <1>type DEF PacketOK, NoAck
  <1>5. Clear(mgr["server"].inFlight, InitialSeq["server"] + 1)
    <2>1. SegmentEndSeq(p) = InitialSeq["server"] + 1
      BY <1>3, <1>4, <1>type DEF SegmentEndSeq
    <2> QED
      BY <1>3, <1>4, <2>1, PieceEnd DEF NeedsAckTracking
  <1>6. /\ state' = IF opening THEN [state EXCEPT !["client"] = "ESTABLISHED"] ELSE state
        /\ rcvNxt' = [rcvNxt EXCEPT !["client"] = next]
        /\ Transmit("client", AckedManager("client", p), AckedOutput("client", p) \cup more,
                    onWire, timers, t)
    BY <1>1, <1>4
  <1>7. next \in Nat /\ Clear(mgr["server"].inFlight, next)
        /\ (opening \/ Opened("client") => next > InitialSeq["server"])
    <2>1. Clear(mgr["server"].inFlight, rcvNxt["client"]) /\ rcvNxt["client"] \in Nat
      BY <1>inv, <1>type DEF Tiles
    <2>2. Opened("client") => rcvNxt["client"] > InitialSeq["server"]
      BY <1>inv, <1>type DEF Tiles
    <2> QED
      BY <1>5, <1>type, <2>1, <2>2
  <1>8. reply \in Packet /\ reply.kind = "ACK" /\ reply.src = "client" /\ reply.ack = next
    <2>1. Cardinality(AckedOutput("client", p)) \in Nat
      BY <1>3, <1>type, AckStepProperties, FS_CardinalityType
    <2>2. sndNxt'["client"] \in Nat
      BY <1>type DEF ConnInv, TimerInv, TypeInv, TypeOK
    <2> HIDE DEF next, p
    <2> QED
      BY <1>7, <1>type, <2>1, <2>2 DEF NewPacket, Packet, Kinds
  <1>9. opening \/ state["client"] = "ESTABLISHED" => AckFits(reply)
    <2>1. opening \/ state["client"] = "ESTABLISHED" => next > InitialSeq["server"]
      BY <1>4, <1>7 DEF Opened
    <2> HIDE DEF next, reply, opening
    <2> QED
      BY <1>7, <1>8, <1>type, <2>1 DEF AckFits
  <1>10. /\ more \in SUBSET Packet /\ IsFiniteSet(more)
         /\ \A q \in more : q.src = "client" /\ q.kind = "ACK" /\ AckFits(q)
    <2> HIDE DEF reply, opening
    <2> QED
      BY <1>8, <1>9, FS_EmptySet, FS_Singleton
  <1>11. \A q \in Roles : Opened(q)' => rcvNxt'[q] > InitialSeq[Peer(q)]
    <2>1. Opened("server")' => Opened("server")
      BY <1>2, <1>6, <1>type DEF Opened
    <2>2. CASE opening
      <3>1. rcvNxt'["client"] = next /\ next > InitialSeq["server"]
        BY <1>6, <1>7, <1>type, <2>2
      <3> HIDE DEF next, opening
      <3> QED
        BY <1>type, <2>1, <3>1, OpenedKept
    <2>3. CASE ~opening
      <3>1. \A q \in Roles : Opened(q)' => Opened(q)
        BY <1>2, <1>6, <2>3 DEF Opened
      <3> QED
        BY <3>1, OpenedKept
    <2> QED
      BY <2>2, <2>3
  <1>12. /\ rcvNxt'[Peer("client")] = rcvNxt[Peer("client")] /\ Abut(segments')
         /\ Clear(mgr[Peer("client")].inFlight, rcvNxt'["client"])
         /\ onWire \in SUBSET wire /\ Peer(p.src) = "client"
    <2>1. Abut(segments)
      BY <1>inv DEF Tiles
    <2> HIDE DEF next
    <2> QED
      BY <1>2, <1>4, <1>6, <1>7, <1>type, <2>1
  <1> HIDE DEF more, onWire, t, p
  <1> QED
    BY <1>3, <1>4, <1>6, <1>10, <1>11, <1>12, <1>type, AckSent

LEMMA DeliverFinTiles ==
  ASSUME TilingInv, ConnInv', Forward, DeliverFin
  PROVE  TilingInv'
  <1>inv. Tiles /\ Numbers /\ ConnInv
    BY DEF TilingInv, ConnInv
  <1>1. PICK w \in wire :
          LET p == w.pkt
              r == Peer(p.src)
              fin == NewPacket(txCount + 1, "FIN", sndNxt[r], NoAck, 0, r)
          IN  /\ p.kind = "FIN"
              /\ rcvNxt' = [rcvNxt EXCEPT ![r] = p.seq + 1]
              /\ \A q \in Roles : q = r \/ state'[q] = state[q]
              /\ sndNxt' = IF state[r] = "ESTABLISHED"
                           THEN [sndNxt EXCEPT ![r] = @ + 1] ELSE sndNxt
              /\ Transmit(r, mgr[r],
                          {PureAck(r, p.seq + 1)}
                            \cup (IF state[r] = "ESTABLISHED" THEN {fin} ELSE {}),
                          wire \ {w},
                          timers \cup (IF state[r] = "FIN_WAIT_2"
                                       THEN {TimeWaitEvent(r, w.due + tcpConfig.timeWait)} ELSE {}),
                          w.due)
    <2>1. state \in [Roles -> States]
      BY TileTypes DEF TilingInv
    <2> QED
      BY <2>1 DEF DeliverFin, Delivering
  <1> DEFINE p == w.pkt
             r == Peer(p.src)
             a == p.seq + 1
             ack == PureAck(r, a)
             fin == NewPacket(txCount + 1, "FIN", sndNxt[r], NoAck, 0, r)
             more == IF state[r] = "ESTABLISHED" THEN {fin} ELSE {}
             armed == timers \cup (IF state[r] = "FIN_WAIT_2"
                                   THEN {TimeWaitEvent(r, w.due + tcpConfig.timeWait)} ELSE {})
             t == w.due
             onWire == wire \ {w}
             m == mgr[r]
             out == {ack} \cup more
  <1>2. UNCHANGED <<started, segments>>
    BY DEF DeliverFin, sending
  <1>3. p \in Packet /\ PacketOK(p) /\ p.kind = "FIN" /\ p.src \in Roles
    BY <1>1, TileTypes DEF TilingInv
  <1>4. /\ started /\ Finished(p.src) /\ a = sndNxt[p.src] /\ p.len = 0 /\ a \in Nat
    BY <1>3 DEF PacketOK, Packet
  <1>type. /\ r \in Roles /\ Peer(r) = p.src /\ p.src # r
           /\ (\A q \in Roles : q = r \/ q = p.src)
           /\ mgr \in [Roles -> Manager] /\ sndNxt \in [Roles -> Nat]
           /\ rcvNxt \in [Roles -> Nat] /\ txCount \in Nat
           /\ m \in Manager /\ m.inFlight \in SUBSET Entry /\ Unacked(r) \in Int
           /\ \A q \in Roles : InitialSeq[q] \in Nat
           /\ "client" \in Roles /\ "server" \in Roles
           /\ (\A q \in Roles : q = "client" \/ q = "server")
           /\ rcvNxt'[r] \in Nat
    <2>1. rcvNxt'[r] = a
      BY <1>1, <1>3, TileTypes DEF TilingInv
    <2> QED
      BY <1>3, <1>4, <2>1, TileTypes DEF TilingInv
  <1>5. /\ Clear(mgr[p.src].inFlight, a) /\ a > InitialSeq[p.src]
    <2>1. SegmentEndSeq(p) = a
      BY <1>3, <1>4 DEF SegmentEndSeq, Packet
    <2>2. Clear(mgr[p.src].inFlight, a)
      BY <1>3, <2>1, PieceEnd DEF NeedsAckTracking
    <2>3. Finished("server") => Opened("server")
      BY DEF Finished, Opened
    <2>4. sndNxt[p.src] > InitialSeq[p.src]
      <3> HIDE DEF p
      <3> QED
        BY <1>4, <1>inv, <1>type, <2>3 DEF Numbers
    <2> QED
      BY <1>4, <2>2, <2>4
  <1>6. /\ rcvNxt'[r] = a /\ rcvNxt'[p.src] = rcvNxt[p.src] /\ sndNxt'[p.src] = sndNxt[p.src]
        /\ \A q \in Roles : q = r \/ state'[q] = state[q]
        /\ sndNxt'[r] = IF state[r] = "ESTABLISHED" THEN sndNxt[r] + 1 ELSE sndNxt[r]
        /\ Transmit(r, m, out, onWire, armed, t)
    BY <1>1, <1>type
  <1>7. /\ ack \in Packet /\ ack.src = r /\ ack.kind = "ACK" /\ ack.ack = a
        /\ fin \in Packet /\ fin.src = r /\ fin.kind = "FIN" /\ fin.ack = NoAck
        /\ fin.seq = sndNxt[r] /\ fin.len = 0 /\ fin.id = txCount + 1
    <2> HIDE DEF r, a
    <2> QED
      BY <1>4, <1>type DEF PureAck, NewPacket, Packet, Kinds
  <1> HIDE DEF ack, fin
  <1>8. ack # fin /\ AckFits(ack) /\ AckFits(fin) /\ ~NeedsAckTracking(ack) /\ NeedsAckTracking(fin)
    BY <1>5, <1>7, <1>type DEF AckFits, NeedsAckTracking
  <1>9. Tiled(m.inFlight \cup Track({q \in out : NeedsAckTracking(q)}, t),
              IF m.lastAck = NoAck THEN InitialSeq[r] ELSE m.lastAck,
              sndNxt'[r], txCount + Cardinality(out))
        /\ IsFiniteSet(out)
    <2>1. CASE state[r] = "ESTABLISHED"
      <3>1. out = {ack, fin} /\ {q \in out : NeedsAckTracking(q)} = {fin}
        BY <1>8, <2>1
      <3>2. IsFiniteSet({ack, fin}) /\ Cardinality({ack, fin}) = 2
        <4>1. IsFiniteSet({ack}) /\ Cardinality({ack}) = 1 /\ fin \notin {ack}
          BY <1>8, FS_Singleton
        <4>2. {ack} \cup {fin} = {ack, fin}
          OBVIOUS
        <4> QED
          BY <4>1, <4>2, FS_AddElement
      <3>3. sndNxt[r] > InitialSeq[r]
        <4>1. started /\ (r = "server" => Opened(r))
          BY <1>4, <2>1 DEF Opened
        <4> HIDE DEF r
        <4> QED
          BY <1>inv, <1>type, <4>1 DEF Numbers
      <3>4. Unacked(r) <= sndNxt[r]
        BY <1>type, <3>3, UnackedBelow
      <3>5. Tiled(m.inFlight, Unacked(r), sndNxt[r], txCount)
        BY <1>inv, <1>type DEF Tiles
      <3> DEFINE E == m.inFlight
                 lo == Unacked(r)
                 hi == sndNxt[r]
      <3>6. /\ E \in SUBSET Entry /\ lo \in Int /\ hi \in Int /\ lo <= hi
            /\ txCount + 2 \in Nat /\ txCount <= fin.id /\ fin.id < txCount + 2
            /\ fin.seq = hi /\ Tiled(E, lo, hi, txCount)
        BY <1>7, <1>type, <3>4, <3>5
      <3> HIDE DEF E, lo, hi, t
      <3>7. Tiled(E \cup Track({fin}, t), lo, hi + 1, txCount + 2)
        BY <1>7, <1>type, <3>6, OnePiece
      <3>8. sndNxt'[r] = hi + 1 /\ lo = (IF m.lastAck = NoAck THEN InitialSeq[r] ELSE m.lastAck)
        BY <1>6, <2>1 DEF hi, lo, Unacked
      <3> HIDE DEF out, m, r
      <3> QED
        BY <3>1, <3>2, <3>7, <3>8 DEF E
    <2>2. CASE state[r] # "ESTABLISHED"
      <3>1. out = {ack} /\ {q \in out : NeedsAckTracking(q)} = {}
        BY <1>8, <2>2
      <3>2. IsFiniteSet({ack}) /\ Cardinality({ack}) = 1
        BY FS_Singleton
      <3>3. IsFiniteSet(out) /\ Cardinality(out) \in Nat /\ sndNxt'[r] = sndNxt[r]
        <4> HIDE DEF out, r
        <4> QED
          BY <1>6, <2>2, <3>1, <3>2
      <3> HIDE DEF out, t, r
      <3> QED
        BY <1>type, <3>1, <3>3, NothingTracked
    <2> QED
      BY <2>1, <2>2
  <1>10. /\ out \in SUBSET Packet
         /\ \A q \in out : q.src = r /\ AckFits(q)
         /\ \A q \in out : NeedsAckTracking(q) => sndNxt[r] <= q.seq
    <2>1. out \subseteq {ack, fin}
      OBVIOUS
    <2>2. sndNxt[r] <= fin.seq
      BY <1>7, <1>type
    <2> HIDE DEF out, r
    <2> QED
      BY <1>7, <1>8, <2>1, <2>2
  <1>11. \A q \in Roles : Opened(q)' => rcvNxt'[q] > InitialSeq[Peer(q)]
    <2>1. Opened(p.src)' => Opened(p.src)
      BY <1>2, <1>3, <1>6, <1>type DEF Opened
    <2>2. Opened(p.src) => rcvNxt'[p.src] > InitialSeq[Peer(p.src)]
      BY <1>3, OpenedKept
    <2>3. rcvNxt'[r] > InitialSeq[Peer(r)]
      BY <1>5, <1>6, <1>type
    <2> HIDE DEF p, r
    <2> QED
      BY <1>type, <2>1, <2>2, <2>3
  <1>12. /\ Clear(mgr[Peer(r)].inFlight, rcvNxt'[r]) /\ Abut(segments')
         /\ sndNxt'[Peer(r)] = sndNxt[Peer(r)] /\ rcvNxt'[Peer(r)] = rcvNxt[Peer(r)]
         /\ m.inFlight \subseteq mgr[r].inFlight /\ onWire \in SUBSET wire
         /\ (m.lastAck # NoAck => m.lastAck > InitialSeq[r])
    BY <1>2, <1>5, <1>6, <1>inv, <1>type DEF Tiles
  <1> HIDE DEF p, r, m, out, armed, onWire, t
  <1> QED
    BY <1>6, <1>9, <1>10, <1>11, <1>12, <1>type, TransmitTiles

LEMMA DeliverDataTiles ==
  ASSUME TilingInv, ConnInv', Forward, DeliverData
  PROVE  TilingInv'
  <1>inv. Tiles /\ Numbers /\ StatePairs /\ ConnInv
    BY DEF TilingInv, ConnInv
  <1>type. /\ "client" \in Roles /\ "server" \in Roles
           /\ Peer("server") = "client" /\ Peer("client") = "server"
           /\ (\A q \in Roles : q = "client" \/ q = "server")
           /\ mgr["server"] \in Manager /\ sndNxt \in [Roles -> Nat]
           /\ rcvNxt \in [Roles -> Nat] /\ txCount \in Nat
           /\ InitialSeq["client"] \in Nat
    BY TileTypes DEF TilingInv
  <1>1. PICK w \in wire :
          LET p == w.pkt
              r == Peer(p.src)
              next == IF InOrder(r, p) THEN rcvNxt[r] + p.len ELSE rcvNxt[r]
          IN  /\ p.kind = "DATA"
              /\ rcvNxt' = [rcvNxt EXCEPT ![r] = next]
              /\ Transmit(r, mgr[r], {PureAck(r, next)}, wire \ {w}, timers, w.due)
    BY DEF DeliverData, Delivering
  <1> DEFINE p == w.pkt
             next == IF InOrder("server", p) THEN rcvNxt["server"] + p.len ELSE rcvNxt["server"]
             ack == PureAck("server", next)
             m == mgr["server"]
             out == {ack}
             t == w.due
             onWire == wire \ {w}
  <1>2. UNCHANGED <<started, state, sndNxt, segments>>
    BY DEF DeliverData, sending
  <1>3. p \in Packet /\ PacketOK(p) /\ p.kind = "DATA"
    BY <1>1, TileTypes DEF TilingInv
  <1>4. /\ p.src = "client" /\ started /\ Opened("client")
        /\ p.seq \in Nat /\ p.len \in Nat
    BY <1>3 DEF PacketOK, Packet
  <1>5. /\ rcvNxt' = [rcvNxt EXCEPT !["server"] = next]
        /\ Transmit("server", m, out, onWire, timers, t)
    BY <1>1, <1>4, <1>type
  <1>6. Opened("server")
    BY <1>4, <1>inv DEF StatePairs, Opened, ConnInv, ClientStates
  <1>7. next \in Nat /\ Clear(mgr["client"].inFlight, next) /\ next > InitialSeq["client"]
    <2>1. /\ Clear(mgr["client"].inFlight, rcvNxt["server"])
          /\ rcvNxt["server"] > InitialSeq["client"] /\ rcvNxt["server"] \in Nat
      BY <1>6, <1>inv, <1>type DEF Tiles
    <2>2. CASE InOrder("server", p)
      <3>1. SegmentEndSeq(p) = next
        BY <1>3, <1>4, <2>2 DEF SegmentEndSeq, InOrder
      <3>2. Clear(mgr["client"].inFlight, next)
        BY <1>3, <1>4, <3>1, PieceEnd DEF NeedsAckTracking
      <3> QED
        BY <1>4, <1>type, <2>1, <2>2, <3>2
    <2>3. CASE ~InOrder("server", p)
      BY <2>1, <2>3
    <2> QED
      BY <2>2, <2>3
  <1> HIDE DEF next
  <1>8. ack \in Packet /\ ack.src = "server" /\ ack.kind = "ACK" /\ ack.ack = next
    BY <1>7, <1>type DEF PureAck, NewPacket, Packet, Kinds
  <1> HIDE DEF ack
  <1>9. AckFits(ack) /\ ~NeedsAckTracking(ack)
    BY <1>7, <1>8, <1>type DEF AckFits, NeedsAckTracking
  <1>10. /\ out \in SUBSET Packet /\ IsFiniteSet(out) /\ Cardinality(out) \in Nat
         /\ {q \in out : NeedsAckTracking(q)} = {}
         /\ \A q \in out : q.src = "server" /\ AckFits(q) /\ ~NeedsAckTracking(q)
    <2>1. IsFiniteSet({ack}) /\ Cardinality({ack}) = 1
      BY FS_Singleton
    <2> QED
      BY <1>8, <1>9, <2>1
  <1>11. \A q \in Roles : Opened(q)' => rcvNxt'[q] > InitialSeq[Peer(q)]
    <2>1. \A q \in Roles : Opened(q)' => Opened(q)
      BY <1>2 DEF Opened
    <2> QED
      BY <2>1, OpenedKept
  <1>12. /\ Clear(mgr[Peer("server")].inFlight, rcvNxt'["server"]) /\ Abut(segments')
         /\ sndNxt'[Peer("server")] = sndNxt[Peer("server")]
         /\ rcvNxt'[Peer("server")] = rcvNxt[Peer("server")]
         /\ m.inFlight \subseteq mgr["server"].inFlight /\ onWire \in SUBSET wire
         /\ (m.lastAck # NoAck => m.lastAck > InitialSeq["server"]) /\ m \in Manager
         /\ sndNxt'["server"] = sndNxt["server"]
    BY <1>2, <1>5, <1>7, <1>inv, <1>type DEF Tiles
  <1> HIDE DEF out, onWire, t
  <1>13. Tiled(m.inFlight \cup Track({q \in out : NeedsAckTracking(q)}, t),
               IF m.lastAck = NoAck THEN InitialSeq["server"] ELSE m.lastAck,
               sndNxt'["server"], txCount + Cardinality(out))
    BY <1>10, <1>12, <1>type, NothingTracked
  <1> HIDE DEF m
  <1> QED
    BY <1>5, <1>10, <1>11, <1>12, <1>13, <1>type, TransmitTiles

-----------------------------------------------------------------------------
(* The timers.                                                              *)

\* Nothing is given up: what a check does not resend stays as it was.
LEMMA KeptByTimeouts ==
  ASSUME NEW m \in Manager, NEW t \in Nat,
         \A e \in m.inFlight : e.pkt.src \in Roles /\ e.retries = 0
  PROVE  Cancel(CheckTimeouts(m, t), Ids(TimedOutPackets(m, t))).inFlight
           = {e \in m.inFlight : e.pkt.id \notin Ids(TimedOutPackets(m, t))}
  <1> DEFINE late == TimedOutPackets(m, t)
             checked == CheckTimeouts(m, t)
             fresh == {e \in m.inFlight : e \notin Expired(m, t)}
             bumped == {[e EXCEPT !.retries = @ + 1, !.deadline = t + ManagerConfig.rto] :
                          e \in {f \in Expired(m, t) : ~Exceeded(f)}}
  <1>1. \A e \in m.inFlight : ~Exceeded(e) /\ e \in Entry
    BY ManagerConfigAssumption DEF Exceeded, TcpConfigs, Manager
  <1>2. late = {e.pkt : e \in Expired(m, t)} /\ Expired(m, t) \subseteq m.inFlight
    BY <1>1 DEF TimedOutPackets, Expired
  <1>3. checked.inFlight = fresh \cup bumped /\ checked \in Manager
    BY CheckTimeoutsProperties DEF CheckTimeouts, Manager
  <1>4. \A e \in bumped : e.pkt.id \in Ids(late)
    <2> SUFFICES ASSUME NEW e \in Expired(m, t)
                 PROVE  [e EXCEPT !.retries = @ + 1, !.deadline = t + ManagerConfig.rto].pkt.id
                          \in Ids(late)
      OBVIOUS
    <2>1. [e EXCEPT !.retries = @ + 1, !.deadline = t + ManagerConfig.rto].pkt = e.pkt
      BY <1>1, <1>2 DEF Entry
    <2> QED
      BY <1>2, <2>1 DEF Ids
  <1>5. \A e \in Expired(m, t) : e.pkt.id \in Ids(late)
    BY <1>2 DEF Ids
  <1>6. Cancel(checked, Ids(late)).inFlight = {e \in checked.inFlight : e.pkt.id \notin Ids(late)}
    BY <1>3 DEF Cancel, Manager
  <1> HIDE DEF late, checked, bumped
  <1>7. {e \in checked.inFlight : e.pkt.id \notin Ids(late)}
          = {e \in m.inFlight : e.pkt.id \notin Ids(late)}
    BY <1>3, <1>4, <1>5
  <1> QED
    BY <1>6, <1>7 DEF late, checked

LEMMA RtoCheckTiles ==
  ASSUME TilingInv, ConnInv', Forward, RtoCheck
  PROVE  TilingInv'
  <1>inv. Tiles /\ ConnInv
    BY DEF TilingInv
  <1>1. PICK x \in timers :
          LET late == TimedOutPackets(mgr[x.role], x.due)
          IN  Transmit(x.role, Cancel(CheckTimeouts(mgr[x.role], x.due), Ids(late)),
                       Copies(late), wire, timers \ {x}, x.due)
    BY DEF RtoCheck, Firing
  <1> DEFINE r == x.role
             t == x.due
             late == TimedOutPackets(mgr[r], t)
             m == Cancel(CheckTimeouts(mgr[r], t), Ids(late))
             out == Copies(late)
             armed == timers \ {x}
             E == mgr[r].inFlight
  <1>2. UNCHANGED <<started, state, sndNxt, rcvNxt, segments>>
    BY DEF RtoCheck, endpoints, sending
  <1>3. r \in Roles /\ t \in Nat
    BY TimerType, TileTypes DEF TilingInv
  <1>type. /\ Peer(r) \in Roles /\ Peer(Peer(r)) = r /\ mgr[r] \in Manager /\ txCount \in Nat
           /\ E \in SUBSET Entry /\ IsFiniteSet(E) /\ Unacked(r) \in Int /\ sndNxt[r] \in Nat
           /\ \A e \in E : /\ e.pkt.src = r /\ e.pkt \in Packet /\ NeedsAckTracking(e.pkt)
                           /\ e.retries = 0
    BY <1>3, TileTypes DEF TilingInv, ConnInv, Packets
  <1>4. late \in SUBSET Packet /\ IsFiniteSet(late) /\ late \subseteq {e.pkt : e \in E}
    <2>1. late \subseteq {e.pkt : e \in E}
      BY DEF TimedOutPackets, Expired
    <2> QED
      BY <1>3, <1>type, <2>1, TimedOutPacketsProperties
  <1>5. m \in Manager /\ m.lastAck = mgr[r].lastAck
    <2>1. CheckTimeouts(mgr[r], t) \in Manager
      BY <1>3, <1>type, CheckTimeoutsProperties
    <2>2. CheckTimeouts(mgr[r], t).lastAck = mgr[r].lastAck
      BY <1>3, <1>type DEF CheckTimeouts, Manager
    <2> QED
      BY <2>1, <2>2, CancelProperties
  <1>6. m.inFlight = {e \in E : e.pkt.id \notin Ids(late)}
    BY <1>3, <1>type, KeptByTimeouts
  <1>7. out \in SUBSET Packet /\ IsFiniteSet(out)
    BY <1>4, <1>type, CopiesProperties
  <1>8. \A q \in late : q.src = r /\ AckFits(q) /\ NeedsAckTracking(q)
    BY <1>3, <1>4, <1>inv, <1>type DEF Tiles
  <1>9. Transmit(r, m, out, wire, armed, t)
    BY <1>1
  <1> HIDE DEF late, m
  <1>10. /\ Tiled({e \in E : e.pkt.id \notin Ids(late)} \cup Track(out, t),
                  Unacked(r), sndNxt[r], txCount + Cardinality(out))
         /\ \A y \in out : \E q \in late : Same(y, q) /\ y.ack = q.ack /\ y.src = q.src
    <2> DEFINE lo == Unacked(r)
               hi == sndNxt[r]
    <2>1. lo \in Int /\ hi \in Int /\ Tiled(E, lo, hi, txCount)
      BY <1>3, <1>inv, <1>type DEF Tiles
    <2> HIDE DEF lo, hi, E, t
    <2>2. /\ Tiled({e \in E : e.pkt.id \notin Ids(late)} \cup Track(Copies(late), t),
                   lo, hi, txCount + Cardinality(Copies(late)))
          /\ \A y \in Copies(late) : \E q \in late : Same(y, q) /\ y.ack = q.ack /\ y.src = q.src
      BY <1>4, <1>type, <2>1, Resend
    <2> QED
      BY <2>2 DEF lo, hi
  <1> HIDE DEF out
  <1>11. ASSUME NEW y \in out
         PROVE  /\ y.src = r /\ AckFits(y) /\ NeedsAckTracking(y)
                /\ \E e \in mgr[r].inFlight : Same(y, e.pkt)
    <2>1. PICK q \in late : Same(y, q) /\ y.ack = q.ack /\ y.src = q.src
      BY <1>10
    <2>2. PICK e \in E : q = e.pkt
      BY <1>4
    <2> QED
      BY <1>8, <2>1, <2>2 DEF AckFits, NeedsAckTracking, Same
  <1>12. {q \in out : NeedsAckTracking(q)} = out
    BY <1>11
  <1>13. Tiled(m.inFlight \cup Track({q \in out : NeedsAckTracking(q)}, t),
               IF m.lastAck = NoAck THEN InitialSeq[r] ELSE m.lastAck,
               sndNxt'[r], txCount + Cardinality(out))
    BY <1>2, <1>5, <1>6, <1>10, <1>12 DEF Unacked
  <1>14. \A q \in Roles : Opened(q)' => rcvNxt'[q] > InitialSeq[Peer(q)]
    <2>1. \A q \in Roles : Opened(q)' => Opened(q)
      BY <1>2 DEF Opened
    <2> QED
      BY <2>1, OpenedKept
  <1>15. /\ Clear(mgr[Peer(r)].inFlight, rcvNxt'[r]) /\ Abut(segments')
         /\ sndNxt'[Peer(r)] = sndNxt[Peer(r)] /\ rcvNxt'[Peer(r)] = rcvNxt[Peer(r)]
         /\ m.inFlight \subseteq mgr[r].inFlight /\ wire \in SUBSET wire
         /\ (m.lastAck # NoAck => m.lastAck > InitialSeq[r])
    BY <1>2, <1>3, <1>5, <1>6, <1>inv, <1>type DEF Tiles
  <1> HIDE DEF r, t, armed
  <1> QED
    BY <1>3, <1>5, <1>7, <1>9, <1>11, <1>13, <1>14, <1>15, TransmitTiles

LEMMA TimeWaitExpiryTiles ==
  ASSUME TilingInv, ConnInv', Forward, TimeWaitExpiry
  PROVE  TilingInv'
  <1>1. PICK x \in timers :
          state' = IF state[x.role] = "TIME_WAIT"
                   THEN [state EXCEPT ![x.role] = "CLOSED"] ELSE state
    BY Triggered DEF TimeWaitExpiry, Firing
  <1>2. UNCHANGED <<started, sndNxt, rcvNxt, segments, mgr, wire, txCount>>
    BY DEF TimeWaitExpiry, sending
  <1>3. state \in [Roles -> States]
    BY TileTypes DEF TilingInv
  <1>4. \A q \in Roles : state'[q] = state[q] \/ state[q] = "TIME_WAIT"
    BY <1>1, <1>3
  <1>5. \A q \in Roles : Opened(q)' => Opened(q)
    BY <1>2, <1>4 DEF Opened
  <1> QED
    BY <1>2, <1>5, QuietTiles

-----------------------------------------------------------------------------
(* The invariant and what follows from it.                                  *)

LEMMA InitTilingInv == Init => TilingInv
  <1> SUFFICES ASSUME Init PROVE TilingInv
    OBVIOUS
  <1>1. ConnInv
    BY InitConnInv
  <1>2. /\ \A r \in Roles : /\ mgr[r].inFlight = {} /\ mgr[r].lastAck = NoAck /\ sndNxt[r] = 0
        /\ wire = {} /\ ~started /\ segments = << >>
    BY DEF Init, InitManager
  <1>3. \A r \in Roles : InitialSeq[r] \in Nat /\ InitialSeq[r] > 0
    BY SessionAssumption
  <1>4. ASSUME NEW r \in Roles PROVE Tiled(mgr[r].inFlight, Unacked(r), sndNxt[r], txCount)
    <2>1. Unacked(r) .. sndNxt[r] - 1 = {}
      BY <1>2, <1>3 DEF Unacked
    <2> QED
      BY <1>2, <2>1 DEF Tiled
  <1>5. Abut(segments)
    BY <1>2 DEF Abut
  <1>6. Tiles
    BY <1>2, <1>4, <1>5 DEF Tiles, Clear, Opened
  <1> QED
    BY <1>1, <1>6 DEF TilingInv

LEMMA StepTilingInv == TilingInv /\ [Next]_vars => TilingInv'
  <1> SUFFICES ASSUME TilingInv, [Next]_vars PROVE TilingInv'
    OBVIOUS
  <1>1. ConnInv' /\ Forward
    BY StepConnInv DEF TilingInv
  <1>2. CASE UpdateTcpConfig \/ UNCHANGED vars
    <2>1. UNCHANGED <<started, state, sndNxt, rcvNxt, segments, mgr, wire, txCount>>
      BY <1>2 DEF UpdateTcpConfig, vars, endpoints, network, sending
    <2>2. \A q \in Roles : Opened(q)' => Opened(q)
      BY <2>1 DEF Opened
    <2> QED
      BY <1>1, <2>1, <2>2, QuietTiles
  <1> QED
    BY <1>1, <1>2, StartTiles, SendTiles, CloseTiles, DeliverSynTiles, DeliverSynAckTiles,
       DeliverAckTiles, DeliverFinTiles, DeliverDataTiles, RtoCheckTiles, TimeWaitExpiryTiles
       DEF Next, Command, ProcessNext, SendMessage

\* In every reachable state the retransmission queue of an endpoint covers
\* exactly what it has sent and not had acknowledged, each number by one
\* packet: cumulative and duplicate ACKs, fast retransmits, timeouts and late
\* copies never lose, double or resurrect a segment (retransmission.py on_ack,
\* check_timeouts; session.py _resend).
THEOREM TilingInvariant == Spec => []UnackedTiled
  <1>1. ASSUME TilingInv, NEW r \in Roles, NEW s \in Unacked(r) .. sndNxt[r] - 1
        PROVE  \E e \in mgr[r].inFlight :
                 Covers(e, s) /\ \A f \in mgr[r].inFlight : Covers(f, s) => f = e
    <2>1. Tiled(mgr[r].inFlight, Unacked(r), sndNxt[r], txCount)
      BY <1>1 DEF TilingInv, Tiles
    <2>2. PICK e \in mgr[r].inFlight : Covers(e, s)
      BY <2>1 DEF Tiled
    <2>3. ASSUME NEW f \in mgr[r].inFlight, Covers(f, s), f # e PROVE FALSE
      <3>1. Apt(e.pkt, f.pkt)
        BY <2>1, <2>3 DEF Tiled
      <3>2. e.pkt \in Packet /\ f.pkt \in Packet /\ Unacked(r) \in Int /\ sndNxt[r] \in Nat
        BY <1>1, TileTypes DEF TilingInv
      <3>3. /\ e.pkt.seq \in Nat /\ SegmentEndSeq(e.pkt) \in Nat
            /\ f.pkt.seq \in Nat /\ SegmentEndSeq(f.pkt) \in Nat /\ s \in Int
        BY <3>2, ExtentType
      <3> QED
        BY <2>2, <2>3, <3>1, <3>3 DEF Apt, Covers
    <2> QED
      BY <2>2, <2>3
  <1>2. ASSUME TilingInv, NEW r \in Roles, NEW e \in mgr[r].inFlight
        PROVE  e.pkt.seq >= Unacked(r) /\ SegmentEndSeq(e.pkt) <= sndNxt[r]
    <2>1. Unacked(r) <= e.pkt.seq /\ SegmentEndSeq(e.pkt) <= sndNxt[r]
      BY <1>2 DEF TilingInv, Tiles, Tiled
    <2> QED
      BY <2>1
  <1>3. TilingInv => UnackedTiled
    BY <1>1, <1>2 DEF UnackedTiled
  <1> QED
    BY <1>3, InitTilingInv, StepTilingInv, PTL DEF Spec

\* With no event left, r has nothing outstanding.
LEMMA IdleAcked ==
  ASSUME TilingInv, Idle, NEW r \in Roles
  PROVE  mgr[r].inFlight = {} /\ (sndNxt[r] > 0 => Unacked(r) = sndNxt[r])
  <1>1. mgr[r].inFlight = {}
    BY DEF TilingInv, ConnInv, TimerInv, Watched, Idle
  <1>2. Unacked(r) \in Int /\ sndNxt[r] \in Nat /\ InitialSeq[r] \in Nat
        /\ (r = "client" \/ r = "server")
    BY TileTypes DEF TilingInv
  <1>3. sndNxt[r] > 0 => InitialSeq[r] < sndNxt[r]
    BY <1>2 DEF TilingInv, ConnInv, Numbers
  <1>4. sndNxt[r] > 0 => Unacked(r) <= sndNxt[r]
    BY <1>2, <1>3, UnackedBelow
  <1>5. Unacked(r) .. sndNxt[r] - 1 = {}
    BY <1>1 DEF TilingInv, Tiles, Tiled
  <1>6. ~(Unacked(r) < sndNxt[r])
    <2>1. Unacked(r) < sndNxt[r] => Unacked(r) \in Unacked(r) .. sndNxt[r] - 1
      BY <1>2
    <2> QED
      BY <1>5, <2>1
  <1> QED
    BY <1>1, <1>2, <1>4, <1>6

\* When no event is left everything either side sent has been acknowledged:
\* no loss, however placed, leaves a segment behind that nothing would resend
\* (scheduler.py pop_next; session.py run_until_idle).
THEOREM IdleInvariant == Spec => []IdleMeansAcked
  <1>1. TilingInv => IdleMeansAcked
    BY IdleAcked DEF IdleMeansAcked
  <1> QED
    BY <1>1, InitTilingInv, StepTilingInv, PTL DEF Spec

-----------------------------------------------------------------------------
(* The server's FIN: it is tracked for as long as the client waits for it.  *)

\* A client in FIN_WAIT_1 or FIN_WAIT_2 has not had the server's FIN, although
\* the server may have been taken to CLOSED by some other ACK: any FIN moves the
\* client on.
FinAwaited ==
  Finished("server") /\ state["client"] \in {"FIN_WAIT_1", "FIN_WAIT_2"}
    => rcvNxt["client"] < sndNxt["server"]

\* A step that does not bring the server to its FIN, nor anything to the client.
LEMMA FinAwaitedKept ==
  ASSUME Forward, FinAwaited, Finished("server")' => Finished("server"),
         state'["client"] \in {"FIN_WAIT_1", "FIN_WAIT_2"} =>
           /\ state["client"] \in {"FIN_WAIT_1", "FIN_WAIT_2"}
           /\ rcvNxt'["client"] = rcvNxt["client"]
  PROVE  FinAwaited'
  <1>1. Finished("server") => sndNxt'["server"] = sndNxt["server"]
    BY DEF Forward, Roles
  <1> QED
    BY <1>1 DEF FinAwaited

LEMMA DeliverAckAwaited ==
  ASSUME ConnInv, Forward, FinAwaited, DeliverAck
  PROVE  FinAwaited'
  <1>type. /\ "client" \in Roles /\ "server" \in Roles /\ state \in [Roles -> States]
           /\ \A r \in Roles : r = "client" \/ r = "server"
    BY TileTypes
  <1>1. PICK r \in Roles :
          state' = IF state[r] \in {"SYN_RECEIVED", "FIN_WAIT_1", "CLOSING", "LAST_ACK"}
                   THEN [state EXCEPT ![r] = Apply(@, "RECV_ACK")] ELSE state
    <2>1. PICK w \in wire :
            LET r == Peer(w.pkt.src)
            IN  state' = IF CanApply(state[r], "RECV_ACK")
                         THEN [state EXCEPT ![r] = Apply(@, "RECV_ACK")] ELSE state
      BY DEF DeliverAck
    <2>2. Peer(w.pkt.src) \in Roles
      BY TileTypes
    <2> QED
      BY <2>1, <2>2, Triggered
  <1>2. UNCHANGED <<started, rcvNxt>>
    BY DEF DeliverAck
  <1>3. /\ state[r] = "SYN_RECEIVED" => state'[r] = "ESTABLISHED"
        /\ state[r] = "FIN_WAIT_1" => state'[r] = "FIN_WAIT_2"
        /\ state[r] = "CLOSING" => state'[r] = "TIME_WAIT"
        /\ state[r] = "LAST_ACK" => state'[r] = "CLOSED"
        /\ state[r] \notin {"SYN_RECEIVED", "FIN_WAIT_1", "CLOSING", "LAST_ACK"}
             => state' = state
        /\ \A q \in Roles \ {r} : state'[q] = state[q]
    BY <1>1, <1>type, Triggered
  <1>4. StatePairs /\ state["client"] \in ClientStates
    BY DEF ConnInv
  <1>5. Finished("server")' => Finished("server")
    BY <1>2, <1>3, <1>4, <1>type DEF Finished, StatePairs
  <1>6. state'["client"] \in {"FIN_WAIT_1", "FIN_WAIT_2"}
          => state["client"] \in {"FIN_WAIT_1", "FIN_WAIT_2"}
    BY <1>3, <1>4, <1>type DEF ClientStates
  <1> QED
    BY <1>2, <1>5, <1>6, FinAwaitedKept

LEMMA DeliverFinAwaited ==
  ASSUME ConnInv, Forward, FinAwaited, DeliverFin
  PROVE  FinAwaited'
  <1>type. /\ "client" \in Roles /\ "server" \in Roles /\ state \in [Roles -> States]
           /\ \A r \in Roles : r = "client" \/ r = "server"
           /\ sndNxt \in [Roles -> Nat] /\ rcvNxt \in [Roles -> Nat]
    BY TileTypes
  <1>1. PICK r \in Roles :
          /\ \E n : rcvNxt' = [rcvNxt EXCEPT ![r] = n]
          /\ state' = [state EXCEPT ![r] =
                         IF state[r] = "ESTABLISHED"
                         THEN Apply(Apply(state[r], "RECV_FIN"), "APP_CLOSE")
                         ELSE IF CanApply(@, "RECV_FIN") THEN Apply(state[r], "RECV_FIN")
                              ELSE @]
          /\ sndNxt' = IF state[r] = "ESTABLISHED" THEN [sndNxt EXCEPT ![r] = @ + 1] ELSE sndNxt
    <2>1. PICK w \in wire :
            LET p == w.pkt
                r == Peer(p.src)
            IN  /\ rcvNxt' = [rcvNxt EXCEPT ![r] = p.seq + 1]
                /\ state' = [state EXCEPT ![r] =
                               IF state[r] = "ESTABLISHED"
                               THEN Apply(Apply(state[r], "RECV_FIN"), "APP_CLOSE")
                               ELSE IF CanApply(@, "RECV_FIN") THEN Apply(state[r], "RECV_FIN")
                                    ELSE @]
                /\ sndNxt' = IF state[r] = "ESTABLISHED"
                             THEN [sndNxt EXCEPT ![r] = @ + 1] ELSE sndNxt
      BY DEF DeliverFin
    <2>2. Peer(w.pkt.src) \in Roles
      BY TileTypes
    <2> QED
      BY <2>1, <2>2
  <1>2. /\ state[r] = "ESTABLISHED" => state'[r] = "LAST_ACK"
        /\ state[r] = "FIN_WAIT_1" => state'[r] = "CLOSING"
        /\ state[r] = "FIN_WAIT_2" => state'[r] = "TIME_WAIT"
        /\ state[r] \notin {"ESTABLISHED", "FIN_WAIT_1", "FIN_WAIT_2"} => state'[r] = state[r]
    BY <1>1, <1>type, Triggered
  <1>3. started' = started
    BY DEF DeliverFin
  <1>4. CASE r = "client"
    <2>1. state'["client"] \notin {"FIN_WAIT_1", "FIN_WAIT_2"}
      BY <1>2, <1>4
    <2> QED
      BY <2>1 DEF FinAwaited
  <1>5. CASE r = "server"
    <2>1. state'["client"] = state["client"] /\ rcvNxt'["client"] = rcvNxt["client"]
      BY <1>1, <1>5, <1>type
    <2>2. CASE state["server"] = "ESTABLISHED"
      <3>1. sndNxt'["server"] = sndNxt["server"] + 1 /\ rcvNxt["client"] <= sndNxt["server"]
        BY <1>1, <1>5, <1>type, <2>2 DEF ConnInv, Numbers
      <3> QED
        BY <1>type, <2>1, <3>1 DEF FinAwaited
    <2>3. CASE state["server"] # "ESTABLISHED"
      <3>1. state'["server"] = state["server"]
        <4>1. state["server"] \notin {"FIN_WAIT_1", "FIN_WAIT_2"}
          BY DEF ConnInv, StatePairs
        <4> QED
          BY <1>2, <1>5, <2>3, <4>1
      <3> QED
        BY <1>3, <2>1, <3>1, FinAwaitedKept DEF Finished
    <2> QED
      BY <2>2, <2>3
  <1> QED
    BY <1>4, <1>5, <1>type

LEMMA StepFinAwaited ==
  ASSUME ConnInv, ConnInv', Forward, FinAwaited, [Next]_vars
  PROVE  FinAwaited'
  <1>type. "client" \in Roles /\ "server" \in Roles /\ state \in [Roles -> States]
           /\ rcvNxt \in [Roles -> Nat]
    BY TileTypes
  <1>pairs. StatePairs
    BY DEF ConnInv
  <1>1. CASE Start
    <2>1. state'["client"] = "SYN_SENT"
      <3>1. state["client"] = "CLOSED"
        BY <1>1, <1>type DEF Start, ConnInv, TimerInv, TypeInv
      <3> QED
        BY <1>1, <3>1, Triggered DEF Start
    <2> QED
      BY <2>1 DEF FinAwaited
  <1>2. CASE \/ SendMessage \/ UpdateTcpConfig \/ RtoCheck \/ UNCHANGED vars
    <2>1. UNCHANGED <<started, state, rcvNxt>>
      BY <1>2 DEF SendMessage, Send, UpdateTcpConfig, RtoCheck, vars, endpoints
    <2> QED
      BY <2>1, FinAwaitedKept DEF Finished
  <1>3. CASE Close
    <2>1. state["client"] = "ESTABLISHED" /\ state'["server"] = state["server"]
      BY <1>3, <1>type DEF Close
    <2>2. ~Finished("server")'
      BY <1>pairs, <2>1 DEF Finished, StatePairs
    <2> QED
      BY <2>2 DEF FinAwaited
  <1>4. CASE DeliverSyn
    <2>1. /\ UNCHANGED started
          /\ state' = state \/ state' = [state EXCEPT !["server"] = "SYN_RECEIVED"]
          /\ rcvNxt'["client"] = rcvNxt["client"]
      BY <1>4, <1>type, Triggered DEF DeliverSyn
    <2> QED
      BY <1>type, <2>1, FinAwaitedKept DEF Finished
  <1>5. CASE DeliverSynAck
    <2>1. /\ UNCHANGED started
          /\ \/ state' = [state EXCEPT !["client"] = "ESTABLISHED"]
             \/ state' = state /\ rcvNxt'["client"] = rcvNxt["client"]
      <3>1. PICK w \in wire :
              LET opening == state["client"] = "SYN_SENT"
              IN  /\ state' = IF opening
                              THEN [state EXCEPT !["client"] = "ESTABLISHED"] ELSE state
                  /\ rcvNxt' = [rcvNxt EXCEPT !["client"] =
                                  IF opening THEN w.pkt.seq + 1 ELSE rcvNxt["client"]]
        BY <1>5, Triggered DEF DeliverSynAck
      <3>2. UNCHANGED started
        BY <1>5 DEF DeliverSynAck
      <3>3. CASE state["client"] = "SYN_SENT"
        BY <3>1, <3>2, <3>3
      <3>4. CASE state["client"] # "SYN_SENT"
        BY <1>type, <3>1, <3>2, <3>4
      <3> QED
        BY <3>3, <3>4
    <2> QED
      BY <1>type, <2>1, FinAwaitedKept DEF Finished
  <1>6. CASE DeliverData
    <2>1. UNCHANGED <<started, state>> /\ rcvNxt'["client"] = rcvNxt["client"]
      <3>1. PICK w \in wire : \E n : w.pkt.kind = "DATA" /\ rcvNxt' = [rcvNxt EXCEPT ![Peer(w.pkt.src)] = n]
        BY <1>6 DEF DeliverData, Delivering
      <3>2. Peer(w.pkt.src) = "server"
        BY <3>1 DEF ConnInv, Packets, PacketOK, Peer
      <3> QED
        BY <1>6, <1>type, <3>1, <3>2 DEF DeliverData
    <2> QED
      BY <2>1, FinAwaitedKept DEF Finished
  <1>7. CASE TimeWaitExpiry
    <2>1. PICK x \in timers :
            state' = IF state[x.role] = "TIME_WAIT"
                     THEN [state EXCEPT ![x.role] = "CLOSED"] ELSE state
      BY <1>7, Triggered DEF TimeWaitExpiry
    <2>2. UNCHANGED <<started, rcvNxt>> /\ state["server"] # "TIME_WAIT"
      BY <1>7, <1>pairs DEF TimeWaitExpiry, StatePairs
    <2>3. state'["server"] = state["server"] /\ state'["client"] \in {"CLOSED", state["client"]}
      BY <1>type, <2>1, <2>2
    <2> QED
      BY <2>2, <2>3, FinAwaitedKept DEF Finished
  <1> QED
    BY <1>1, <1>2, <1>3, <1>4, <1>5, <1>6, <1>7, DeliverAckAwaited, DeliverFinAwaited
       DEF Next, Command, ProcessNext

\* The last number the server has sent is then unacknowledged, so something
\* tracked covers it, and that is the FIN.
LEMMA FinTracked ==
  ASSUME TilingInv, FinAwaited, Finished("server"),
         state["client"] \in {"FIN_WAIT_1", "FIN_WAIT_2"}
  PROVE  \E e \in mgr["server"].inFlight : e.pkt.kind = "FIN"
  <1> DEFINE n == sndNxt["server"]
  <1>1. /\ ConnInv /\ Tiles /\ Opened("client") /\ Numbers
        /\ rcvNxt["client"] < n /\ rcvNxt["client"] > InitialSeq["server"]
    <2>1. ConnInv /\ Tiles /\ Opened("client") /\ Numbers
      BY DEF TilingInv, ConnInv, Opened, Finished
    <2>2. rcvNxt["client"] > InitialSeq["server"]
      BY <2>1 DEF Tiles, Roles, Peer
    <2> QED
      BY <2>1, <2>2 DEF FinAwaited
  <1>2. /\ n \in Nat /\ rcvNxt["client"] \in Nat /\ InitialSeq["server"] \in Nat
        /\ Unacked("server") \in Int /\ mgr["server"].lastAck \in Int
        /\ mgr["server"].lastAck <= rcvNxt["client"] /\ "server" \in Roles
    BY <1>1, TileTypes
  <1>3. Unacked("server") <= n - 1
    BY <1>1, <1>2 DEF Unacked
  <1>4. n - 1 \in Unacked("server") .. n - 1 /\ n > InitialSeq["server"] + 1
    BY <1>1, <1>2, <1>3
  <1>5. PICK e \in mgr["server"].inFlight : Covers(e, n - 1)
    BY <1>1, <1>2, <1>4 DEF Tiles, Tiled
  <1>6. /\ e.pkt.src = "server" /\ e.pkt \in Packet /\ PacketOK(e.pkt)
        /\ NeedsAckTracking(e.pkt)
    BY <1>1, <1>2, TileTypes
  <1>7. e.pkt.seq \in Nat /\ e.pkt.kind \in Kinds
    BY <1>6 DEF Packet
  <1>8. e.pkt.kind # "SYN_ACK"
    BY <1>2, <1>4, <1>5, <1>6 DEF PacketOK, Covers, SegmentEndSeq
  <1> QED
    BY <1>6, <1>7, <1>8 DEF PacketOK, NeedsAckTracking, Kinds

\* The two state machines are never in a pair of states the closing handshake
\* does not allow, and where the code departs from it - a LAST_ACK left on
\* another ACK than that of the FIN - the server still tracks that FIN, CLOSED or
\* not, for as long as the client waits for it (state_machine.py; session.py
\* delivery handlers, close, _handle_rto_check).
THEOREM StatesInvariant == Spec => []StatesAgree
  <1>1. TilingInv /\ FinAwaited => StatesAgree
    <2> SUFFICES ASSUME TilingInv, FinAwaited PROVE StatesAgree
      OBVIOUS
    <2>1. StatePairs /\ TypeInv /\ "client" \in Roles
      BY DEF TilingInv, ConnInv, TimerInv, Roles
    <2>2. state["client"] \in {"FIN_WAIT_1", "FIN_WAIT_2"} => started
      BY <2>1 DEF TypeInv
    <2> QED
      BY <2>1, <2>2, FinTracked DEF StatesAgree, Finished
  <1>2. TilingInv /\ FinAwaited /\ [Next]_vars => TilingInv' /\ FinAwaited'
    BY StepTilingInv, StepConnInv, StepFinAwaited DEF TilingInv
  <1>3. Init => TilingInv /\ FinAwaited
    BY InitTilingInv DEF Init, FinAwaited, Finished
  <1> QED
    BY <1>1, <1>2, <1>3, PTL DEF Spec

-----------------------------------------------------------------------------
(* The congestion window: what a step can do to the client's queue.         *)

\* It resends some of what is tracked, or leaves it alone ...
Repeats ==
  \E P \in SUBSET Packet : \E t :
    /\ P \subseteq {e.pkt : e \in mgr["client"].inFlight}
    /\ mgr'["client"].inFlight
         = {e \in mgr["client"].inFlight : e.pkt.id \notin Ids(P)} \cup Track(Copies(P), t)
    /\ UNCHANGED <<segments, nextSeg>>

\* ... or tracks a SYN or FIN, in a state that does not send data ...
Controls ==
  /\ state'["client"] # "ESTABLISHED"
  /\ \A e \in mgr'["client"].inFlight : e \in mgr["client"].inFlight \/ e.pkt.kind # "DATA"

\* ... or sends the data for which the window has room.
Sends ==
  \E m \in Manager : \E next, t :
    /\ SendTypes(m, cong'["client"], segments', next)
    /\ m.inFlight \subseteq mgr["client"].inFlight
    /\ mgr'["client"].inFlight
         = m.inFlight \cup Track(DataPackets(m, cong'["client"], segments', next), t)
    /\ nextSeg' = next + SendCount(m, cong'["client"], segments', next)

ClientStep ==
  /\ Repeats \/ Controls \/ Sends
  /\ state'["client"] = "ESTABLISHED" =>
       state["client"] = "ESTABLISHED" \/ (~Opened("client") /\ segments' = segments)

LEMMA TransmitFlight ==
  ASSUME TypeInv, NEW r \in Roles, NEW m \in Manager, NEW out, NEW onWire, NEW armed, NEW t,
         Transmit(r, m, out, onWire, armed, t)
  PROVE  /\ mgr'[r].inFlight = m.inFlight \cup Track({p \in out : NeedsAckTracking(p)}, t)
         /\ \A q \in Roles : q # r => mgr'[q] = mgr[q]
  <1> DEFINE tracked == {p \in out : NeedsAckTracking(p)}
  <1>1. mgr' = [mgr EXCEPT ![r] = RegisterSent(m, tracked, t)]
    BY DEF Transmit
  <1>2. RegisterSent(m, tracked, t).inFlight = m.inFlight \cup Track(tracked, t)
    BY DEF RegisterSent, Manager, Track
  <1>3. mgr \in [Roles -> Manager]
    BY DEF TypeInv, TypeOK
  <1> HIDE DEF tracked
  <1>4. mgr'[r].inFlight = m.inFlight \cup Track(tracked, t)
    BY <1>1, <1>2, <1>3
  <1>5. \A q \in Roles : q # r => mgr'[q] = mgr[q]
    BY <1>1, <1>3
  <1> QED
    BY <1>4, <1>5 DEF tracked

\* A queue that is left alone.
LEMMA Untouched ==
  ASSUME mgr'["client"] = mgr["client"], UNCHANGED <<segments, nextSeg>>
  PROVE  Repeats
  <1> DEFINE P == {}
             E == mgr["client"].inFlight
  <1>1. {e \in E : e.pkt.id \notin Ids(P)} \cup Track(Copies(P), now) = E
    <2>1. Copies(P) = {} /\ Ids(P) = {}
      BY DEF Copies, Ids
    <2>2. Track(Copies(P), now) = {}
      BY <2>1 DEF Track
    <2> QED
      BY <2>1, <2>2
  <1>2. P \in SUBSET Packet /\ P \subseteq {e.pkt : e \in E}
    OBVIOUS
  <1> HIDE DEF P
  <1> QED
    BY <1>1, <1>2 DEF Repeats

\* ACK bookkeeping at the client resends or sends.
LEMMA AckFlight ==
  ASSUME TilingInv, NEW p \in Packet, Peer(p.src) = "client",
         p.ack # NoAck, PacketOK(p), AckFits(p), AckBookkeeping("client", p),
         NEW more, \A q \in more : q.kind = "ACK", NEW onWire, NEW armed, NEW t,
         Transmit("client", AckedManager("client", p),
                  AckedOutput("client", p) \cup more, onWire, armed, t),
         segments' = segments
  PROVE  Repeats \/ Sends
  <1> DEFINE r == "client"
             M == mgr[r]
             E == M.inFlight
             m == AckedManager(r, p)
             c == AckedCongestion(r, p)
             sent == AckedOutput(r, p)
             target == FastRetransmitTarget(M, p.ack)
  <1>type. /\ TypeInv /\ r \in Roles /\ M \in Manager /\ p.ack \in Nat \cup {NoAck}
           /\ cong \in [Roles -> Congestion]
    BY TileTypes DEF TilingInv, Packet, TypeOK
  <1>1. SendTypes(m, c, segments, nextSeg) /\ m \in Manager
    BY <1>type, AckStepProperties DEF SendTypes
  <1>2. mgr'[r].inFlight = m.inFlight \cup Track(sent, t)
    <2>1. \A q \in sent : NeedsAckTracking(q)
      BY <1>type, AckTiles
    <2>2. {q \in sent \cup more : NeedsAckTracking(q)} = sent
      BY <2>1 DEF NeedsAckTracking
    <2>3. Transmit(r, m, sent \cup more, onWire, armed, t)
      OBVIOUS
    <2> HIDE DEF sent, m, r
    <2> QED
      BY <1>1, <1>type, <2>2, <2>3, TransmitFlight
  <1>3. /\ cong'[r] = c
        /\ nextSeg' = IF Resumes(r, p) THEN nextSeg + SendCount(m, c, segments, nextSeg)
                      ELSE nextSeg
    BY <1>type DEF AckBookkeeping
  <1>4. m.inFlight = {e \in OnAck(M, p.ack).inFlight : e.pkt.id \notin Ids(target)}
        /\ OnAck(M, p.ack).inFlight \subseteq E
    BY <1>type, OnAckProperties, CancelProperties DEF AckedManager
  <1>5. CASE Resumes(r, p)
    <2>1. sent = DataPackets(m, c, segments, nextSeg)
      BY <1>5 DEF AckedOutput
    <2> HIDE DEF m, c, sent
    <2>2. Sends
      BY <1>1, <1>2, <1>3, <1>4, <1>5, <2>1 DEF Sends
    <2> QED
      BY <2>2
  <1>6. CASE ~Resumes(r, p)
    <2>1. sent = Copies(target) /\ Acked(M, p.ack) = {}
      BY <1>6 DEF AckedOutput, Resumes
    <2>2. OnAck(M, p.ack).inFlight = E
      BY <1>type, <2>1 DEF OnAck, Manager
    <2>3. target \in SUBSET Packet /\ target \subseteq {e.pkt : e \in E}
      BY <1>type, FastRetransmitTargetProperties
    <2> HIDE DEF m, c, sent, target
    <2>4. mgr'["client"].inFlight
            = {e \in E : e.pkt.id \notin Ids(target)} \cup Track(Copies(target), t)
      BY <1>2, <1>4, <2>1, <2>2
    <2>5. Repeats
      BY <1>3, <1>6, <2>3, <2>4 DEF Repeats
    <2> QED
      BY <2>5
  <1> QED
    BY <1>5, <1>6

\* Every step of the session is one of these for the client.
LEMMA CommandSteps ==
  ASSUME TilingInv, Start \/ SendMessage \/ Close
  PROVE  ClientStep
  <1>type. /\ TypeInv /\ "client" \in Roles /\ mgr["client"] \in Manager
           /\ state \in [Roles -> States]
    BY TileTypes DEF TilingInv
  <1> DEFINE m == mgr["client"]
  <1>1. CASE Start
    <2> DEFINE syn == NewPacket(txCount, "SYN", InitialSeq["client"], NoAck, 0, "client")
               out == {syn}
    <2>1. Transmit("client", m, out, wire, timers, now) /\ state'["client"] # "ESTABLISHED"
      BY <1>1, <1>type, Triggered DEF Start, TypeInv
    <2>2. \A q \in out : q.kind = "SYN"
      BY DEF NewPacket
    <2> HIDE DEF out
    <2>3. mgr'["client"].inFlight
            = m.inFlight \cup Track({q \in out : NeedsAckTracking(q)}, now)
      BY <1>type, <2>1, TransmitFlight
    <2>4. \A e \in Track({q \in out : NeedsAckTracking(q)}, now) : e.pkt.kind = "SYN"
      BY <2>2, Tracked
    <2> QED
      BY <2>1, <2>3, <2>4 DEF ClientStep, Controls
  <1>2. CASE Close
    <2> DEFINE fin == NewPacket(txCount, "FIN", sndNxt["client"], NoAck, 0, "client")
               out == {fin}
    <2>1. Transmit("client", m, out, wire, timers, now) /\ state'["client"] = "FIN_WAIT_1"
      BY <1>2, <1>type, Triggered DEF Close
    <2>2. \A q \in out : q.kind = "FIN"
      BY DEF NewPacket
    <2> HIDE DEF out
    <2>3. mgr'["client"].inFlight
            = m.inFlight \cup Track({q \in out : NeedsAckTracking(q)}, now)
      BY <1>type, <2>1, TransmitFlight
    <2>4. \A e \in Track({q \in out : NeedsAckTracking(q)}, now) : e.pkt.kind = "FIN"
      BY <2>2, Tracked
    <2> QED
      BY <2>1, <2>3, <2>4 DEF ClientStep, Controls
  <1>3. ASSUME NEW length \in MessageLengths, Send(length) PROVE ClientStep
    <2> DEFINE segs == Segment(length, tcpConfig.mss)
               c == cong["client"]
               out == DataPackets(m, c, segs, 1)
    <2>1. /\ state["client"] = "ESTABLISHED" /\ segments' = segs /\ cong' = cong
          /\ nextSeg' = 1 + SendCount(m, c, segs, 1)
          /\ Transmit("client", m, out, wire, timers, now)
      BY <1>3 DEF Send
    <2>2. SendTypes(m, c, segs, 1)
      <3>1. length \in Nat /\ tcpConfig \in TcpConfigs
        BY SessionAssumption, <1>type DEF TypeInv, TypeOK
      <3>2. tcpConfig.mss \in Nat \ {0}
        BY <3>1 DEF TcpConfigs
      <3>3. segs \in Seq(SegmentRecords) /\ Ordered(segs)
        BY <3>1, <3>2, SegmentProperties
      <3>4. 1 \in 1 .. Len(segs) + 1
        BY <3>3
      <3> QED
        BY <1>type, <3>3, <3>4 DEF SendTypes, TypeInv, TypeOK
    <2> HIDE DEF segs
    <2>3. \A q \in out : NeedsAckTracking(q)
      BY DEF DataPackets, NewPacket, NeedsAckTracking
    <2> HIDE DEF out
    <2>4. mgr'["client"].inFlight
            = m.inFlight \cup Track({q \in out : NeedsAckTracking(q)}, now)
      <3>1. Transmit("client", m, out, wire, timers, now) /\ m \in Manager
        BY <1>type, <2>1
      <3> HIDE DEF m
      <3> QED
        BY <1>type, <3>1, TransmitFlight
    <2>5. mgr'["client"].inFlight = m.inFlight \cup Track(DataPackets(m, c, segs, 1), now)
      BY <2>3, <2>4 DEF out
    <2>6. m \in Manager /\ m.inFlight \subseteq mgr["client"].inFlight
      BY <1>type
    <2>7. cong'["client"] = c
      BY <2>1
    <2> HIDE DEF m, c
    <2>8. Sends
      BY <2>1, <2>2, <2>5, <2>6, <2>7 DEF Sends
    <2> QED
      BY <2>1, <2>8 DEF ClientStep
  <1> QED
    BY <1>1, <1>2, <1>3 DEF SendMessage

LEMMA TimerSteps ==
  ASSUME TilingInv, RtoCheck \/ TimeWaitExpiry
  PROVE  ClientStep
  <1>type. /\ TypeInv /\ "client" \in Roles /\ mgr \in [Roles -> Manager]
           /\ state \in [Roles -> States]
    BY TileTypes DEF TilingInv
  <1>1. CASE RtoCheck
    <2>1. PICK x \in timers :
            LET late == TimedOutPackets(mgr[x.role], x.due)
            IN  Transmit(x.role, Cancel(CheckTimeouts(mgr[x.role], x.due), Ids(late)),
                         Copies(late), wire, timers \ {x}, x.due)
      BY <1>1 DEF RtoCheck, Firing
    <2> DEFINE r == x.role
               t == x.due
               late == TimedOutPackets(mgr[r], t)
               m == Cancel(CheckTimeouts(mgr[r], t), Ids(late))
               out == Copies(late)
               armed == timers \ {x}
               E == mgr[r].inFlight
    <2>2. UNCHANGED <<state, segments, nextSeg>>
      BY <1>1 DEF RtoCheck, endpoints, sending
    <2>3. r \in Roles /\ t \in Nat /\ mgr[r] \in Manager
      <3>1. TypeOK /\ x \in timers
        BY TileTypes DEF TilingInv
      <3> QED
        BY <1>type, <3>1, TimerType
    <2>4. late \in SUBSET Packet /\ late \subseteq {e.pkt : e \in E}
          /\ \A e \in E : e.pkt.src \in Roles /\ e.retries = 0 /\ NeedsAckTracking(e.pkt)
      <3>1. late \subseteq {e.pkt : e \in E}
        BY DEF TimedOutPackets, Expired
      <3>2. \A e \in E : e.pkt.src \in Roles /\ e.retries = 0 /\ NeedsAckTracking(e.pkt)
        BY <2>3, TileTypes DEF TilingInv, ConnInv, Packets
      <3> QED
        BY <2>3, <3>1, <3>2, TimedOutPacketsProperties
    <2>5. m \in Manager /\ m.inFlight = {e \in E : e.pkt.id \notin Ids(late)}
      <3>1. CheckTimeouts(mgr[r], t) \in Manager
        BY <2>3, CheckTimeoutsProperties
      <3> QED
        BY <2>3, <2>4, <3>1, CancelProperties, KeptByTimeouts
    <2>6. {q \in out : NeedsAckTracking(q)} = out
      <3>1. \A q \in out : \E p \in late : q.kind = p.kind
        BY <2>4 DEF Copies, Packet
      <3> HIDE DEF out, late
      <3> QED
        BY <2>4, <3>1 DEF NeedsAckTracking
    <2>7. Transmit(r, m, out, wire, armed, t)
      BY <2>1
    <2> HIDE DEF m, armed, late, out
    <2>8. /\ mgr'[r].inFlight = m.inFlight \cup Track({q \in out : NeedsAckTracking(q)}, t)
          /\ \A q \in Roles : q # r => mgr'[q] = mgr[q]
      BY <1>type, <2>3, <2>5, <2>7, TransmitFlight
    <2>9. CASE r = "client"
      <3>1. mgr'["client"].inFlight
              = {e \in E : e.pkt.id \notin Ids(late)} \cup Track(Copies(late), t)
        BY <2>5, <2>6, <2>8, <2>9 DEF out
      <3>2. Repeats
        BY <2>2, <2>4, <2>9, <3>1 DEF Repeats
      <3> QED
        BY <2>2, <3>2 DEF ClientStep
    <2>10. CASE r # "client"
      BY <1>type, <2>2, <2>8, <2>10, Untouched DEF ClientStep
    <2> QED
      BY <2>9, <2>10
  <1>2. CASE TimeWaitExpiry
    <2>1. PICK x \in timers :
            state' = IF state[x.role] = "TIME_WAIT"
                     THEN [state EXCEPT ![x.role] = "CLOSED"] ELSE state
      BY <1>2, Triggered DEF TimeWaitExpiry, Firing
    <2>2. UNCHANGED <<segments, nextSeg, mgr>>
      BY <1>2 DEF TimeWaitExpiry, sending
    <2>3. state'["client"] = "ESTABLISHED" => state["client"] = "ESTABLISHED"
      BY <1>type, <2>1
    <2> QED
      BY <2>2, <2>3, Untouched DEF ClientStep
  <1> QED
    BY <1>1, <1>2

LEMMA DeliverySteps ==
  ASSUME TilingInv,
         DeliverSyn \/ DeliverSynAck \/ DeliverAck \/ DeliverFin \/ DeliverData
  PROVE  ClientStep
  <1>type. /\ TypeInv /\ "client" \in Roles /\ "server" \in Roles
           /\ mgr \in [Roles -> Manager] /\ state \in [Roles -> States]
           /\ (\A q \in Roles : q = "client" \/ q = "server")
           /\ Peer("server") = "client" /\ Peer("client") = "server"
           /\ \A w \in wire : w.pkt \in Packet /\ w.pkt.src \in Roles /\ PacketOK(w.pkt)
           /\ \A q \in Roles : Peer(q) \in Roles
    BY TileTypes DEF TilingInv
  <1>inv. /\ state["client"] \in ClientStates /\ Numbers /\ StatePairs
          /\ \A w \in wire : AckFits(w.pkt)
    BY DEF TilingInv, ConnInv, Tiles
  <1>1. CASE DeliverSyn
    <2>1. PICK w, out :
            /\ w \in wire
            /\ state'["client"] = state["client"]
            /\ Transmit("server", mgr["server"], out, wire \ {w}, timers, w.due)
      BY <1>1, <1>type DEF DeliverSyn
    <2>2. UNCHANGED <<segments, nextSeg>>
      BY <1>1 DEF DeliverSyn, sending
    <2>3. mgr'["client"] = mgr["client"]
      <3> DEFINE onWire == wire \ {w}
                 t == w.due
                 m == mgr["server"]
      <3>1. Transmit("server", m, out, onWire, timers, t) /\ m \in Manager
        BY <1>type, <2>1
      <3> HIDE DEF onWire, t, m
      <3> QED
        BY <1>type, <3>1, TransmitFlight
    <2> QED
      BY <2>1, <2>2, <2>3, Untouched DEF ClientStep
  <1>2. CASE DeliverSynAck
    <2>1. PICK w, more :
            LET p == w.pkt
            IN  /\ w \in wire /\ p.kind = "SYN_ACK"
                /\ AckBookkeeping("client", p)
                /\ state' = IF state["client"] = "SYN_SENT"
                            THEN [state EXCEPT !["client"] = "ESTABLISHED"] ELSE state
                /\ \A q \in more : q.kind = "ACK"
                /\ Transmit("client", AckedManager("client", p),
                            AckedOutput("client", p) \cup more, wire \ {w}, timers, w.due)
      <3>1. PICK w \in wire :
              LET p == w.pkt
                  opening == state["client"] = "SYN_SENT"
                  next == IF opening THEN p.seq + 1 ELSE rcvNxt["client"]
                  reply == NewPacket(txCount + Cardinality(AckedOutput("client", p)), "ACK",
                                     sndNxt'["client"], next, 0, "client")
              IN  /\ p.kind = "SYN_ACK"
                  /\ AckBookkeeping("client", p)
                  /\ state' = IF opening THEN [state EXCEPT !["client"] = "ESTABLISHED"] ELSE state
                  /\ Transmit("client", AckedManager("client", p),
                              AckedOutput("client", p) \cup
                                (IF opening \/ state["client"] = "ESTABLISHED"
                                 THEN {reply} ELSE {}),
                              wire \ {w}, timers, w.due)
        BY <1>2, Triggered DEF DeliverSynAck, Delivering
      <3> DEFINE opening == state["client"] = "SYN_SENT"
                 next == IF opening THEN w.pkt.seq + 1 ELSE rcvNxt["client"]
                 reply == NewPacket(txCount + Cardinality(AckedOutput("client", w.pkt)), "ACK",
                                    sndNxt'["client"], next, 0, "client")
                 more == IF opening \/ state["client"] = "ESTABLISHED" THEN {reply} ELSE {}
      <3>2. \A q \in more : q.kind = "ACK"
        BY DEF NewPacket
      <3>3. Transmit("client", AckedManager("client", w.pkt),
                     AckedOutput("client", w.pkt) \cup more, wire \ {w}, timers, w.due)
        BY <3>1
      <3> HIDE DEF more
      <3> QED
        BY <3>1, <3>2, <3>3
    <2>2. UNCHANGED <<started, segments>>
      BY <1>2 DEF DeliverSynAck
    <2> DEFINE p == w.pkt
               t == w.due
               onWire == wire \ {w}
    <2>3. /\ p \in Packet /\ PacketOK(p) /\ AckFits(p) /\ p.ack # NoAck
          /\ Peer(p.src) = "client"
      <3>1. p.src = "server" /\ p.ack = InitialSeq["client"] + 1
        BY <1>type, <2>1 DEF PacketOK
      <3>2. InitialSeq["client"] \in Nat
        BY <1>type, SessionAssumption
      <3> QED
        BY <1>inv, <1>type, <2>1, <3>1, <3>2 DEF NoAck
    <2>4. Repeats \/ Sends
      <3>1. /\ AckBookkeeping("client", p) /\ \A q \in more : q.kind = "ACK"
            /\ Transmit("client", AckedManager("client", p),
                        AckedOutput("client", p) \cup more, onWire, timers, t)
        BY <2>1
      <3> HIDE DEF p, t, onWire
      <3> QED
        BY <2>2, <2>3, <3>1, AckFlight
    <2>5. state'["client"] = "ESTABLISHED"
            => state["client"] = "ESTABLISHED" \/ ~Opened("client")
      BY <1>type, <2>1 DEF Opened
    <2> QED
      BY <2>2, <2>4, <2>5 DEF ClientStep
  <1>3. CASE DeliverAck
    <2>1. PICK w \in wire :
            LET p == w.pkt
                r == Peer(p.src)
            IN  /\ p.kind = "ACK"
                /\ AckBookkeeping(r, p)
                /\ state' = IF CanApply(state[r], "RECV_ACK")
                            THEN [state EXCEPT ![r] = Apply(@, "RECV_ACK")] ELSE state
                /\ Transmit(r, AckedManager(r, p), AckedOutput(r, p), wire \ {w},
                            timers \cup (IF state[r] = "CLOSING"
                                         THEN {TimeWaitEvent(r, w.due + tcpConfig.timeWait)}
                                         ELSE {}),
                            w.due)
      BY <1>3 DEF DeliverAck, Delivering
    <2> DEFINE p == w.pkt
               r == Peer(p.src)
               m == AckedManager(r, p)
               out == AckedOutput(r, p)
               armed == timers \cup (IF state[r] = "CLOSING"
                                     THEN {TimeWaitEvent(r, w.due + tcpConfig.timeWait)} ELSE {})
               t == w.due
               onWire == wire \ {w}
    <2>2. segments' = segments
      BY <1>3 DEF DeliverAck
    <2>3. p \in Packet /\ PacketOK(p) /\ AckFits(p) /\ p.ack # NoAck /\ r \in Roles
      BY <1>inv, <1>type, <2>1 DEF PacketOK
    <2>4. Transmit(r, m, out, onWire, armed, t) /\ AckBookkeeping(r, p)
      BY <2>1
    <2>5. state'["client"] = "ESTABLISHED" => state["client"] = "ESTABLISHED"
      <3>1. state["client"] # "SYN_RECEIVED"
        BY <1>inv DEF ClientStates
      <3>2. CanApply(state["client"], "RECV_ACK") =>
              Apply(state["client"], "RECV_ACK") # "ESTABLISHED"
        BY <3>1, Triggered
      <3>3. state' = IF CanApply(state[r], "RECV_ACK")
                     THEN [state EXCEPT ![r] = Apply(@, "RECV_ACK")] ELSE state
        BY <2>1
      <3> HIDE DEF r
      <3> QED
        BY <1>type, <2>3, <3>2, <3>3
    <2>6. CASE r = "client"
      <3> DEFINE more == {}
      <3>1. \A q \in more : q.kind = "ACK"
        OBVIOUS
      <3>2. /\ Transmit("client", AckedManager("client", p), AckedOutput("client", p) \cup more,
                        onWire, armed, t)
            /\ AckBookkeeping("client", p) /\ Peer(p.src) = "client"
        <4>1. out \cup more = out
          OBVIOUS
        <4> HIDE DEF more, onWire, armed, t
        <4> QED
          BY <2>4, <2>6, <4>1
      <3> HIDE DEF more, onWire, armed, t, p, r
      <3> QED
        BY <2>2, <2>3, <2>5, <3>1, <3>2, AckFlight DEF ClientStep
    <2>7. CASE r # "client"
      <3>1. m \in Manager
        BY <1>type, <2>3, AckStepProperties DEF SendTypes
      <3>2. nextSeg' = nextSeg
        BY <2>4, <2>7 DEF AckBookkeeping, Resumes
      <3> HIDE DEF m, out, onWire, armed, t, r
      <3>3. mgr'["client"] = mgr["client"]
        BY <1>type, <2>3, <2>4, <2>7, <3>1, TransmitFlight
      <3> QED
        BY <2>2, <2>5, <3>2, <3>3, Untouched DEF ClientStep
    <2> QED
      BY <2>6, <2>7
  <1>4. CASE DeliverFin
    <2>1. PICK w, armed :
            LET p == w.pkt
                r == Peer(p.src)
                fin == NewPacket(txCount + 1, "FIN", sndNxt[r], NoAck, 0, r)
            IN  /\ w \in wire
                /\ state' = [state EXCEPT ![r] =
                               IF state[r] = "ESTABLISHED" THEN "LAST_ACK"
                               ELSE IF CanApply(@, "RECV_FIN") THEN Apply(@, "RECV_FIN") ELSE @]
                /\ Transmit(r, mgr[r],
                            {PureAck(r, p.seq + 1)}
                              \cup (IF state[r] = "ESTABLISHED" THEN {fin} ELSE {}),
                            wire \ {w}, armed, w.due)
      <3>1. PICK w \in wire :
              LET p == w.pkt
                  r == Peer(p.src)
                  moved == Apply(state[r], "RECV_FIN")
                  fin == NewPacket(txCount + 1, "FIN", sndNxt[r], NoAck, 0, r)
              IN  /\ state' = [state EXCEPT ![r] =
                                 IF state[r] = "ESTABLISHED" THEN Apply(moved, "APP_CLOSE")
                                 ELSE IF CanApply(@, "RECV_FIN") THEN moved ELSE @]
                  /\ Transmit(r, mgr[r],
                              {PureAck(r, p.seq + 1)}
                                \cup (IF state[r] = "ESTABLISHED" THEN {fin} ELSE {}),
                              wire \ {w},
                              timers \cup (IF state[r] = "FIN_WAIT_2"
                                           THEN {TimeWaitEvent(r, w.due + tcpConfig.timeWait)}
                                           ELSE {}),
                              w.due)
        BY <1>4 DEF DeliverFin
      <3> DEFINE r == Peer(w.pkt.src)
      <3>2. r \in Roles
        BY <1>type
      <3>3. state' = [state EXCEPT ![r] =
                       IF state[r] = "ESTABLISHED" THEN "LAST_ACK"
                       ELSE IF CanApply(@, "RECV_FIN") THEN Apply(@, "RECV_FIN") ELSE @]
        <4> HIDE DEF r
        <4>1. state' = [state EXCEPT ![r] =
                         IF state[r] = "ESTABLISHED"
                         THEN Apply(Apply(state[r], "RECV_FIN"), "APP_CLOSE")
                         ELSE IF CanApply(@, "RECV_FIN") THEN Apply(state[r], "RECV_FIN") ELSE @]
          BY <3>1 DEF r
        <4> QED
          BY <1>type, <3>2, <4>1, Triggered
      <3> QED
        BY <3>1, <3>3
    <2> DEFINE p == w.pkt
               r == Peer(p.src)
               out == {PureAck(r, p.seq + 1)}
                        \cup (IF state[r] = "ESTABLISHED"
                              THEN {NewPacket(txCount + 1, "FIN", sndNxt[r], NoAck, 0, r)} ELSE {})
               t == w.due
               onWire == wire \ {w}
               m == mgr[r]
    <2>2. UNCHANGED <<segments, nextSeg>>
      BY <1>4 DEF DeliverFin, sending
    <2>3. r \in Roles /\ m \in Manager /\ Transmit(r, m, out, onWire, armed, t)
      BY <1>type, <2>1
    <2>4. \A q \in out : q.kind # "DATA"
      BY DEF PureAck, NewPacket
    <2>5. /\ r = "client" => state'["client"] # "ESTABLISHED"
          /\ r # "client" => state'["client"] = state["client"]
      <3>1. CanApply(state["client"], "RECV_FIN") /\ state["client"] # "ESTABLISHED"
              => Apply(state["client"], "RECV_FIN") # "ESTABLISHED"
        BY Triggered
      <3>2. state' = [state EXCEPT ![r] =
                       IF state[r] = "ESTABLISHED" THEN "LAST_ACK"
                       ELSE IF CanApply(@, "RECV_FIN") THEN Apply(@, "RECV_FIN") ELSE @]
        BY <2>1
      <3> HIDE DEF r
      <3> QED
        BY <1>type, <2>3, <3>1, <3>2
    <2> HIDE DEF out, onWire, t
    <2>6. /\ mgr'[r].inFlight = m.inFlight \cup Track({q \in out : NeedsAckTracking(q)}, t)
          /\ \A q \in Roles : q # r => mgr'[q] = mgr[q]
      <3> HIDE DEF m, r
      <3> QED
        BY <1>type, <2>3, TransmitFlight
    <2>7. CASE r = "client"
      <3>1. \A e \in Track({q \in out : NeedsAckTracking(q)}, t) : e.pkt.kind # "DATA"
        BY <2>4, Tracked
      <3>2. Controls
        BY <2>5, <2>6, <2>7, <3>1 DEF Controls
      <3> QED
        BY <2>5, <2>7, <3>2 DEF ClientStep
    <2>8. CASE r # "client"
      <3>1. mgr'["client"] = mgr["client"]
        BY <1>type, <2>6, <2>8
      <3> QED
        BY <2>2, <2>5, <2>8, <3>1, Untouched DEF ClientStep
    <2> QED
      BY <2>7, <2>8
  <1>5. CASE DeliverData
    <2>1. PICK w \in wire :
            LET p == w.pkt
                r == Peer(p.src)
                next == IF InOrder(r, p) THEN rcvNxt[r] + p.len ELSE rcvNxt[r]
            IN  /\ p.kind = "DATA"
                /\ Transmit(r, mgr[r], {PureAck(r, next)}, wire \ {w}, timers, w.due)
      BY <1>5 DEF DeliverData, Delivering
    <2>2. UNCHANGED <<state, segments, nextSeg>>
      BY <1>5 DEF DeliverData, sending
    <2>3. Peer(w.pkt.src) = "server"
      BY <1>type, <2>1 DEF PacketOK
    <2>4. PICK out : Transmit("server", mgr["server"], out, wire \ {w}, timers, w.due)
      BY <2>1, <2>3
    <2>5. mgr'["client"] = mgr["client"]
      <3> DEFINE onWire == wire \ {w}
                 t == w.due
                 m == mgr["server"]
      <3>1. Transmit("server", m, out, onWire, timers, t) /\ m \in Manager
        BY <1>type, <2>4
      <3> HIDE DEF onWire, t, m
      <3> QED
        BY <1>type, <3>1, TransmitFlight
    <2> QED
      BY <2>2, <2>5, Untouched DEF ClientStep
  <1> QED
    BY <1>1, <1>2, <1>3, <1>4, <1>5

LEMMA StepIsClientStep == TilingInv /\ [Next]_vars => ClientStep
  <1> SUFFICES ASSUME TilingInv, [Next]_vars PROVE ClientStep
    OBVIOUS
  <1>1. CASE UpdateTcpConfig \/ UNCHANGED vars
    <2>1. UNCHANGED <<state, mgr, segments, nextSeg>>
      BY <1>1 DEF UpdateTcpConfig, vars, endpoints, network, sending
    <2> QED
      BY <2>1, Untouched DEF ClientStep
  <1> QED
    BY <1>1, CommandSteps, DeliverySteps, TimerSteps DEF Next, Command, ProcessNext

-----------------------------------------------------------------------------
(* What is left to send never waits for nothing.                            *)

\* Before the handshake is over there is no message.
StallInv ==
  /\ TilingInv
  /\ ~Opened("client") => segments = << >>
  /\ NoStall

\* As long as segments are left, the window is full - and never empty.
LEMMA MoreToSend ==
  ASSUME NEW m, NEW c, NEW segs, NEW next, SendTypes(m, c, segs, next),
         state["client"] = "ESTABLISHED", next + SendCount(m, c, segs, next) <= Len(segs)
  PROVE  m.inFlight # {} \/ DataPackets(m, c, segs, next) # {}
  <1> DEFINE n == SendCount(m, c, segs, next)
             size == Cardinality(m.inFlight)
  <1>1. /\ Window(c) \in Nat /\ Window(c) >= 1 /\ size \in Nat
        /\ Len(segs) \in Nat /\ next \in Nat
    BY WindowType, FS_CardinalityType DEF SendTypes
  <1>2. n = Room(m, c) /\ Room(m, c) = Larger(0, Window(c) - size)
    BY <1>1 DEF SendCount, Smaller, Room, Larger
  <1>3. CASE size = 0
    <2>1. n >= 1 /\ n \in Nat
      BY <1>1, <1>2, <1>3 DEF Larger
    <2>2. 0 \in 0 .. n - 1
      BY <2>1
    <2> QED
      BY <2>2 DEF DataPackets
  <1>4. CASE size # 0
    BY <1>4, FS_EmptySet
  <1> QED
    BY <1>3, <1>4

LEMMA StepNoStall ==
  ASSUME StallInv, ClientStep, TilingInv'
  PROVE  NoStall'
  <1> SUFFICES ASSUME state'["client"] = "ESTABLISHED", nextSeg' <= Len(segments')
               PROVE  mgr'["client"].inFlight # {}
    BY DEF NoStall
  <1>type. /\ nextSeg' \in 1 .. Len(segments') + 1 /\ Len(segments') \in Nat
           /\ TypeInv /\ TilingInv
    <2>1. TypeInv' /\ TilingInv /\ TypeInv
      BY DEF StallInv, TilingInv, ConnInv, TimerInv
    <2>2. segments' \in Seq(SegmentRecords) /\ nextSeg' \in 1 .. Len(segments') + 1
      BY <2>1 DEF TypeInv, TypeOK, SegmentRecords
    <2> QED
      BY <2>1, <2>2
  <1>1. state["client"] = "ESTABLISHED"
    <2>1. Len(segments') >= 1 /\ Len(<< >>) = 0
      BY <1>type
    <2>2. segments' # << >>
      <3> SUFFICES ASSUME segments' = << >> PROVE Len(segments') = 0
        BY <2>1
      <3> QED
        BY <2>1
    <2> QED
      BY <2>2 DEF ClientStep, StallInv
  <1>2. CASE Repeats
    <2> DEFINE E == mgr["client"].inFlight
    <2>1. PICK P, t :
            /\ P \in SUBSET Packet
            /\ mgr'["client"].inFlight
                 = {e \in E : e.pkt.id \notin Ids(P)} \cup Track(Copies(P), t)
            /\ UNCHANGED <<segments, nextSeg>>
      BY <1>2 DEF Repeats
    <2>2. PICK e \in E : TRUE
      BY <1>1, <2>1 DEF StallInv, NoStall
    <2>3. CASE P = {}
      BY <2>1, <2>2, <2>3 DEF Ids
    <2>4. CASE P # {}
      <3>1. P \in SUBSET Packet
        BY <2>1
      <3>2. Copies(P) # {}
        BY <2>4, <3>1 DEF Copies
      <3> QED
        BY <2>1, <3>2, Tracked
    <2> QED
      BY <2>3, <2>4
  <1>3. CASE Sends
    <2>1. PICK m, next, t :
            /\ m \in Manager
            /\ SendTypes(m, cong'["client"], segments', next)
            /\ mgr'["client"].inFlight
                 = m.inFlight \cup Track(DataPackets(m, cong'["client"], segments', next), t)
            /\ nextSeg' = next + SendCount(m, cong'["client"], segments', next)
      BY <1>3 DEF Sends
    <2> DEFINE c == cong'["client"]
               segs == segments'
    <2>2. SendTypes(m, c, segs, next) /\ next + SendCount(m, c, segs, next) <= Len(segs)
      BY <2>1
    <2>3. mgr'["client"].inFlight = m.inFlight \cup Track(DataPackets(m, c, segs, next), t)
      BY <2>1
    <2> HIDE DEF c, segs
    <2>4. m.inFlight # {} \/ DataPackets(m, c, segs, next) # {}
      BY <1>1, <2>2, MoreToSend
    <2> QED
      BY <2>3, <2>4, Tracked
  <1> QED
    BY <1>2, <1>3 DEF ClientStep, Controls

LEMMA StepStallInv == StallInv /\ [Next]_vars => StallInv'
  <1> SUFFICES ASSUME StallInv, [Next]_vars PROVE StallInv'
    OBVIOUS
  <1>1. TilingInv' /\ Forward /\ ClientStep
    BY StepTilingInv, StepConnInv, StepIsClientStep DEF StallInv, TilingInv
  <1>2. NoStall'
    BY <1>1, StepNoStall
  <1>3. segments' = segments \/ state["client"] = "ESTABLISHED"
    BY DEF Next, Command, ProcessNext, Start, SendMessage, Send, Close, UpdateTcpConfig,
           DeliverSyn, DeliverSynAck, DeliverAck, DeliverFin, DeliverData, RtoCheck,
           TimeWaitExpiry, vars, sending
  <1>4. state["client"] = "ESTABLISHED" => Opened("client")
    BY DEF StallInv, TilingInv, ConnInv, TimerInv, TypeInv, Opened, Roles
  <1>5. Opened("client") => Opened("client")'
    BY <1>1 DEF Forward, Roles
  <1>6. ~Opened("client")' => segments' = << >>
    BY <1>3, <1>4, <1>5 DEF StallInv
  <1> QED
    BY <1>1, <1>2, <1>6 DEF StallInv

\* While the client may send and has segments left, something of its is
\* outstanding, so that an ACK will come to resume sending: the window is
\* never empty, and what a check or a duplicate ACK cancels it resends
\* (session.py _try_send_more_data, _resend).
THEOREM StallInvariant == Spec => []NoStall
  <1>1. Init => StallInv
    <2>1. Init => segments = << >> /\ state["client"] = "CLOSED"
      BY DEF Init, Roles
    <2> QED
      BY <2>1, InitTilingInv DEF StallInv, NoStall
  <1>2. StallInv => NoStall
    BY DEF StallInv
  <1> QED
    BY <1>1, <1>2, StepStallInv, PTL DEF Spec

-----------------------------------------------------------------------------
(* The window is respected.                                                 *)

\* As many entries as packets, at most.
LEMMA TrackCount ==
  ASSUME NEW P, IsFiniteSet(P), NEW t
  PROVE  IsFiniteSet(Track(P, t)) /\ Cardinality(Track(P, t)) <= Cardinality(P)
  <1> DEFINE f == [p \in P |-> [pkt |-> p, deadline |-> t + ManagerConfig.rto, retries |-> 0]]
  <1>1. f \in Surjection(P, Track(P, t))
    BY DEF Surjection, Track
  <1> QED
    BY <1>1, FS_Surjection

\* No more is sent than there is room for.
LEMMA SentFits ==
  ASSUME txCount \in Nat, sndNxt["client"] \in Nat,
         NEW m, NEW c, NEW segs, NEW next, SendTypes(m, c, segs, next),
         Apart(segs), Abut(segs), DataPackets(m, c, segs, next) # {}, NEW t
  PROVE  Cardinality(m.inFlight \cup Track(DataPackets(m, c, segs, next), t)) <= Window(c)
  <1> DEFINE P == DataPackets(m, c, segs, next)
             F == Track(P, t)
             E == m.inFlight
             n == SendCount(m, c, segs, next)
  <1>1. IsFiniteSet(P) /\ Cardinality(P) = n
    BY DataTiles
  <1>2. Window(c) \in Nat /\ Len(segs) \in Nat /\ next \in 1 .. Len(segs) + 1 /\ IsFiniteSet(E)
    BY WindowType DEF SendTypes
  <1>3. P # {}
    OBVIOUS
  <1> HIDE DEF P, E
  <1>4. IsFiniteSet(F) /\ Cardinality(F) <= n
    BY <1>1, TrackCount
  <1>5. Cardinality(E \cup F) = Cardinality(E) + Cardinality(F) - Cardinality(E \cap F)
    BY <1>2, <1>4, FS_Union
  <1>6. /\ Cardinality(E) \in Nat /\ Cardinality(F) \in Nat /\ Cardinality(E \cap F) \in Nat
    BY <1>2, <1>4, FS_CardinalityType, FS_Intersection
  <1>7. n \in Nat /\ n # 0
    BY <1>1, <1>3, FS_CardinalityType, FS_EmptySet
  <1>8. n <= Larger(0, Window(c) - Cardinality(E))
    BY <1>2, <1>6, <1>7 DEF SendCount, Smaller, Room, Larger, E
  <1>9. n <= Window(c) - Cardinality(E)
    BY <1>2, <1>6, <1>7, <1>8 DEF Larger
  <1>10. Cardinality(E \cup F) <= Window(c)
    BY <1>2, <1>4, <1>5, <1>6, <1>7, <1>9
  <1> QED
    BY <1>10 DEF E, P

\* When a step sends new data, what is in flight after it fits the congestion
\* window as it is after it: the ACK that frees the room has already resized
\* the window (session.py _try_send_more_data, _process_ack_bookkeeping).
THEOREM WindowStep == Spec => WindowRespected
  <1>1. ASSUME TilingInv, TilingInv', ClientStep, NEW e \in mgr'["client"].inFlight,
               e.pkt.kind = "DATA", e.pkt.seq >= sndNxt["client"]
        PROVE  Cardinality(mgr'["client"].inFlight) <= Window(cong'["client"])
    <2> DEFINE E == mgr["client"].inFlight
    <2>1. sndNxt["client"] \in Nat /\ txCount \in Nat /\ \A x \in E : x.pkt \in Packet
      BY <1>1, TileTypes DEF TilingInv
    <2>2. \A x \in E : x.pkt.seq < SegmentEndSeq(x.pkt) /\ SegmentEndSeq(x.pkt) <= sndNxt["client"]
      BY <1>1 DEF TilingInv, Tiles, Tiled, Roles
    <2>3. \A x \in E : x.pkt.seq < sndNxt["client"]
      <3> SUFFICES ASSUME NEW x \in E PROVE x.pkt.seq < sndNxt["client"]
        OBVIOUS
      <3>1. x.pkt.seq \in Nat /\ SegmentEndSeq(x.pkt) \in Nat
        BY <2>1, ExtentType
      <3> QED
        BY <2>1, <2>2, <3>1
    <2>4. \A x \in E : ~(x.pkt.seq >= sndNxt["client"])
      <3> SUFFICES ASSUME NEW x \in E PROVE ~(x.pkt.seq >= sndNxt["client"])
        OBVIOUS
      <3>1. x.pkt.seq \in Nat
        BY <2>1, ExtentType
      <3> QED
        BY <2>1, <2>3, <3>1
    <2>5. e \notin E
      BY <1>1, <2>4
    <2>6. ~Repeats
      <3> SUFFICES ASSUME NEW P \in SUBSET Packet, NEW t, P \subseteq {x.pkt : x \in E},
                          e \in Track(Copies(P), t)
                   PROVE  FALSE
        BY <1>1, <2>5 DEF Repeats
      <3>1. e.pkt \in Copies(P)
        BY Tracked
      <3>2. PICK p \in P : e.pkt.seq = p.seq
        BY <3>1 DEF Copies, Packet
      <3>3. PICK x \in E : p = x.pkt
        OBVIOUS
      <3> QED
        BY <1>1, <2>4, <3>2, <3>3
    <2>7. ~Controls
      BY <1>1, <2>5 DEF Controls
    <2>8. Sends
      BY <1>1, <2>6, <2>7 DEF ClientStep
    <2>9. PICK m, next, t :
            /\ m \in Manager
            /\ SendTypes(m, cong'["client"], segments', next)
            /\ m.inFlight \subseteq E
            /\ mgr'["client"].inFlight
                 = m.inFlight \cup Track(DataPackets(m, cong'["client"], segments', next), t)
      BY <2>8 DEF Sends
    <2> DEFINE c == cong'["client"]
               segs == segments'
    <2>10. SendTypes(m, c, segs, next) /\ Apart(segs) /\ Abut(segs)
      <3>1. Apart(segments') /\ Abut(segments')
        BY <1>1 DEF TilingInv, ConnInv, Tiles, Apart, Abut
      <3> QED
        BY <2>9, <3>1
    <2>11. mgr'["client"].inFlight = m.inFlight \cup Track(DataPackets(m, c, segs, next), t)
      BY <2>9
    <2> HIDE DEF c, segs
    <2>12. DataPackets(m, c, segs, next) # {}
      <3>1. e \in Track(DataPackets(m, c, segs, next), t)
        BY <1>1, <2>5, <2>9, <2>11
      <3> QED
        BY <3>1, Tracked
    <2>13. Cardinality(m.inFlight \cup Track(DataPackets(m, c, segs, next), t)) <= Window(c)
      BY <2>1, <2>10, <2>12, SentFits
    <2> QED
      BY <2>11, <2>13 DEF c
  <1>2. TilingInv /\ [Next]_vars
          => [(\E e \in mgr'["client"].inFlight :
                 e.pkt.kind = "DATA" /\ e.pkt.seq >= sndNxt["client"])
              => Cardinality(mgr'["client"].inFlight) <= Window(cong'["client"])]_vars
    BY <1>1, StepTilingInv, StepIsClientStep
  <1> QED
    BY <1>2, InitTilingInv, StepTilingInv, PTL DEF Spec, WindowRespected

====
