------------------------------- MODULE SumProofs -------------------------------
(***************************************************************************)
(* What the sum of a number over a finite set is, as MapThenSumSet of the  *)
(* community modules computes it: it exists, and one more element adds its *)
(* own number.  The proofs are by least counterexample.                    *)
(***************************************************************************)
EXTENDS FiniteSetsExt, FiniteSetTheorems, WellFoundedInduction, TLAPS

\* A nonempty set of naturals has a least element: a claim that fails for some
\* natural fails for a least one.
LEMMA LeastNatural ==
  ASSUME NEW T \in SUBSET Nat, T # {}
  PROVE  \E n \in T : \A m \in T : n <= m
  <1> DEFINE R == OpToRel(<, Nat)
  <1>1. IsWellFoundedOn(R, Nat)
    BY NatLessThanWellFounded
  <1>2. \A m, n \in Nat : m < n => <<m, n>> \in R
    BY DEF OpToRel
  <1> HIDE DEF R
  <1>3. PICK n \in T : \A m \in T : ~ (<<m, n>> \in R)
    BY <1>1, WFMin
  <1>4. \A m \in T : ~ (m < n)
    BY <1>2, <1>3, Zenon
  <1> QED
    BY <1>4

\* The element that a sum over s takes first.
FirstOf(s) == CHOOSE x \in s : TRUE

\* It is one of them.
LEMMA FirstOfIn ==
  ASSUME NEW s, s # {}
  PROVE  FirstOf(s) \in s
  BY DEF FirstOf

\* f is the recursive function that sums w over the subsets of T.
Sums(f, T, w) ==
  f = [s \in SUBSET T |-> IF s = {} THEN 0 ELSE w[FirstOf(s)] + f[s \ {FirstOf(s)}]]

\* n is the sum of w over T.
IsSum(n, T, w) == \E f : Sums(f, T, w) /\ n = f[T]

\* A subset of a finite set, and what removing an element leaves of it.
LEMMA OneLess ==
  ASSUME NEW T, IsFiniteSet(T), NEW s \in SUBSET T, NEW x \in s
  PROVE  /\ IsFiniteSet(s) /\ Cardinality(s) \in Nat /\ Cardinality(s) > 0
         /\ s \ {x} \in SUBSET T /\ Cardinality(s \ {x}) = Cardinality(s) - 1
  <1>1. IsFiniteSet(s) /\ Cardinality(s) \in Nat
    BY FS_Subset, FS_CardinalityType
  <1>2. s # {}
    OBVIOUS
  <1>3. Cardinality(s) # 0
    BY <1>1, <1>2, FS_EmptySet
  <1>4. Cardinality(s \ {x}) = Cardinality(s) - 1
    BY <1>1, FS_RemoveElement
  <1> QED
    BY <1>1, <1>3, <1>4

\* The recursion defines a function on the subsets of a finite set, so that
\* CHOOSE finds one.
LEMMA SumsExist ==
  ASSUME NEW D, NEW w \in [D -> Nat], NEW T \in SUBSET D, IsFiniteSet(T)
  PROVE  \E f \in [SUBSET T -> Nat] : Sums(f, T, w)
  <1> DEFINE Body(f, s) == IF s = {} THEN 0 ELSE w[FirstOf(s)] + f[s \ {FirstOf(s)}]
             Upto(f, n) == \A s \in SUBSET T : Cardinality(s) <= n => f[s] = Body(f, s)
             bad == {n \in Nat : \A f \in [SUBSET T -> Nat] : ~Upto(f, n)}
  <1>1. \A s \in SUBSET T : /\ Cardinality(s) \in Nat
                            /\ s # {} => /\ FirstOf(s) \in s /\ s \ {FirstOf(s)} \in SUBSET T
                                         /\ Cardinality(s) > 0
                                         /\ Cardinality(s \ {FirstOf(s)}) = Cardinality(s) - 1
    BY FirstOfIn, OneLess, FS_Subset, FS_CardinalityType
  <1>2. ASSUME NEW f \in [SUBSET T -> Nat], NEW s \in SUBSET T
        PROVE  Body(f, s) \in Nat
    <2>1. CASE s = {}
      BY <2>1
    <2>2. CASE s # {}
      <3>1. FirstOf(s) \in D /\ s \ {FirstOf(s)} \in SUBSET T
        BY <1>1, <2>2
      <3> QED
        BY <2>2, <3>1
    <2> QED
      BY <2>1, <2>2
  <1>3. bad = {}
    <2> SUFFICES ASSUME bad # {} PROVE FALSE
      OBVIOUS
    <2>1. PICK n \in bad : \A m \in bad : n <= m
      BY LeastNatural
    <2>2. n \in Nat /\ \A f \in [SUBSET T -> Nat] : ~Upto(f, n)
      BY <2>1
    <2>3. CASE n = 0
      <3> DEFINE zero == [s \in SUBSET T |-> 0]
      <3>1. ASSUME NEW s \in SUBSET T, Cardinality(s) <= 0 PROVE s = {}
        <4>1. Cardinality(s) \in Nat /\ (s # {} => Cardinality(s) > 0)
          BY <1>1
        <4> QED
          BY <3>1, <4>1
      <3>2. zero \in [SUBSET T -> Nat]
        OBVIOUS
      <3>3. \A s \in SUBSET T : Cardinality(s) <= 0 => zero[s] = Body(zero, s)
        BY <3>1
      <3> HIDE DEF zero
      <3>4. Upto(zero, 0)
        BY <3>3
      <3> QED
        BY <2>2, <2>3, <3>2, <3>4
    <2>4. CASE n # 0
      <3>1. n - 1 \in Nat /\ n - 1 \notin bad
        <4> HIDE DEF bad
        <4> QED
          BY <2>1, <2>2, <2>4
      <3>2. PICK f \in [SUBSET T -> Nat] : Upto(f, n - 1)
        <4> HIDE DEF Upto
        <4> QED
          BY <3>1
      <3> DEFINE g == [s \in SUBSET T |-> Body(f, s)]
      <3>3. g \in [SUBSET T -> Nat]
        BY <1>2
      <3>4. ASSUME NEW s \in SUBSET T, Cardinality(s) <= n
            PROVE  g[s] = Body(g, s)
        <4>1. CASE s = {}
          BY <4>1
        <4>2. CASE s # {}
          <5> DEFINE t == s \ {FirstOf(s)}
          <5>1. t \in SUBSET T /\ Cardinality(t) <= n - 1
            <6>1. /\ Cardinality(s) \in Nat /\ s \ {FirstOf(s)} \in SUBSET T
                  /\ Cardinality(s \ {FirstOf(s)}) = Cardinality(s) - 1
              BY <1>1, <3>4, <4>2
            <6> QED
              BY <2>2, <3>4, <6>1
          <5>2. f[t] = Body(f, t)
            BY <3>2, <5>1
          <5>3. g[t] = Body(f, t) /\ g[s] = Body(f, s)
            BY <5>1
          <5> QED
            BY <4>2, <5>2, <5>3
        <4> QED
          BY <4>1, <4>2
      <3> HIDE DEF g
      <3>5. Upto(g, n)
        BY <3>4
      <3> QED
        BY <2>2, <3>3, <3>5
    <2> QED
      BY <2>3, <2>4
  <1>4. Cardinality(T) \in Nat /\ \A s \in SUBSET T : Cardinality(s) <= Cardinality(T)
    BY FS_Subset, FS_CardinalityType
  <1>5. PICK f \in [SUBSET T -> Nat] : Upto(f, Cardinality(T))
    BY <1>3, <1>4
  <1>6. \A s \in SUBSET T : f[s] = Body(f, s)
    BY <1>4, <1>5
  <1>7. f = [s \in SUBSET T |-> Body(f, s)]
    BY <1>6
  <1> QED
    BY <1>7 DEF Sums

\* Sums are naturals.
LEMMA SumsType ==
  ASSUME NEW D, NEW w \in [D -> Nat], NEW T \in SUBSET D, IsFiniteSet(T), NEW f, Sums(f, T, w)
  PROVE  \A s \in SUBSET T : f[s] \in Nat
  <1> DEFINE bad == {n \in Nat : \E s \in SUBSET T : Cardinality(s) = n /\ f[s] \notin Nat}
  <1>1. \A s \in SUBSET T : f[s] = IF s = {} THEN 0 ELSE w[FirstOf(s)] + f[s \ {FirstOf(s)}]
    BY DEF Sums
  <1>2. bad = {}
    <2> SUFFICES ASSUME bad # {} PROVE FALSE
      OBVIOUS
    <2>1. PICK n \in bad : \A m \in bad : n <= m
      BY LeastNatural
    <2>n. n \in Nat
      BY <2>1
    <2>2. PICK s \in SUBSET T : Cardinality(s) = n /\ f[s] \notin Nat
      BY <2>1
    <2>3. s # {} /\ FirstOf(s) \in s /\ f[s] = w[FirstOf(s)] + f[s \ {FirstOf(s)}]
      BY <1>1, <2>2, FirstOfIn
    <2> DEFINE t == s \ {FirstOf(s)}
    <2>4. t \in SUBSET T /\ Cardinality(t) = n - 1 /\ n - 1 \in Nat
      <3> HIDE DEF bad
      <3> QED
        BY <2>2, <2>n, <2>3, OneLess
    <2>5. f[t] \notin Nat
      <3>1. w[FirstOf(s)] \in Nat
        BY <2>3
      <3> QED
        BY <2>2, <2>3, <3>1
    <2>6. n - 1 \in bad
      BY <2>4, <2>5
    <2> HIDE DEF bad
    <2> QED
      BY <2>1, <2>n, <2>6
  <1> QED
    <2>1. \A s \in SUBSET T : Cardinality(s) \in Nat
      BY FS_Subset, FS_CardinalityType
    <2> QED
      BY <1>2, <2>1

\* The order in which the elements are taken makes no difference.
LEMMA SumsRemove ==
  ASSUME NEW D, NEW w \in [D -> Nat], NEW T \in SUBSET D, IsFiniteSet(T), NEW f, Sums(f, T, w),
         NEW u \in SUBSET T, NEW y \in u
  PROVE  f[u] = w[y] + f[u \ {y}]
  <1> DEFINE Fails(s, x) == f[s] # w[x] + f[s \ {x}]
             bad == {n \in Nat : \E s \in SUBSET T : \E x \in s : Cardinality(s) = n /\ Fails(s, x)}
  <1>1. \A s \in SUBSET T : f[s] = IF s = {} THEN 0 ELSE w[FirstOf(s)] + f[s \ {FirstOf(s)}]
    BY DEF Sums
  <1>2. bad = {}
    <2> SUFFICES ASSUME bad # {} PROVE FALSE
      OBVIOUS
    <2>1. PICK n \in bad : \A m \in bad : n <= m
      BY LeastNatural
    <2>n. n \in Nat
      BY <2>1
    <2>2. PICK s \in SUBSET T : Cardinality(s) = n /\ \E x \in s : Fails(s, x)
      BY <2>1
    <2>x. PICK x \in s : Fails(s, x)
      BY <2>2
    <2> DEFINE z == FirstOf(s)
               t == s \ {z}
               r == s \ {x}
    <2>3. s # {} /\ z \in s /\ f[s] = w[z] + f[t]
      BY <1>1, <2>2, FirstOfIn
    <2>4. x # z
      BY <2>x, <2>3
    <2>5. /\ t \in SUBSET T /\ Cardinality(t) = n - 1 /\ n - 1 \in Nat
          /\ r \in SUBSET T /\ Cardinality(r) = n - 1
      BY <2>2, <2>3, OneLess
    <2>6. x \in t /\ z \in r /\ t \ {x} = r \ {z} /\ t \ {x} \in SUBSET T
      BY <2>3, <2>4, <2>5
    <2>7. n - 1 \notin bad
      <3> HIDE DEF bad
      <3> QED
        BY <2>1, <2>n
    <2>8. ~Fails(t, x) /\ ~Fails(r, z)
      <3> HIDE DEF Fails, t, r, z
      <3> QED
        BY <2>5, <2>6, <2>7
    <2>9. f[t] = w[x] + f[t \ {x}] /\ f[r] = w[z] + f[t \ {x}]
      BY <2>6, <2>8
    <2>10. w[x] \in Nat /\ w[z] \in Nat /\ f[t \ {x}] \in Nat /\ f[t] \in Nat /\ f[r] \in Nat
      BY <2>3, <2>5, <2>6, SumsType
    <2>11. f[s] # w[x] + f[r]
      BY <2>x
    <2> HIDE DEF t, r, z
    <2> QED
      BY <2>3, <2>9, <2>10, <2>11
  <1> QED
    <2>1. Cardinality(u) \in Nat
      BY FS_Subset, FS_CardinalityType
    <2> QED
      BY <1>2, <2>1

\* The sum over a set does not depend on the set within which it is taken.
LEMMA SumsAgree ==
  ASSUME NEW D, NEW w \in [D -> Nat], NEW T \in SUBSET D, IsFiniteSet(T),
         NEW U \in SUBSET T, NEW f, NEW g, Sums(f, T, w), Sums(g, U, w),
         NEW u \in SUBSET U
  PROVE  f[u] = g[u]
  <1> DEFINE bad == {n \in Nat : \E s \in SUBSET U : Cardinality(s) = n /\ f[s] # g[s]}
  <1>1. /\ \A s \in SUBSET T : f[s] = IF s = {} THEN 0 ELSE w[FirstOf(s)] + f[s \ {FirstOf(s)}]
        /\ \A s \in SUBSET U : g[s] = IF s = {} THEN 0 ELSE w[FirstOf(s)] + g[s \ {FirstOf(s)}]
    BY DEF Sums
  <1>2. bad = {}
    <2> SUFFICES ASSUME bad # {} PROVE FALSE
      OBVIOUS
    <2>1. PICK n \in bad : \A m \in bad : n <= m
      BY LeastNatural
    <2>n. n \in Nat
      BY <2>1
    <2>2. PICK s \in SUBSET U : Cardinality(s) = n /\ f[s] # g[s]
      BY <2>1
    <2>3. s # {} /\ s \in SUBSET T /\ FirstOf(s) \in s
      BY <1>1, <2>2, FirstOfIn
    <2> DEFINE t == s \ {FirstOf(s)}
    <2>4. f[s] = w[FirstOf(s)] + f[t] /\ g[s] = w[FirstOf(s)] + g[t]
      BY <1>1, <2>2, <2>3
    <2>5. t \in SUBSET U /\ Cardinality(t) = n - 1 /\ n - 1 \in Nat
      BY <2>2, <2>3, OneLess
    <2>6. f[t] # g[t]
      BY <2>2, <2>4
    <2>7. n - 1 \in bad
      BY <2>5, <2>6
    <2> HIDE DEF bad
    <2> QED
      BY <2>1, <2>n, <2>7
  <1> QED
    <2>1. Cardinality(u) \in Nat
      BY FS_Subset, FS_CardinalityType
    <2> QED
      BY <1>2, <2>1

\* What a sum is: nothing over the empty set, ...
LEMMA SumIsNat ==
  ASSUME NEW D, NEW w \in [D -> Nat], NEW T \in SUBSET D, IsFiniteSet(T),
         NEW n, IsSum(n, T, w)
  PROVE  n \in Nat
  BY SumsType DEF IsSum

LEMMA SumOfNone ==
  ASSUME NEW w, NEW n, IsSum(n, {}, w)
  PROVE  n = 0
  BY DEF IsSum, Sums

\* ... and with one more element, its number more.
LEMMA SumOfMore ==
  ASSUME NEW D, NEW w \in [D -> Nat], NEW T \in SUBSET D, IsFiniteSet(T),
         NEW x \in D \ T, NEW n, IsSum(n, T, w), NEW m, IsSum(m, T \cup {x}, w)
  PROVE  m = n + w[x]
  <1> DEFINE U == T \cup {x}
  <1>1. U \in SUBSET D /\ IsFiniteSet(U) /\ T \in SUBSET U /\ x \in U /\ U \ {x} = T
    BY FS_AddElement
  <1>2. PICK f : Sums(f, U, w) /\ m = f[U]
    BY DEF IsSum
  <1>3. PICK g : Sums(g, T, w) /\ n = g[T]
    BY DEF IsSum
  <1> HIDE DEF U
  <1>4. f[U] = w[x] + f[T]
    BY <1>1, <1>2, SumsRemove
  <1>5. f[T] = g[T]
    BY <1>1, <1>2, <1>3, SumsAgree
  <1>6. w[x] \in Nat /\ g[T] \in Nat
    BY <1>1, <1>3, SumsType
  <1> QED
    BY <1>2, <1>3, <1>4, <1>5, <1>6

\* Every finite set has a sum.
LEMMA SumOfEach ==
  ASSUME NEW D, NEW w \in [D -> Nat], NEW T \in SUBSET D, IsFiniteSet(T)
  PROVE  \E n \in Nat : IsSum(n, T, w)
  <1>1. PICK f : Sums(f, T, w)
    BY SumsExist
  <1>2. f[T] \in Nat
    BY <1>1, SumsType
  <1> QED
    BY <1>1, <1>2 DEF IsSum

\* The sum over two sets that share nothing is the sum of their sums.
LEMMA SumOfBoth ==
  ASSUME NEW D, NEW w \in [D -> Nat], NEW T \in SUBSET D, IsFiniteSet(T),
         NEW U \in SUBSET D, IsFiniteSet(U), T \cap U = {},
         NEW t, IsSum(t, T, w), NEW u, IsSum(u, U, w), NEW m, IsSum(m, T \cup U, w)
  PROVE  m = t + u
  <1> DEFINE Fails(V) == \E v \in Nat, k \in Nat : /\ IsSum(v, V, w) /\ IsSum(k, T \cup V, w)
                                                  /\ k # t + v
             bad == {n \in Nat : \E V \in SUBSET U : Cardinality(V) = n /\ Fails(V)}
  <1>1. \A V \in SUBSET U : /\ V \in SUBSET D /\ IsFiniteSet(V)
                           /\ T \cup V \in SUBSET D /\ IsFiniteSet(T \cup V)
    BY FS_Subset, FS_Union
  <1>2. t \in Nat
    BY SumIsNat
  <1>3. bad = {}
    <2> SUFFICES ASSUME bad # {} PROVE FALSE
      OBVIOUS
    <2>1. PICK n \in bad : \A k \in bad : n <= k
      BY LeastNatural
    <2>n. n \in Nat
      BY <2>1
    <2>2. PICK V \in SUBSET U : Cardinality(V) = n /\ Fails(V)
      BY <2>1
    <2>3. PICK v \in Nat, k \in Nat : IsSum(v, V, w) /\ IsSum(k, T \cup V, w) /\ k # t + v
      BY <2>2
    <2>4. CASE V = {}
      <3>1. v = 0 /\ T \cup V = T
        BY <2>3, <2>4, SumOfNone
      <3>2. k = t
        <4>1. PICK f : Sums(f, T, w) /\ k = f[T]
          BY <2>3, <3>1 DEF IsSum
        <4>2. PICK g : Sums(g, T, w) /\ t = g[T]
          BY DEF IsSum
        <4>3. f[T] = g[T]
          BY <4>1, <4>2, SumsAgree
        <4> QED
          BY <4>1, <4>2, <4>3
      <3> QED
        BY <1>2, <2>3, <3>1, <3>2
    <2>5. CASE V # {}
      <3>1. PICK x \in V : TRUE
        BY <2>5
      <3> DEFINE W == V \ {x}
      <3>2. /\ W \in SUBSET U /\ Cardinality(W) = n - 1 /\ n - 1 \in Nat
        <4>1. /\ Cardinality(V) \in Nat /\ Cardinality(V) > 0
              /\ V \ {x} \in SUBSET V /\ Cardinality(V \ {x}) = Cardinality(V) - 1
          BY <1>1, <3>1, OneLess
        <4> QED
          BY <2>2, <4>1
      <3>3. /\ W \cup {x} = V /\ (T \cup W) \cup {x} = T \cup V
            /\ x \in D \ W /\ x \in D \ (T \cup W) /\ w[x] \in Nat
        BY <1>1, <2>2, <3>1
      <3> HIDE DEF W
      <3>4. PICK a \in Nat : IsSum(a, W, w)
        BY <1>1, <3>2, SumOfEach
      <3>5. PICK b \in Nat : IsSum(b, T \cup W, w)
        BY <1>1, <3>2, SumOfEach
      <3>6. v = a + w[x]
        BY <1>1, <2>3, <3>2, <3>3, <3>4, SumOfMore
      <3>7. k = b + w[x]
        BY <1>1, <2>3, <3>2, <3>3, <3>5, SumOfMore
      <3>8. b # t + a
        BY <1>2, <2>3, <3>3, <3>4, <3>5, <3>6, <3>7
      <3>9. n - 1 \in bad
        BY <3>2, <3>4, <3>5, <3>8
      <3> HIDE DEF bad
      <3> QED
        BY <2>1, <2>n, <3>2, <3>9
    <2> QED
      BY <2>4, <2>5
  <1> QED
    <2>1. Cardinality(U) \in Nat
      BY FS_CardinalityType
    <2>2. u \in Nat /\ m \in Nat
      BY <1>1, SumIsNat
    <2>3. ~Fails(U)
      BY <1>3, <2>1
    <2> QED
      BY <2>2, <2>3

\* Intervals of lengths w from at, that overlap none of each other and lie
\* within a .. b - 1, are together no longer than that.
LEMMA SumInside ==
  ASSUME NEW D, NEW w \in [D -> Nat], NEW at \in [D -> Nat], NEW T \in SUBSET D, IsFiniteSet(T),
         \A x \in T : w[x] > 0,
         \A x, y \in T : x # y => at[x] + w[x] <= at[y] \/ at[y] + w[y] <= at[x],
         NEW a \in Nat, NEW b \in Nat, a <= b,
         \A x \in T : a <= at[x] /\ at[x] + w[x] <= b,
         NEW n, IsSum(n, T, w)
  PROVE  n <= b - a
  <1> DEFINE Fails(U) == \E lo \in Nat, k \in Nat : /\ lo <= b /\ \A x \in U : lo <= at[x]
                                                   /\ IsSum(k, U, w) /\ ~(k <= b - lo)
             bad == {i \in Nat : \E U \in SUBSET T : Cardinality(U) = i /\ Fails(U)}
  <1>1. \A U \in SUBSET T : U \in SUBSET D /\ IsFiniteSet(U)
    BY FS_Subset
  <1>2. \A x \in T : at[x] \in Nat /\ w[x] \in Nat /\ w[x] > 0 /\ at[x] + w[x] <= b
    OBVIOUS
  <1>3. bad = {}
    <2> SUFFICES ASSUME bad # {} PROVE FALSE
      OBVIOUS
    <2>1. PICK i \in bad : \A k \in bad : i <= k
      BY LeastNatural
    <2>i. i \in Nat
      BY <2>1
    <2>2. PICK U \in SUBSET T : Cardinality(U) = i /\ Fails(U)
      BY <2>1
    <2>3. PICK lo \in Nat, k \in Nat : /\ lo <= b /\ \A x \in U : lo <= at[x]
                                      /\ IsSum(k, U, w) /\ ~(k <= b - lo)
      BY <2>2
    <2>4. CASE U = {}
      BY <2>3, <2>4, SumOfNone
    <2>5. CASE U # {}
      \* The first interval: the others start where it ends or later.
      <3>1. PICK l \in {at[x] : x \in U} : \A k2 \in {at[x] : x \in U} : l <= k2
        <4>1. {at[x] : x \in U} \in SUBSET Nat /\ {at[x] : x \in U} # {}
          BY <1>2, <2>5
        <4> QED
          BY <4>1, LeastNatural
      <3>2. PICK x \in U : l = at[x]
        BY <3>1
      <3>3. \A y \in U : at[x] <= at[y]
        BY <3>1, <3>2
      <3> DEFINE V == U \ {x}
                 up == at[x] + w[x]
      <3>4. /\ V \in SUBSET T /\ Cardinality(V) = i - 1 /\ i - 1 \in Nat
        <4>1. /\ Cardinality(U) \in Nat /\ Cardinality(U) > 0
              /\ U \ {x} \in SUBSET U /\ Cardinality(U \ {x}) = Cardinality(U) - 1
          BY <1>1, <3>2, OneLess
        <4> QED
          BY <2>2, <4>1
      <3>5. /\ up \in Nat /\ up <= b
            /\ \A y \in V : up <= at[y]
        <4>1. \A y \in V : y \in T /\ y # x /\ at[x] <= at[y]
          BY <3>3
        <4>2. x \in T
          BY <3>2
        <4> QED
          BY <1>2, <4>1, <4>2
      <3>6. V \cup {x} = U /\ x \in D \ V
        BY <3>2
      <3> HIDE DEF V
      <3>7. PICK c \in Nat : IsSum(c, V, w)
        BY <1>1, <3>4, SumOfEach
      <3>8. k = c + w[x]
        BY <1>1, <2>3, <3>4, <3>6, <3>7, SumOfMore
      <3>9. ~(c <= b - up)
        <4>1. lo <= at[x] /\ at[x] \in Nat /\ w[x] \in Nat
          BY <1>2, <2>3, <3>2
        <4> QED
          BY <2>3, <3>5, <3>7, <3>8, <4>1
      <3> HIDE DEF up
      <3>10. i - 1 \in bad
        BY <3>4, <3>5, <3>7, <3>9
      <3> HIDE DEF bad
      <3> QED
        BY <2>1, <2>i, <3>4, <3>10
    <2> QED
      BY <2>4, <2>5
  <1> QED
    <2>1. Cardinality(T) \in Nat
      BY FS_CardinalityType
    <2>2. n \in Nat
      BY SumIsNat
    <2>3. ~Fails(T)
      BY <1>3, <2>1
    <2> QED
      BY <2>2, <2>3

=============================================================================
