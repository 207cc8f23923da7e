--------------------------- MODULE CacheOpsProofs ---------------------------
(***************************************************************************)
(* What the operators of CacheOps do to a cache: to its list, to the bytes *)
(* it holds, and, for the whole calls, to the set of its keys.             *)
(***************************************************************************)
EXTENDS CacheOps, TLAPS, FiniteSetTheorems, SequenceTheorems, WellFoundedInduction

-----------------------------------------------------------------------------
(* The list *)

\* Element by element, the list with a key in front of it.
LEMMA ConsElements ==
  ASSUME NEW S, NEW s \in Seq(S), NEW k \in S
  PROVE  /\ Cons(k, s) \in Seq(S)
         /\ Len(Cons(k, s)) = Len(s) + 1
         /\ \A j \in 1 .. Len(s) + 1 : Cons(k, s)[j] = IF j = 1 THEN k ELSE s[j - 1]
BY DEF Cons

\* A list with a key it did not hold put in front.
LEMMA ConsKeepsList ==
  ASSUME NEW S, NEW s \in Seq(S), NEW k \in S, IsInjective(s), k \notin Range(s)
  PROVE  /\ Cons(k, s) \in Seq(S)
         /\ IsInjective(Cons(k, s))
         /\ Range(Cons(k, s)) = Range(s) \cup {k}
<1> DEFINE t == Cons(k, s)
<1>1. /\ t \in Seq(S)
      /\ Len(t) = Len(s) + 1
      /\ \A j \in 1 .. Len(s) + 1 : t[j] = IF j = 1 THEN k ELSE s[j - 1]
  BY ConsElements
<1>2. DOMAIN t = 1 .. Len(s) + 1 /\ DOMAIN s = 1 .. Len(s) /\ Len(s) \in Nat
  BY <1>1, LenProperties
<1>3. \A i \in DOMAIN s : s[i] # k
  BY DEF Range
<1>4. IsInjective(t)
  <2> SUFFICES ASSUME NEW a \in DOMAIN t, NEW b \in DOMAIN t, t[a] = t[b]
               PROVE  a = b
    BY DEF IsInjective
  <2>1. CASE a = 1 \/ b = 1
    BY <2>1, <1>1, <1>2, <1>3
  <2>2. CASE a # 1 /\ b # 1
    <3>1. a \in 2 .. Len(s) + 1 /\ b \in 2 .. Len(s) + 1
      BY <2>2, <1>2
    <3>2. s[a - 1] = s[b - 1] /\ a - 1 \in DOMAIN s /\ b - 1 \in DOMAIN s
      BY <2>2, <3>1, <1>1, <1>2
    <3>3. a - 1 = b - 1
      BY <3>2 DEF IsInjective
    <3> QED BY <3>1, <3>3, <1>2
  <2> QED BY <2>1, <2>2
<1>5. Range(t) = Range(s) \cup {k}
  <2>1. ASSUME NEW x \in Range(t) PROVE x \in Range(s) \cup {k}
    BY <1>1, <1>2 DEF Range
  <2>2. ASSUME NEW i \in DOMAIN s PROVE s[i] \in Range(t)
    <3>1. i + 1 \in DOMAIN t /\ t[i + 1] = s[i]
      BY <1>1, <1>2
    <3> QED BY <3>1 DEF Range
  <2>3. k \in Range(t)
    <3>1. 1 \in DOMAIN t /\ t[1] = k
      BY <1>1, <1>2
    <3> QED BY <3>1 DEF Range
  <2> QED BY <2>1, <2>2, <2>3 DEF Range
<1> QED BY <1>1, <1>4, <1>5

\* Element by element, the list without the first element that holds k.
LEMMA ListRemoveElements ==
  ASSUME NEW S, NEW s \in Seq(S), NEW k \in Range(s)
  PROVE  /\ IndexOf(s, k) \in 1 .. Len(s) /\ s[IndexOf(s, k)] = k
         /\ ListRemove(s, k) \in Seq(S)
         /\ Len(ListRemove(s, k)) = Len(s) - 1
         /\ \A j \in 1 .. Len(s) - 1 :
              ListRemove(s, k)[j] = IF j < IndexOf(s, k) THEN s[j] ELSE s[j + 1]
<1> DEFINE i == IndexOf(s, k)
           t == ListRemove(s, k)
<1>1. i \in 1 .. Len(s) /\ s[i] = k /\ Len(s) \in Nat /\ DOMAIN s = 1 .. Len(s)
  BY LenProperties DEF IndexOf, Range
<1> HIDE DEF i
<1> DEFINE u == SubSeq(s, 1, i - 1)
           v == SubSeq(s, i + 1, Len(s))
<1>2. /\ u \in Seq(S) /\ Len(u) = i - 1
      /\ \A j \in 1 .. i - 1 : u[j] = s[j]
  BY <1>1
<1>3. /\ v \in Seq(S) /\ Len(v) = Len(s) - i
      /\ \A j \in 1 .. Len(s) - i : v[j] = s[j + i]
  <2>1. \A j \in i + 1 .. Len(s) : s[j] \in S
    BY <1>1
  <2>2. /\ v \in Seq(S)
        /\ Len(v) = IF i + 1 <= Len(s) THEN Len(s) - (i + 1) + 1 ELSE 0
        /\ \A j \in 1 .. Len(s) - (i + 1) + 1 : v[j] = s[(i + 1) + j - 1]
    BY <2>1, <1>1, SubSeqProperties
  <2> HIDE DEF u, v, t
  <2>3. Len(v) = Len(s) - i
    <3>1. Len(v) = IF i + 1 <= Len(s) THEN Len(s) - (i + 1) + 1 ELSE 0
      BY <2>2
    <3>2. i \in Int /\ Len(s) \in Int /\ i <= Len(s)
      BY <1>1
    <3> QED BY <3>1, <3>2
  <2>4. ASSUME NEW j \in 1 .. Len(s) - i PROVE v[j] = s[j + i]
    <3>1. j \in 1 .. Len(s) - (i + 1) + 1 /\ (i + 1) + j - 1 = j + i
      BY <1>1
    <3> QED BY <3>1, <2>2
  <2> QED BY <2>2, <2>3, <2>4
<1>4. t = u \o v
  BY DEF ListRemove, RemoveAt, i
<1> HIDE DEF u, v, t
<1>5. /\ t \in Seq(S) /\ Len(t) = Len(s) - 1
  <2>1. /\ t \in Seq(S) /\ Len(t) = Len(u) + Len(v)
    BY <1>2, <1>3, <1>4, ConcatProperties
  <2> QED BY <2>1, <1>2, <1>3, <1>1
<1>6. ASSUME NEW j \in 1 .. Len(s) - 1
      PROVE  t[j] = IF j < i THEN s[j] ELSE s[j + 1]
  <2>1. t[j] = IF j <= Len(u) THEN u[j] ELSE v[j - Len(u)]
    BY <1>2, <1>3, <1>4, <1>1
  <2> QED BY <2>1, <1>2, <1>3, <1>1
<1> QED BY <1>1, <1>5, <1>6 DEF i, t

\* container/list.Remove of the one element that holds k
LEMMA ListRemoveKeepsList ==
  ASSUME NEW S, NEW s \in Seq(S), NEW k \in Range(s), IsInjective(s)
  PROVE  /\ ListRemove(s, k) \in Seq(S)
         /\ IsInjective(ListRemove(s, k))
         /\ Range(ListRemove(s, k)) = Range(s) \ {k}
<1> DEFINE i == IndexOf(s, k)
           t == ListRemove(s, k)
<1>1. i \in 1 .. Len(s) /\ s[i] = k /\ Len(s) \in Nat /\ DOMAIN s = 1 .. Len(s)
  BY ListRemoveElements, LenProperties
<1>2. /\ t \in Seq(S)
      /\ Len(t) = Len(s) - 1
      /\ \A j \in 1 .. Len(s) - 1 : t[j] = IF j < i THEN s[j] ELSE s[j + 1]
  BY ListRemoveElements
<1> HIDE DEF i, t
<1>3. DOMAIN t = 1 .. Len(s) - 1
  BY <1>1, <1>2, LenProperties
<1>4. \A a, b \in 1 .. Len(s) : s[a] = s[b] => a = b
  BY <1>1 DEF IsInjective
<1>5. IsInjective(t)
  BY <1>1, <1>2, <1>3, <1>4 DEF IsInjective
<1>6. Range(t) = Range(s) \ {k}
  <2>1. ASSUME NEW j \in DOMAIN t PROVE t[j] \in Range(s) \ {k}
    <3>1. CASE j < i
      BY <3>1, <1>1, <1>2, <1>3, <1>4 DEF Range
    <3>2. CASE ~ (j < i)
      BY <3>2, <1>1, <1>2, <1>3, <1>4 DEF Range
    <3> QED BY <3>1, <3>2
  <2>2. ASSUME NEW j \in DOMAIN s, s[j] # k PROVE s[j] \in Range(t)
    <3>1. CASE j < i
      <4>1. j \in DOMAIN t /\ t[j] = s[j]
        BY <3>1, <1>1, <1>2, <1>3
      <4> QED BY <4>1 DEF Range
    <3>2. CASE ~ (j < i)
      <4>1. j - 1 \in DOMAIN t /\ t[j - 1] = s[j]
        BY <3>2, <2>2, <1>1, <1>2, <1>3
      <4> QED BY <4>1 DEF Range
    <3> QED BY <3>1, <3>2
  <2> QED BY <2>1, <2>2 DEF Range
<1> QED BY <1>2, <1>5, <1>6 DEF t

\* container/list.MoveToFront
LEMMA MoveToFrontKeepsList ==
  ASSUME NEW S, NEW s \in Seq(S), NEW k \in Range(s), IsInjective(s)
  PROVE  /\ MoveToFront(s, k) \in Seq(S)
         /\ IsInjective(MoveToFront(s, k))
         /\ Range(MoveToFront(s, k)) = Range(s)
<1>1. k \in S
  BY LenProperties DEF Range
<1>2. /\ ListRemove(s, k) \in Seq(S)
      /\ IsInjective(ListRemove(s, k))
      /\ Range(ListRemove(s, k)) = Range(s) \ {k}
  BY ListRemoveKeepsList
<1>3. k \notin Range(ListRemove(s, k))
  BY <1>2
<1>4. /\ Cons(k, ListRemove(s, k)) \in Seq(S)
      /\ IsInjective(Cons(k, ListRemove(s, k)))
      /\ Range(Cons(k, ListRemove(s, k))) = Range(ListRemove(s, k)) \cup {k}
  BY <1>1, <1>2, <1>3, ConsKeepsList
<1> QED BY <1>2, <1>4 DEF MoveToFront

\* The list without its back element
LEMMA FrontKeepsList ==
  ASSUME NEW S, NEW s \in Seq(S), s # << >>, IsInjective(s)
  PROVE  /\ Last(s) \in Range(s)
         /\ Front(s) \in Seq(S) /\ Len(Front(s)) = Len(s) - 1
         /\ IsInjective(Front(s))
         /\ Range(Front(s)) = Range(s) \ {Last(s)}
<1> DEFINE n == Len(s)
           t == Front(s)
<1>1. n \in Nat \ {0} /\ DOMAIN s = 1 .. n /\ Last(s) = s[n]
  BY EmptySeq, LenProperties DEF Last
<1>2. /\ t \in Seq(S) /\ Len(t) = n - 1 /\ DOMAIN t = 1 .. n - 1
      /\ \A j \in 1 .. n - 1 : t[j] = s[j]
  BY <1>1 DEF Front
<1> HIDE DEF n, t
<1>3. \A a, b \in 1 .. n : s[a] = s[b] => a = b
  BY <1>1 DEF IsInjective
<1>4. Last(s) \in Range(s)
  BY <1>1 DEF Range
<1>5. IsInjective(t)
  BY <1>1, <1>2, <1>3 DEF IsInjective
<1>6. Range(t) = Range(s) \ {s[n]}
  <2>1. ASSUME NEW j \in 1 .. n - 1 PROVE s[j] \in Range(t)
    BY <2>1, <1>2 DEF Range
  <2>2. ASSUME NEW j \in 1 .. n - 1 PROVE t[j] \in Range(s) \ {s[n]}
    BY <2>2, <1>1, <1>2, <1>3 DEF Range
  <2>3. \A j \in 1 .. n : j \in 1 .. n - 1 \/ j = n
    BY <1>1
  <2> QED BY <2>1, <2>2, <2>3, <1>1, <1>2 DEF Range
<1> QED BY <1>1, <1>2, <1>4, <1>5, <1>6 DEF t, n

-----------------------------------------------------------------------------
(* The bytes *)

\* The bytes of one entry
LEMMA SlotBytes ==
  ASSUME NEW k, NEW n \in Nat
  PROVE  IsFiniteSet({k} \X (1 .. n)) /\ Cardinality({k} \X (1 .. n)) = n
<1>1. IsFiniteSet({k}) /\ Cardinality({k}) = 1
  BY FS_Singleton
<1>2. IsFiniteSet(1 .. n) /\ Cardinality(1 .. n) = n
  BY FS_Interval
<1> HIDE DEF IsFiniteSet
<1>3. /\ IsFiniteSet({k} \X (1 .. n))
      /\ Cardinality({k} \X (1 .. n)) = Cardinality({k}) * Cardinality(1 .. n)
  BY <1>1, <1>2, FS_Product
<1> QED BY <1>1, <1>2, <1>3

\* An entry that leaves takes its bytes with it.
LEMMA BytesWithoutEntry ==
  ASSUME NEW c, NEW k \in CachedKeys(c), c.items[k].len \in Nat,
         IsFiniteSet(ResidentBytes(c)),
         NEW e, e.items = Restrict(c.items, CachedKeys(c) \ {k})
  PROVE  /\ IsFiniteSet(ResidentBytes(e))
         /\ Cardinality(ResidentBytes(e))
              = Cardinality(ResidentBytes(c)) - c.items[k].len
<1> DEFINE slot == {k} \X (1 .. c.items[k].len)
<1>1. IsFiniteSet(slot) /\ Cardinality(slot) = c.items[k].len
  BY SlotBytes
<1>2. /\ CachedKeys(e) = CachedKeys(c) \ {k}
      /\ \A x \in CachedKeys(e) : e.items[x] = c.items[x]
  BY DEF CachedKeys, Restrict
<1>3. ResidentBytes(e) = ResidentBytes(c) \ slot
  <2> DEFINE slotOf(x) == {x} \X (1 .. c.items[x].len)
  <2>1. ResidentBytes(c) = UNION {slotOf(x) : x \in CachedKeys(c)}
    BY DEF ResidentBytes
  <2>2. ResidentBytes(e) = UNION {slotOf(x) : x \in CachedKeys(c) \ {k}}
    BY <1>2 DEF ResidentBytes
  <2>3. \A x : x # k => slotOf(x) \cap slotOf(k) = {}
    OBVIOUS
  <2>4. slot = slotOf(k)
    OBVIOUS
  <2> HIDE DEF slotOf, slot
  <2> QED BY <2>1, <2>2, <2>3, <2>4
<1>4. ResidentBytes(c) \cap slot = slot
  BY DEF ResidentBytes
<1> HIDE DEF slot
<1>5. /\ IsFiniteSet(ResidentBytes(c) \ slot)
      /\ Cardinality(ResidentBytes(c) \ slot)
           = Cardinality(ResidentBytes(c)) - Cardinality(ResidentBytes(c) \cap slot)
  BY FS_Difference
<1> QED BY <1>1, <1>3, <1>4, <1>5

\* An entry that arrives, under a key that has none, brings its bytes.
LEMMA BytesWithEntry ==
  ASSUME NEW c, NEW k, k \notin CachedKeys(c), NEW d, d.len \in Nat,
         IsFiniteSet(ResidentBytes(c)),
         NEW e, CachedKeys(e) = CachedKeys(c) \cup {k}, e.items[k] = d,
         \A x \in CachedKeys(c) : e.items[x] = c.items[x]
  PROVE  /\ IsFiniteSet(ResidentBytes(e))
         /\ Cardinality(ResidentBytes(e)) = Cardinality(ResidentBytes(c)) + d.len
<1> DEFINE slot == {k} \X (1 .. d.len)
<1>1. IsFiniteSet(slot) /\ Cardinality(slot) = d.len
  BY SlotBytes
<1>3. ResidentBytes(e) = ResidentBytes(c) \cup slot
  BY DEF ResidentBytes
<1>4. ResidentBytes(c) \cap slot = {}
  BY DEF ResidentBytes
<1>5. Cardinality({}) = 0
  BY FS_EmptySet
<1>6. Cardinality(ResidentBytes(c)) \in Nat
  BY FS_CardinalityType
<1> HIDE DEF slot
<1>7. /\ IsFiniteSet(ResidentBytes(c) \cup slot)
      /\ Cardinality(ResidentBytes(c) \cup slot)
           = Cardinality(ResidentBytes(c)) + Cardinality(slot)
               - Cardinality(ResidentBytes(c) \cap slot)
  BY <1>1, FS_Union
<1>8. Cardinality(ResidentBytes(c) \cap slot) = 0
  BY <1>4, <1>5
<1>9. Cardinality(ResidentBytes(c) \cup slot) = Cardinality(ResidentBytes(c)) + d.len
  BY <1>1, <1>6, <1>7, <1>8
<1> QED BY <1>3, <1>7, <1>9

-----------------------------------------------------------------------------
(* The eviction loop *)

\* Every non-empty set of numbers has a least one: induction in the form in which
\* it needs no operator.
LEMMA LeastOf ==
  ASSUME NEW T, T \subseteq Nat, T # {}
  PROVE  \E n \in T : \A m \in T : n <= m
  <1> DEFINE R == OpToRel(<, Nat)
  <1>1. IsWellFoundedOn(R, Nat)
    BY NatLessThanWellFounded
  <1>2. \A x, y \in Nat : x < y => <<x, y>> \in R
    BY DEF OpToRel
  <1> HIDE DEF R
  <1>3. PICK n \in T : \A m \in T : ~ (<<m, n>> \in R)
    BY <1>1, WFMin
  <1>4. ASSUME NEW m \in T PROVE n <= m
    <2>1. n \in Nat /\ m \in Nat
      OBVIOUS
    <2>2. ~ (m < n)
      BY <1>2, <1>3, <2>1
    <2> QED BY <2>1, <2>2
  <1> QED BY <1>4

\* The recursive function is one: the numbers up to which no function satisfies its
\* equation would have a least one, and from there it could be continued.
LEMMA EvictionsDefined ==
  ASSUME NEW c, Len(c.order) \in Nat
  PROVE  Evictions(c) = [n \in 0 .. Len(c.order) |-> IF n = 0 THEN c ELSE Evicted(Evictions(c)[n - 1])]
  <1> DEFINE N == Len(c.order)
             P(g, k) == g = [n \in 0 .. k |-> IF n = 0 THEN c ELSE Evicted(g[n - 1])]
             T == {k \in 0 .. N : ~ \E g : P(g, k)}
  <1> HIDE DEF N
  <1>1. CASE T = {}
    <2>1. \E g : P(g, N)
      BY <1>1 DEF N
    <2>2. Evictions(c) = CHOOSE g : P(g, N)
      BY Zenon DEF Evictions, N
    <2>3. P(Evictions(c), N)
      BY <2>1, <2>2, Zenon
    <2> QED BY <2>3 DEF N
  <1>2. CASE T # {}
    <2>0. T \subseteq Nat
      BY DEF N
    <2>1. PICK k \in T : \A m \in T : k <= m
      BY <1>2, <2>0, LeastOf
    <2>2. k # 0
      <3> DEFINE g == [n \in 0 .. 0 |-> c]
      <3>1. P(g, 0)
        OBVIOUS
      <3> QED BY <3>1, Zenon
    <2>3. N \in Nat
      BY DEF N
    <2>4. k \in 0 .. N /\ ~ \E g : P(g, k)
      OBVIOUS
    <2>5. k - 1 \in 0 .. N /\ ~ (k <= k - 1)
      BY <2>2, <2>3, <2>4
    <2>6. \E g : P(g, k - 1)
      BY <2>1, <2>5
    <2> HIDE DEF P, T
    <2>7. PICK g : P(g, k - 1)
      BY <2>6
    <2> DEFINE h == [n \in 0 .. k |-> IF n < k THEN g[n] ELSE Evicted(g[k - 1])]
    <2>8. P(h, k)
      <3>1. ASSUME NEW n \in 0 .. k PROVE h[n] = IF n = 0 THEN c ELSE Evicted(h[n - 1])
        <4>0. g = [i \in 0 .. k - 1 |-> IF i = 0 THEN c ELSE Evicted(g[i - 1])]
          BY <2>7 DEF P
        <4>1. CASE n = 0
          BY <4>1, <4>0, <2>2, <2>3, <2>4
        <4>2. CASE n # 0 /\ n < k
          BY <4>2, <4>0, <2>2, <2>3, <2>4
        <4>3. CASE n = k
          BY <4>3, <2>2, <2>3, <2>4
        <4> QED BY <4>1, <4>2, <4>3, <2>3, <2>4
      <3> QED BY <3>1 DEF P
    <2> QED BY <2>4, <2>8
  <1> QED BY <1>1, <1>2

\* The caches of the loop, one from the other
LEMMA EvictionsStep ==
  ASSUME NEW c, Len(c.order) \in Nat
  PROVE  /\ Evictions(c)[0] = c
         /\ \A n \in 0 .. Len(c.order) - 1 : Evictions(c)[n + 1] = Evicted(Evictions(c)[n])
<1> DEFINE N == Len(c.order)
           after == Evictions(c)
<1>1. after = [n \in 0 .. N |-> IF n = 0 THEN c ELSE Evicted(after[n - 1])]
  BY EvictionsDefined
<1> HIDE DEF after, N
<1>2. \A n \in 0 .. N : after[n] = IF n = 0 THEN c ELSE Evicted(after[n - 1])
  BY <1>1
<1>3. N \in Nat
  BY DEF N
<1>4. after[0] = c
  BY <1>2, <1>3
<1>5. ASSUME NEW n \in 0 .. N - 1 PROVE after[n + 1] = Evicted(after[n])
  <2>1. n + 1 \in 0 .. N /\ n + 1 # 0 /\ (n + 1) - 1 = n
    BY <1>3
  <2> QED BY <1>2, <2>1
<1> QED BY <1>4, <1>5 DEF after, N

\* The loop ends at the first cache with room.
LEMMA FirstWithRoom ==
  ASSUME NEW c, Len(c.order) \in Nat, NEW d, NEW capacity,
         NEW n \in 0 .. Len(c.order), HasRoom(Evictions(c)[n], d, capacity),
         \A i \in 0 .. n - 1 : ~ HasRoom(Evictions(c)[i], d, capacity)
  PROVE  RoomMade(c, d, capacity) = Evictions(c)[n]
<1> DEFINE after == Evictions(c)
           T == {i \in DOMAIN after : HasRoom(after[i], d, capacity)}
<1>1. DOMAIN after = 0 .. Len(c.order)
  BY EvictionsDefined
<1> HIDE DEF after
<1>2. n \in T /\ T \subseteq Nat
  BY <1>1 DEF after
<1>3. ASSUME NEW i \in T PROVE n <= i
  <2>1. i \in Nat /\ n \in Nat /\ ~ (i \in 0 .. n - 1)
    BY <1>1 DEF after
  <2> QED BY <2>1
<1> HIDE DEF T
<1>4. Min(T) \in T /\ \A i \in T : Min(T) <= i
  BY <1>2, <1>3 DEF Min
<1>5. Min(T) = n
  <2>1. PICK m : m = Min(T)
    OBVIOUS
  <2>2. m \in Nat /\ n \in Nat /\ n <= m /\ m <= n
    BY <1>2, <1>3, <1>4, <2>1
  <2>3. m = n
    BY <2>2
  <2> QED BY <2>1, <2>3
<1>6. RoomMade(c, d, capacity) = after[Min(T)]
  BY DEF RoomMade, after, T
<1> QED BY <1>5, <1>6 DEF after

\* One after the other, the caches of the loop are well kept lists of ever fewer of
\* the same entries, the last with none.
LEMMA EvictionsKeepList ==
  ASSUME NEW S, NEW c, c.order \in Seq(S), CoherentCache(c)
  PROVE  \A n \in 0 .. Len(c.order) :
           /\ Evictions(c)[n].order \in Seq(S)
           /\ CoherentCache(Evictions(c)[n])
           /\ CachedKeys(Evictions(c)[n]) \subseteq CachedKeys(c)
           /\ \A x \in CachedKeys(Evictions(c)[n]) : Evictions(c)[n].items[x] = c.items[x]
           /\ Len(Evictions(c)[n].order) = Len(c.order) - n
<1> DEFINE N == Len(c.order)
           after == Evictions(c)
           P(n) == /\ after[n].order \in Seq(S)
                   /\ CoherentCache(after[n])
                   /\ CachedKeys(after[n]) \subseteq CachedKeys(c)
                   /\ \A x \in CachedKeys(after[n]) : after[n].items[x] = c.items[x]
                   /\ Len(after[n].order) = N - n
           T == {n \in 0 .. N : ~ P(n)}
<1>1. N \in Nat
  OBVIOUS
<1>2. after = [n \in 0 .. N |-> IF n = 0 THEN c ELSE Evicted(after[n - 1])]
  BY <1>1, EvictionsDefined
<1> HIDE DEF N, after
<1>3. after[0] = c
  BY <1>1, <1>2
<1>4. P(0)
  BY <1>1, <1>3 DEF N
<1>5. ASSUME NEW n \in 0 .. N, n # 0, P(n - 1) PROVE P(n)
  <2> DEFINE e == after[n - 1]
  <2>1. after[n] = Evicted(e)
    BY <1>1, <1>2, <1>5
  <2> HIDE DEF e
  <2>2. /\ e.order \in Seq(S) /\ CoherentCache(e)
        /\ CachedKeys(e) \subseteq CachedKeys(c)
        /\ \A x \in CachedKeys(e) : e.items[x] = c.items[x]
        /\ Len(e.order) = N - (n - 1)
    BY <1>5 DEF e
  <2>3. Len(e.order) > 0
    BY <1>1, <1>5, <2>2
  <2>4. e.order # << >>
    BY <2>3, EmptySeq
  <2> DEFINE k == Last(e.order)
  <2>5. /\ k \in Range(e.order)
        /\ Front(e.order) \in Seq(S) /\ Len(Front(e.order)) = Len(e.order) - 1
        /\ IsInjective(Front(e.order))
        /\ Range(Front(e.order)) = Range(e.order) \ {k}
    BY <2>2, <2>4, FrontKeepsList DEF CoherentCache
  <2>6. Len(Front(e.order)) = N - n
    BY <1>1, <1>5, <2>2, <2>5
  <2>7. /\ after[n].order = Front(e.order)
        /\ after[n].items = Restrict(e.items, CachedKeys(e) \ {k})
    BY <2>1, <2>4 DEF Evicted
  <2>8. /\ CachedKeys(after[n]) = CachedKeys(e) \ {k}
        /\ \A x \in CachedKeys(after[n]) : after[n].items[x] = e.items[x]
    BY <2>7 DEF CachedKeys, Restrict
  <2> HIDE DEF k
  <2> QED BY <2>2, <2>5, <2>6, <2>7, <2>8 DEF CoherentCache
<1> HIDE DEF P
<1>6. T = {}
  <2> SUFFICES ASSUME T # {} PROVE FALSE
    OBVIOUS
  <2>1. T \subseteq Nat
    BY <1>1
  <2>2. PICK n \in T : \A m \in T : n <= m
    BY <2>1, LeastOf
  <2>3. n \in 0 .. N /\ n # 0 /\ ~ P(n)
    BY <1>4
  <2>4. n - 1 \in 0 .. N /\ ~ (n <= n - 1)
    BY <1>1, <2>3
  <2>5. P(n - 1)
    BY <2>2, <2>4
  <2> QED BY <1>5, <2>3, <2>5
<1> QED BY <1>6 DEF P, N, after

\* The loop ends, at the latest with an empty list: it leaves one of these caches.
LEMMA RoomMadeKeepsList ==
  ASSUME NEW S, NEW c, c.order \in Seq(S), CoherentCache(c), NEW d, NEW capacity
  PROVE  /\ RoomMade(c, d, capacity).order \in Seq(S)
         /\ CoherentCache(RoomMade(c, d, capacity))
         /\ CachedKeys(RoomMade(c, d, capacity)) \subseteq CachedKeys(c)
         /\ \A x \in CachedKeys(RoomMade(c, d, capacity)) :
              RoomMade(c, d, capacity).items[x] = c.items[x]
<1> DEFINE N == Len(c.order)
           after == Evictions(c)
           T == {n \in DOMAIN after : HasRoom(after[n], d, capacity)}
<1>1. N \in Nat /\ DOMAIN after = 0 .. N
  BY EvictionsDefined
<1> HIDE DEF N, after
<1>2. \A n \in 0 .. N :
        /\ after[n].order \in Seq(S) /\ CoherentCache(after[n])
        /\ CachedKeys(after[n]) \subseteq CachedKeys(c)
        /\ \A x \in CachedKeys(after[n]) : after[n].items[x] = c.items[x]
        /\ Len(after[n].order) = N - n
  BY EvictionsKeepList DEF N, after
<1>3. N \in T
  <2>1. N \in 0 .. N /\ Len(after[N].order) = 0
    BY <1>1, <1>2
  <2>2. after[N].order = << >>
    BY <1>2, <2>1, EmptySeq
  <2> QED BY <1>1, <2>1, <2>2 DEF HasRoom
<1>4. T \subseteq 0 .. N /\ T \subseteq Nat
  BY <1>1
<1>5. \E n \in T : \A m \in T : n <= m
  BY <1>3, <1>4, LeastOf
<1>6. Min(T) \in 0 .. N
  <2> HIDE DEF T
  <2>1. Min(T) \in T
    BY <1>5 DEF Min
  <2> QED BY <2>1, <1>4
<1>7. RoomMade(c, d, capacity) = after[Min(T)]
  BY DEF RoomMade, after
<1> QED BY <1>2, <1>6, <1>7

-----------------------------------------------------------------------------
(* The whole calls *)

\* A cache whose keys are in S: map and list in step
KeptCache(c, S) ==
  /\ c = [items |-> c.items, order |-> c.order, used |-> c.used]
  /\ c.order \in Seq(S)
  /\ CoherentCache(c)

LEMMA EmptyIsKept ==
  ASSUME NEW S
  PROVE  KeptCache(EmptyCache, S) /\ CachedKeys(EmptyCache) = {}
<1>1. CachedKeys(EmptyCache) = {}
  BY DEF CachedKeys, EmptyCache
<1>2. CoherentCache(EmptyCache)
  BY <1>1, EmptySeq DEF CoherentCache, EmptyCache, IsInjective, Range
<1>3. EmptyCache = [items |-> EmptyCache.items, order |-> EmptyCache.order,
                    used |-> EmptyCache.used]
  BY DEF EmptyCache
<1>4. EmptyCache.order \in Seq(S)
  BY EmptySeq DEF EmptyCache
<1> QED BY <1>1, <1>2, <1>3, <1>4 DEF KeptCache

\* Cache.Get: the same entries
LEMMA GetKeeps ==
  ASSUME NEW S, NEW c, KeptCache(c, S), NEW k
  PROVE  KeptCache(CacheGet(c, k), S) /\ CacheGet(c, k).items = c.items
<1> DEFINE e == Touched(c, k)
<1>1. CASE k \in CachedKeys(c)
  <2>1. e = [items |-> c.items, order |-> MoveToFront(c.order, k), used |-> c.used]
    BY DEF KeptCache, Touched
  <2> HIDE DEF e
  <2>2. /\ e.items = c.items /\ e.order = MoveToFront(c.order, k)
        /\ e = [items |-> e.items, order |-> e.order, used |-> e.used]
    BY <2>1
  <2>3. CachedKeys(e) = CachedKeys(c)
    BY <2>2 DEF CachedKeys
  <2>4. /\ e.order \in Seq(S) /\ IsInjective(e.order) /\ Range(e.order) = Range(c.order)
    BY <1>1, <2>2, MoveToFrontKeepsList DEF KeptCache, CoherentCache
  <2> QED BY <1>1, <2>2, <2>3, <2>4 DEF KeptCache, CoherentCache, CacheGet, e
<1>2. CASE k \notin CachedKeys(c)
  BY <1>2 DEF CacheGet
<1> QED BY <1>1, <1>2

\* Cache.Put: the key comes in, no other does, and those that stay keep their data.
LEMMA PutKeeps ==
  ASSUME NEW S, NEW c, KeptCache(c, S), NEW k \in S, NEW d, NEW capacity
  PROVE  /\ KeptCache(CachePut(c, k, d, capacity), S)
         /\ CachedKeys(CachePut(c, k, d, capacity)) \subseteq CachedKeys(c) \cup {k}
         /\ k \in CachedKeys(CachePut(c, k, d, capacity))
         /\ CachePut(c, k, d, capacity).items[k] = d
         /\ \A x \in CachedKeys(CachePut(c, k, d, capacity)) \ {k} :
              CachePut(c, k, d, capacity).items[x] = c.items[x]
<1>1. CASE k \in CachedKeys(c)
  <2> DEFINE e == Replaced(c, k, d)
  <2>1. /\ e.items = [c.items EXCEPT ![k] = d] /\ e.order = MoveToFront(c.order, k)
        /\ e = [items |-> e.items, order |-> e.order, used |-> e.used]
    BY DEF Replaced
  <2> HIDE DEF e
  <2>2. /\ CachedKeys(e) = CachedKeys(c) /\ e.items[k] = d
        /\ \A x \in CachedKeys(e) \ {k} : e.items[x] = c.items[x]
    BY <1>1, <2>1 DEF CachedKeys
  <2>3. /\ e.order \in Seq(S) /\ IsInjective(e.order) /\ Range(e.order) = Range(c.order)
    BY <1>1, <2>1, MoveToFrontKeepsList DEF KeptCache, CoherentCache
  <2> QED BY <1>1, <2>1, <2>2, <2>3 DEF KeptCache, CoherentCache, CachePut, e
<1>2. CASE k \notin CachedKeys(c)
  <2> DEFINE r == RoomMade(c, d, capacity)
             e == Inserted(r, k, d)
  <2>1. /\ r.order \in Seq(S) /\ CoherentCache(r) /\ CachedKeys(r) \subseteq CachedKeys(c)
        /\ \A x \in CachedKeys(r) : r.items[x] = c.items[x]
    BY RoomMadeKeepsList DEF KeptCache
  <2> HIDE DEF r
  <2>2. /\ e.items = [x \in CachedKeys(r) \cup {k} |-> IF x = k THEN d ELSE r.items[x]]
        /\ e.order = Cons(k, r.order)
        /\ e = [items |-> e.items, order |-> e.order, used |-> e.used]
    BY DEF Inserted
  <2> HIDE DEF e
  <2>3. /\ CachedKeys(e) = CachedKeys(r) \cup {k} /\ e.items[k] = d
        /\ \A x \in CachedKeys(r) : x # k => e.items[x] = r.items[x]
    BY <2>2 DEF CachedKeys
  <2>4. k \notin Range(r.order)
    BY <1>2, <2>1 DEF CoherentCache
  <2>5. /\ e.order \in Seq(S) /\ IsInjective(e.order)
        /\ Range(e.order) = Range(r.order) \cup {k}
    BY <2>1, <2>2, <2>4, ConsKeepsList DEF CoherentCache
  <2> QED BY <1>2, <2>1, <2>2, <2>3, <2>5 DEF KeptCache, CoherentCache, CachePut, r, e
<1> QED BY <1>1, <1>2

\* Cache.Delete: the key goes, no other does, and they keep their data.
LEMMA DeleteKeeps ==
  ASSUME NEW S, NEW c, KeptCache(c, S), NEW k
  PROVE  /\ KeptCache(CacheDelete(c, k), S)
         /\ CachedKeys(CacheDelete(c, k)) = CachedKeys(c) \ {k}
         /\ \A x \in CachedKeys(CacheDelete(c, k)) : CacheDelete(c, k).items[x] = c.items[x]
<1> DEFINE e == Deleted(c, k)
<1>1. CASE k \in CachedKeys(c)
  <2>1. /\ e.items = Restrict(c.items, CachedKeys(c) \ {k})
        /\ e.order = ListRemove(c.order, k)
        /\ e = [items |-> e.items, order |-> e.order, used |-> e.used]
    BY DEF Deleted
  <2> HIDE DEF e
  <2>2. /\ CachedKeys(e) = CachedKeys(c) \ {k}
        /\ \A x \in CachedKeys(e) : e.items[x] = c.items[x]
    BY <2>1 DEF CachedKeys, Restrict
  <2>3. /\ e.order \in Seq(S) /\ IsInjective(e.order)
        /\ Range(e.order) = Range(c.order) \ {k}
    BY <1>1, <2>1, ListRemoveKeepsList DEF KeptCache, CoherentCache
  <2> QED BY <1>1, <2>1, <2>2, <2>3 DEF KeptCache, CoherentCache, CacheDelete, e
<1>2. CASE k \notin CachedKeys(c)
  BY <1>2 DEF CacheDelete
<1> QED BY <1>1, <1>2

-----------------------------------------------------------------------------
(* A cache that has room for all there can be *)

\* The running total is the number of bytes held.
Counted(c) ==
  /\ \A k \in CachedKeys(c) : c.items[k].len \in Nat
  /\ IsFiniteSet(ResidentBytes(c))
  /\ c.used = Cardinality(ResidentBytes(c))

LEMMA EmptyIsCounted == Counted(EmptyCache)
<1>1. CachedKeys(EmptyCache) = {} /\ EmptyCache.used = 0
  BY DEF CachedKeys, EmptyCache
<1>2. ResidentBytes(EmptyCache) = {}
  BY <1>1 DEF ResidentBytes
<1> QED BY <1>1, <1>2, FS_EmptySet DEF Counted

\* Where there is room, the loop does not run.
LEMMA RoomNotMade ==
  ASSUME NEW c, Len(c.order) \in Nat, NEW d, NEW capacity, HasRoom(c, d, capacity)
  PROVE  RoomMade(c, d, capacity) = c
<1> DEFINE N == Len(c.order)
           after == Evictions(c)
           T == {n \in DOMAIN after : HasRoom(after[n], d, capacity)}
<1>1. DOMAIN after = 0 .. N /\ N \in Nat
  BY EvictionsDefined
<1>2. after[0] = c
  <2>1. 0 \in 0 .. N
    BY <1>1
  <2> QED BY <2>1, EvictionsDefined
<1>3. RoomMade(c, d, capacity) = after[Min(T)]
  BY DEF RoomMade, after
<1> HIDE DEF after, N
<1>4. 0 \in T /\ T \subseteq Nat
  BY <1>1, <1>2
<1> HIDE DEF T
<1>5. Min(T) = 0
  <2>1. \E n \in T : \A m \in T : n <= m
    BY <1>4
  <2>2. Min(T) \in T /\ \A m \in T : Min(T) <= m
    BY <2>1 DEF Min
  <2>3. Min(T) <= 0 /\ Min(T) \in Nat
    BY <1>4, <2>2
  <2> QED BY <2>3
<1> QED BY <1>2, <1>3, <1>5

\* Get and Delete keep the count, and so does Put where there is room.
LEMMA GetCounts ==
  ASSUME NEW S, NEW c, KeptCache(c, S), Counted(c), NEW k
  PROVE  Counted(CacheGet(c, k))
<1> DEFINE e == CacheGet(c, k)
<1>1. e.items = c.items
  BY GetKeeps
<1>2. e.used = c.used
  BY DEF CacheGet, Touched, KeptCache
<1> HIDE DEF e
<1>3. CachedKeys(e) = CachedKeys(c) /\ ResidentBytes(e) = ResidentBytes(c)
  BY <1>1 DEF CachedKeys, ResidentBytes
<1> QED BY <1>1, <1>2, <1>3 DEF Counted, e

LEMMA DeleteCounts ==
  ASSUME NEW S, NEW c, KeptCache(c, S), Counted(c), NEW k
  PROVE  Counted(CacheDelete(c, k))
<1> DEFINE e == Deleted(c, k)
<1>1. CASE k \in CachedKeys(c)
  <2>1. /\ e.items = Restrict(c.items, CachedKeys(c) \ {k})
        /\ e.used = c.used - c.items[k].len
    BY DEF Deleted
  <2> HIDE DEF e
  <2>2. /\ IsFiniteSet(ResidentBytes(e))
        /\ Cardinality(ResidentBytes(e)) = Cardinality(ResidentBytes(c)) - c.items[k].len
    BY <1>1, <2>1, BytesWithoutEntry DEF Counted
  <2>3. /\ CachedKeys(e) = CachedKeys(c) \ {k}
        /\ \A x \in CachedKeys(e) : e.items[x] = c.items[x]
    BY <2>1 DEF CachedKeys, Restrict
  <2> QED BY <1>1, <2>1, <2>2, <2>3 DEF Counted, CacheDelete, e
<1>2. CASE k \notin CachedKeys(c)
  BY <1>2 DEF CacheDelete
<1> QED BY <1>1, <1>2

LEMMA PutCounts ==
  ASSUME NEW S, NEW c, KeptCache(c, S), Counted(c), NEW k \in S, NEW d, d.len \in Nat,
         NEW capacity, k \in CachedKeys(c) \/ HasRoom(c, d, capacity)
  PROVE  /\ Counted(CachePut(c, k, d, capacity))
         /\ CachedKeys(CachePut(c, k, d, capacity)) = CachedKeys(c) \cup {k}
<1>1. CASE k \in CachedKeys(c)
  <2> DEFINE e == Replaced(c, k, d)
             o == [items |-> Restrict(c.items, CachedKeys(c) \ {k})]
  <2>1. /\ e.items = [c.items EXCEPT ![k] = d]
        /\ e.used = c.used - c.items[k].len + d.len
    BY DEF Replaced
  <2>2. c.items[k].len \in Nat
    BY <1>1 DEF Counted
  <2>3. /\ IsFiniteSet(ResidentBytes(o))
        /\ Cardinality(ResidentBytes(o)) = Cardinality(ResidentBytes(c)) - c.items[k].len
    BY <1>1, <2>2, BytesWithoutEntry DEF Counted
  <2> HIDE DEF e
  <2>4. /\ CachedKeys(o) = CachedKeys(c) \ {k}
        /\ CachedKeys(e) = CachedKeys(o) \cup {k}
        /\ CachedKeys(e) = CachedKeys(c)
        /\ e.items[k] = d
        /\ \A x \in CachedKeys(o) : e.items[x] = o.items[x] /\ e.items[x] = c.items[x]
    BY <1>1, <2>1 DEF CachedKeys, Restrict
  <2> HIDE DEF o
  <2>5. /\ IsFiniteSet(ResidentBytes(e))
        /\ Cardinality(ResidentBytes(e)) = Cardinality(ResidentBytes(o)) + d.len
    BY <2>3, <2>4, BytesWithEntry
  <2>6. e.used = Cardinality(ResidentBytes(e))
    BY <2>1, <2>2, <2>3, <2>5, FS_CardinalityType DEF Counted
  <2>7. \A x \in CachedKeys(e) : e.items[x].len \in Nat
    BY <2>4 DEF Counted
  <2> QED BY <1>1, <2>4, <2>5, <2>6, <2>7 DEF Counted, CachePut, e
<1>2. CASE k \notin CachedKeys(c)
  <2> DEFINE e == Inserted(c, k, d)
  <2>1. Len(c.order) \in Nat
    BY LenProperties DEF KeptCache
  <2>2. CachePut(c, k, d, capacity) = e
    BY <1>2, <2>1, RoomNotMade DEF CachePut
  <2>3. /\ e.items = [x \in CachedKeys(c) \cup {k} |-> IF x = k THEN d ELSE c.items[x]]
        /\ e.used = c.used + d.len
    BY DEF Inserted
  <2> HIDE DEF e
  <2>4. /\ CachedKeys(e) = CachedKeys(c) \cup {k} /\ e.items[k] = d
        /\ \A x \in CachedKeys(c) : e.items[x] = c.items[x]
    BY <1>2, <2>3 DEF CachedKeys
  <2>5. /\ IsFiniteSet(ResidentBytes(e))
        /\ Cardinality(ResidentBytes(e)) = Cardinality(ResidentBytes(c)) + d.len
    BY <1>2, <2>4, BytesWithEntry DEF Counted
  <2> QED BY <2>2, <2>3, <2>4, <2>5 DEF Counted
<1> QED BY <1>1, <1>2

\* A cache with a capacity for the bytes of every key always has room for a new one.
LEMMA RoomForAll ==
  ASSUME NEW S, IsFiniteSet(S), NEW most \in Nat, NEW capacity \in Nat,
         Cardinality(S \X (1 .. most)) <= capacity,
         NEW c, Counted(c), CachedKeys(c) \subseteq S,
         \A x \in CachedKeys(c) : c.items[x].len <= most,
         NEW k \in S, k \notin CachedKeys(c), NEW d, d.len \in 0 .. most
  PROVE  HasRoom(c, d, capacity)
<1> DEFINE slot == {k} \X (1 .. d.len)
           all == S \X (1 .. most)
           held == ResidentBytes(c)
<1>0. d.len \in Nat
  OBVIOUS
<1>1. IsFiniteSet(slot) /\ Cardinality(slot) = d.len
  BY <1>0, SlotBytes
<1>2. IsFiniteSet(1 .. most)
  BY FS_Interval
<1>3. IsFiniteSet(all)
  BY <1>2, FS_Product
<1>4. held \cup slot \subseteq all
  <2>1. \A x \in CachedKeys(c) : {x} \X (1 .. c.items[x].len) \subseteq all
    BY DEF Counted
  <2>2. slot \subseteq all
    OBVIOUS
  <2> HIDE DEF all, slot
  <2> QED BY <2>1, <2>2 DEF ResidentBytes
<1>5. held \cap slot = {}
  BY DEF ResidentBytes
<1>6. IsFiniteSet(held) /\ c.used = Cardinality(held)
  BY DEF Counted
<1> HIDE DEF slot, all, held
<1>7. Cardinality(held \cup slot) = Cardinality(held) + Cardinality(slot) - Cardinality({})
  BY <1>1, <1>5, <1>6, FS_Union
<1>8. Cardinality(held \cup slot) <= Cardinality(all)
  BY <1>3, <1>4, FS_Subset
<1>9. Cardinality({}) = 0 /\ Cardinality(held) \in Nat /\ Cardinality(all) \in Nat
  BY <1>3, <1>6, FS_EmptySet, FS_CardinalityType
<1>10. c.used + d.len <= capacity
  BY <1>1, <1>6, <1>7, <1>8, <1>9 DEF all
<1> QED BY <1>10 DEF HasRoom
=============================================================================
