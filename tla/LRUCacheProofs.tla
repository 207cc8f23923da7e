--------------------------- MODULE LRUCacheProofs ---------------------------
(***************************************************************************)
(* Proofs, for every set of keys and data and every capacity, that the     *)
(* cache keeps its types, its map and list coherent and its byte count     *)
(* exact, that what Put inserts fits, and that the cache implements        *)
(* RecencyCache: its list is a faithful record of which key was used       *)
(* before which, and its running total evicts exactly when the bytes       *)
(* really held leave no room.  Then, with the histories of MCLRUCache: a   *)
(* Put adds up to one step, and each eviction takes the key used longest   *)
(* ago.                                                                    *)
(***************************************************************************)
EXTENDS MCLRUCache, CacheOpsProofs

-----------------------------------------------------------------------------
(* The methods *)

\* What the methods rely on and keep: types, coherence and exact accounting.
GoodCache(c) ==
  /\ c = [items |-> c.items, order |-> c.order, used |-> c.used]
  /\ CachedKeys(c) \subseteq Keys
  /\ c.items \in [CachedKeys(c) -> Data]
  /\ c.order \in Seq(Keys)
  /\ CoherentCache(c)
  /\ IsFiniteSet(ResidentBytes(c))
  /\ c.used = Cardinality(ResidentBytes(c))

\* NewCache and Clear
LEMMA EmptyIsGood == GoodCache(EmptyCache)
<1>1. CachedKeys(EmptyCache) = {}
  BY DEF CachedKeys, EmptyCache
<1>2. ResidentBytes(EmptyCache) = {}
  BY <1>1 DEF ResidentBytes
<1>3. CoherentCache(EmptyCache)
  BY <1>1, EmptySeq DEF CoherentCache, EmptyCache, IsInjective, Range
<1>4. IsFiniteSet({}) /\ Cardinality({}) = 0
  BY FS_EmptySet
<1>5. EmptyCache.items \in [{} -> Data] /\ EmptyCache.order \in Seq(Keys)
  BY EmptySeq DEF EmptyCache
<1>6. EmptyCache.used = 0
  BY DEF EmptyCache
<1>7. EmptyCache = [items |-> EmptyCache.items, order |-> EmptyCache.order,
                    used |-> EmptyCache.used]
  BY DEF EmptyCache
<1> QED BY <1>1, <1>2, <1>3, <1>4, <1>5, <1>6, <1>7 DEF GoodCache

\* Get of a cached key
LEMMA TouchedIsGood ==
  ASSUME NEW c, GoodCache(c), NEW k \in CachedKeys(c)
  PROVE  GoodCache(Touched(c, k))
<1> DEFINE e == Touched(c, k)
<1>1. e = [items |-> c.items, order |-> MoveToFront(c.order, k), used |-> c.used]
  BY DEF GoodCache, Touched
<1> HIDE DEF e
<1>2. e.items = c.items /\ e.order = MoveToFront(c.order, k) /\ e.used = c.used
  BY <1>1
<1>3. CachedKeys(e) = CachedKeys(c) /\ ResidentBytes(e) = ResidentBytes(c)
  BY <1>2 DEF CachedKeys, ResidentBytes
<1>4. /\ e.order \in Seq(Keys)
      /\ IsInjective(e.order)
      /\ Range(e.order) = Range(c.order)
  BY <1>2, MoveToFrontKeepsList DEF GoodCache, CoherentCache
<1>5. e = [items |-> e.items, order |-> e.order, used |-> e.used]
  BY <1>1, <1>2
<1> QED BY <1>2, <1>3, <1>4, <1>5 DEF GoodCache, CoherentCache, e

\* The update path of Put
LEMMA ReplacedIsGood ==
  ASSUME NEW c, GoodCache(c), NEW k \in CachedKeys(c), NEW d \in Data
  PROVE  GoodCache(Replaced(c, k, d))
<1> DEFINE e == Replaced(c, k, d)
           o == [items |-> Restrict(c.items, CachedKeys(c) \ {k})]
<1>1. e = [items |-> [c.items EXCEPT ![k] = d],
           order |-> MoveToFront(c.order, k),
           used  |-> c.used - c.items[k].len + d.len]
  BY DEF Replaced
<1> HIDE DEF e
<1>2. /\ e.items = [c.items EXCEPT ![k] = d]
      /\ e.order = MoveToFront(c.order, k)
      /\ e.used = c.used - c.items[k].len + d.len
      /\ e = [items |-> e.items, order |-> e.order, used |-> e.used]
  BY <1>1
<1>3. CachedKeys(e) = CachedKeys(c) /\ e.items \in [CachedKeys(c) -> Data]
  BY <1>2 DEF CachedKeys, GoodCache
<1>4. /\ e.order \in Seq(Keys)
      /\ IsInjective(e.order)
      /\ Range(e.order) = Range(c.order)
  BY <1>2, MoveToFrontKeepsList DEF GoodCache, CoherentCache
<1>5. c.items[k].len \in Nat /\ d.len \in Nat
  BY DataAssumption DEF GoodCache
<1>6. /\ IsFiniteSet(ResidentBytes(o))
      /\ Cardinality(ResidentBytes(o))
           = Cardinality(ResidentBytes(c)) - c.items[k].len
  BY <1>5, BytesWithoutEntry DEF GoodCache
<1>7. /\ CachedKeys(o) = CachedKeys(c) \ {k}
      /\ CachedKeys(e) = CachedKeys(o) \cup {k}
      /\ e.items[k] = d
      /\ \A x \in CachedKeys(o) : e.items[x] = o.items[x]
  BY <1>2 DEF CachedKeys, Restrict, GoodCache
<1> HIDE DEF o
<1>8. /\ IsFiniteSet(ResidentBytes(e))
      /\ Cardinality(ResidentBytes(e)) = Cardinality(ResidentBytes(o)) + d.len
  BY <1>5, <1>6, <1>7, BytesWithEntry
<1>9. e.used = Cardinality(ResidentBytes(e))
  BY <1>2, <1>5, <1>6, <1>8, FS_CardinalityType DEF GoodCache
<1> QED BY <1>2, <1>3, <1>4, <1>8, <1>9 DEF GoodCache, CoherentCache, e

\* Delete of a cached key
LEMMA DeletedIsGood ==
  ASSUME NEW c, GoodCache(c), NEW k \in CachedKeys(c)
  PROVE  GoodCache(Deleted(c, k))
<1> DEFINE e == Deleted(c, k)
<1>1. /\ e.items = Restrict(c.items, CachedKeys(c) \ {k})
      /\ e.order = ListRemove(c.order, k)
      /\ e.used = c.used - c.items[k].len
      /\ e = [items |-> e.items, order |-> e.order, used |-> e.used]
  BY DEF Deleted
<1> HIDE DEF e
<1>2. /\ CachedKeys(e) = CachedKeys(c) \ {k}
      /\ e.items \in [CachedKeys(e) -> Data]
  BY <1>1 DEF CachedKeys, Restrict, GoodCache
<1>3. /\ e.order \in Seq(Keys)
      /\ IsInjective(e.order)
      /\ Range(e.order) = Range(c.order) \ {k}
  BY <1>1, ListRemoveKeepsList DEF GoodCache, CoherentCache
<1>4. c.items[k].len \in Nat
  BY DataAssumption DEF GoodCache
<1>5. /\ IsFiniteSet(ResidentBytes(e))
      /\ Cardinality(ResidentBytes(e))
           = Cardinality(ResidentBytes(c)) - c.items[k].len
  BY <1>1, <1>4, BytesWithoutEntry DEF GoodCache
<1> QED BY <1>1, <1>2, <1>3, <1>5 DEF GoodCache, CoherentCache, e

\* evictOldest: it drops the back of the list as Delete drops any element.
LEMMA EvictedIsGood ==
  ASSUME NEW c, GoodCache(c), c.order # << >>
  PROVE  GoodCache(Evicted(c))
<1> DEFINE e == Evicted(c)
           k == Last(c.order)
<1>1. /\ e.items = Restrict(c.items, CachedKeys(c) \ {k})
      /\ e.order = Front(c.order)
      /\ e.used = c.used - c.items[k].len
      /\ e = [items |-> e.items, order |-> e.order, used |-> e.used]
  BY DEF Evicted
<1>2. /\ k \in CachedKeys(c)
      /\ e.order \in Seq(Keys)
      /\ IsInjective(e.order)
      /\ Range(e.order) = Range(c.order) \ {k}
  BY <1>1, FrontKeepsList DEF GoodCache, CoherentCache
<1> HIDE DEF e, k
<1>3. /\ CachedKeys(e) = CachedKeys(c) \ {k}
      /\ e.items \in [CachedKeys(e) -> Data]
  BY <1>1 DEF CachedKeys, Restrict, GoodCache
<1>4. c.items[k].len \in Nat
  BY <1>2, DataAssumption DEF GoodCache
<1>5. /\ IsFiniteSet(ResidentBytes(e))
      /\ Cardinality(ResidentBytes(e))
           = Cardinality(ResidentBytes(c)) - c.items[k].len
  BY <1>1, <1>2, <1>4, BytesWithoutEntry DEF GoodCache
<1> QED BY <1>1, <1>2, <1>3, <1>5 DEF GoodCache, CoherentCache, e

\* The insertion that ends Put of a new key
LEMMA InsertedIsGood ==
  ASSUME NEW c, GoodCache(c), NEW k \in Keys, k \notin CachedKeys(c), NEW d \in Data
  PROVE  GoodCache(Inserted(c, k, d))
<1> DEFINE e == Inserted(c, k, d)
<1>1. /\ e.items
           = [x \in CachedKeys(c) \cup {k} |-> IF x = k THEN d ELSE c.items[x]]
      /\ e.order = Cons(k, c.order)
      /\ e.used = c.used + d.len
      /\ e = [items |-> e.items, order |-> e.order, used |-> e.used]
  BY DEF Inserted
<1> HIDE DEF e
<1>2. /\ CachedKeys(e) = CachedKeys(c) \cup {k}
      /\ e.items \in [CachedKeys(e) -> Data]
      /\ e.items[k] = d
      /\ \A x \in CachedKeys(c) : e.items[x] = c.items[x]
  BY <1>1 DEF CachedKeys, GoodCache
<1>3. /\ e.order \in Seq(Keys)
      /\ IsInjective(e.order)
      /\ Range(e.order) = Range(c.order) \cup {k}
  BY <1>1, ConsKeepsList DEF GoodCache, CoherentCache
<1>4. d.len \in Nat
  BY DataAssumption
<1>5. /\ IsFiniteSet(ResidentBytes(e))
      /\ Cardinality(ResidentBytes(e)) = Cardinality(ResidentBytes(c)) + d.len
  BY <1>2, <1>4, BytesWithEntry DEF GoodCache
<1> QED BY <1>1, <1>2, <1>3, <1>5 DEF GoodCache, CoherentCache, e

-----------------------------------------------------------------------------
(* The state machine *)

\* The inductive invariant: its three parts need each other.  Accounting alone
\* is not inductive (what an eviction subtracts is right only if the evicted
\* list element has an entry in the map), and Cache.used stays a natural number
\* only because it counts bytes.
IInv ==
  /\ GoodCache(cache)
  /\ putting \subseteq Keys \X Data
  /\ \A p, q \in putting : p = q
  /\ \A p \in putting : p[1] \notin CachedKeys(cache)

\* The inductive invariant contains the three invariants that the runs check.
LEMMA IInvImplies == IInv => TypeOK /\ Coherent /\ Accounting
<1>1. IsFiniteSet(ResidentBytes(cache)) => Cardinality(ResidentBytes(cache)) \in Nat
  BY FS_CardinalityType
<1> QED BY <1>1 DEF IInv, TypeOK, Coherent, Accounting, GoodCache

\* NewCache establishes it.
LEMMA InitIInv == Init => IInv
  BY EmptyIsGood DEF Init, IInv

\* Every step of the cache keeps the inductive invariant.
LEMMA NextIInv == IInv /\ [Next]_vars => IInv'
<1> SUFFICES ASSUME IInv, [Next]_vars PROVE IInv'
  OBVIOUS
<1> USE DEF IInv
<1>1. ASSUME NEW k \in Keys, Get(k) PROVE IInv'
  BY <1>1, TouchedIsGood DEF Get, MutexFree
<1>2. ASSUME NEW k \in Keys, Delete(k) PROVE IInv'
  BY <1>2, DeletedIsGood DEF Delete, MutexFree
<1>3. ASSUME NEW k \in Keys, NEW d \in Data, PutExisting(k, d) PROVE IInv'
  BY <1>3, ReplacedIsGood DEF PutExisting, MutexFree
<1>4. ASSUME NEW k \in Keys, NEW d \in Data, PutNew(k, d) PROVE IInv'
  BY <1>4 DEF PutNew
<1>5. ASSUME EvictOldest PROVE IInv'
  <2>1. PICK p \in putting : /\ ~ HasRoom(cache, p[2], Capacity)
                             /\ cache' = Evicted(cache)
                             /\ UNCHANGED putting
    BY <1>5 DEF EvictOldest
  <2>2. cache.order # << >>
    BY <2>1 DEF HasRoom
  <2>3. GoodCache(cache')
    BY <2>1, <2>2, EvictedIsGood
  <2>4. CachedKeys(cache') \subseteq CachedKeys(cache)
    BY <2>1, <2>2 DEF Evicted, CachedKeys, Restrict
  <2> QED BY <2>1, <2>3, <2>4
<1>6. ASSUME PushNew PROVE IInv'
  <2>1. PICK p \in putting : /\ cache' = Inserted(cache, p[1], p[2])
                             /\ putting' = {}
    BY <1>6 DEF PushNew
  <2>2. p[1] \in Keys /\ p[2] \in Data /\ p[1] \notin CachedKeys(cache)
    OBVIOUS
  <2>3. GoodCache(cache')
    BY <2>1, <2>2, InsertedIsGood
  <2> QED BY <2>1, <2>3
<1>7. ASSUME Clear PROVE IInv'
  BY <1>7, EmptyIsGood DEF Clear, MutexFree
<1>8. ASSUME UNCHANGED vars PROVE IInv'
  BY <1>8 DEF vars
<1> QED BY <1>1, <1>2, <1>3, <1>4, <1>5, <1>6, <1>7, <1>8 DEF Next

\* cache.go: every method leaves a well-kept cache, and a Put in its loop holds the
\* mutex for a key that is in neither the map nor the list.
THEOREM InductiveInvariant == Spec => []IInv
<1>1. Init => IInv
  BY InitIInv
<1>2. IInv /\ [Next]_vars => IInv'
  BY NextIInv
<1> QED BY <1>1, <1>2, PTL DEF Spec

\* cache.go:10-21: every field of the cache keeps its type.
THEOREM TypeCorrect == Spec => []TypeOK
<1>1. IInv => TypeOK
  BY IInvImplies
<1> QED BY <1>1, InductiveInvariant, PTL

\* cache.go:46-102: the map and the list, updated in separate statements, hold
\* the same keys, each of them once.
THEOREM CacheIsCoherent == Spec => []Coherent
<1>1. IInv => Coherent
  BY IInvImplies
<1> QED BY <1>1, InductiveInvariant, PTL

\* cache.go:55-57,71,84,100,142: the running total is the number of bytes held.
THEOREM AccountingIsExact == Spec => []Accounting
<1>1. IInv => Accounting
  BY IInvImplies
<1> QED BY <1>1, InductiveInvariant, PTL

\* cache.go:62-71: what Put inserts either fits in the capacity, counted in
\* bytes really held, or is alone in the cache and larger than all of it.
THEOREM InsertedEntryFits == Spec => FitsAfterInsert
<1>1. IInv /\ IInv' /\ [Next]_vars => [InsertFits]_vars
  <2> SUFFICES ASSUME IInv, IInv', Next, putting # {}, putting' = {}
               PROVE  \/ Cardinality(ResidentBytes(cache')) <= Capacity
                      \/ \E k \in Keys : /\ cache'.order = <<k>>
                                         /\ cache'.items[k].len > Capacity
    BY DEF InsertFits, vars
  <2>1. PushNew
    BY DEF Next, Get, Delete, PutExisting, PutNew, EvictOldest, Clear, MutexFree
  <2>2. PICK p \in putting : /\ HasRoom(cache, p[2], Capacity)
                             /\ cache' = Inserted(cache, p[1], p[2])
    BY <2>1 DEF PushNew
  <2>3. p[1] \in Keys /\ p[2].len \in Nat
    BY DataAssumption DEF IInv
  <2>4. /\ cache'.used = cache.used + p[2].len
        /\ cache'.order = Cons(p[1], cache.order)
        /\ cache'.items[p[1]] = p[2]
    BY <2>2 DEF Inserted
  <2>5. cache'.used = Cardinality(ResidentBytes(cache')) /\ cache.used \in Nat
    BY FS_CardinalityType DEF IInv, GoodCache
  <2>6. CASE cache.used + p[2].len <= Capacity
    BY <2>4, <2>5, <2>6
  <2>7. CASE ~ (cache.used + p[2].len <= Capacity)
    <3>1. cache.order = << >>
      BY <2>2, <2>7 DEF HasRoom
    <3>2. cache'.order = <<p[1]>>
      BY <2>3, <2>4, <3>1 DEF Cons
    <3>3. cache.used = 0
      <4>1. CachedKeys(cache) = {}
        BY <3>1, EmptySeq DEF IInv, GoodCache, CoherentCache, Range
      <4>2. ResidentBytes(cache) = {}
        BY <4>1 DEF ResidentBytes
      <4> QED BY <4>2, FS_EmptySet DEF IInv, GoodCache
    <3>4. p[2].len > Capacity
      BY <2>3, <2>7, <3>3, CapacityAssumption
    <3> QED BY <2>3, <2>4, <3>2, <3>4
  <2> QED BY <2>6, <2>7
<1> QED BY <1>1, InductiveInvariant, PTL DEF Spec, FitsAfterInsert

-----------------------------------------------------------------------------
(* The order a list records *)

\* A pair is in OlderIn(s) when its first key is further back than its second.
LEMMA OlderMember ==
  ASSUME NEW S, NEW s \in Seq(S)
  PROVE  /\ \A e \in OlderIn(s) :
              \E i, j \in 1 .. Len(s) : i < j /\ e = <<s[j], s[i]>>
         /\ \A i, j \in 1 .. Len(s) : i < j => <<s[j], s[i]>> \in OlderIn(s)
<1>1. DOMAIN s = 1 .. Len(s)
  BY LenProperties
<1>2. ASSUME NEW e \in OlderIn(s)
      PROVE  \E i, j \in 1 .. Len(s) : i < j /\ e = <<s[j], s[i]>>
  <2>1. PICK f \in {f \in (DOMAIN s) \X (DOMAIN s) : f[1] < f[2]} :
               e = <<s[f[2]], s[f[1]]>>
    BY DEF OlderIn
  <2>2. f[1] \in 1 .. Len(s) /\ f[2] \in 1 .. Len(s) /\ f[1] < f[2]
    BY <2>1, <1>1
  <2> QED BY <2>1, <2>2
<1>3. ASSUME NEW i \in 1 .. Len(s), NEW j \in 1 .. Len(s), i < j
      PROVE  <<s[j], s[i]>> \in OlderIn(s)
  <2>1. <<i, j>> \in {f \in (DOMAIN s) \X (DOMAIN s) : f[1] < f[2]}
    BY <1>1, <1>3
  <2>2. <<i, j>>[1] = i /\ <<i, j>>[2] = j
    OBVIOUS
  <2> QED BY <2>1, <2>2 DEF OlderIn
<1> QED BY <1>2, <1>3

\* The keys a recorded pair names are in the list.
LEMMA OlderInRange ==
  ASSUME NEW S, NEW s \in Seq(S), NEW e \in OlderIn(s)
  PROVE  e = <<e[1], e[2]>> /\ e[1] \in Range(s) /\ e[2] \in Range(s)
<1>1. PICK i, j \in 1 .. Len(s) : i < j /\ e = <<s[j], s[i]>>
  BY OlderMember
<1>2. s[i] \in Range(s) /\ s[j] \in Range(s)
  BY LenProperties DEF Range
<1> QED BY <1>1, <1>2

\* An empty list records no order.
LEMMA NoOlderInEmpty == OlderIn(<< >>) = {}
<1>1. << >> \in Seq({}) /\ Len(<< >>) = 0
  BY EmptySeq
<1>2. ASSUME NEW e \in OlderIn(<< >>) PROVE FALSE
  <2>1. PICK i, j \in 1 .. Len(<< >>) : i < j
    BY <1>1, OlderMember
  <2> QED BY <2>1, <1>1
<1> QED BY <1>2

\* A key put in front becomes newer than all others.
LEMMA OlderOfCons ==
  ASSUME NEW S, NEW s \in Seq(S), NEW k \in S, k \notin Range(s)
  PROVE  OlderIn(Cons(k, s)) = OlderIn(s) \cup {<<x, k>> : x \in Range(s)}
<1> DEFINE t == Cons(k, s)
<1>1. /\ t \in Seq(S)
      /\ Len(t) = Len(s) + 1
      /\ \A j \in 1 .. Len(s) + 1 : t[j] = IF j = 1 THEN k ELSE s[j - 1]
  BY ConsElements
<1> HIDE DEF t
<1>2. Len(s) \in Nat /\ DOMAIN s = 1 .. Len(s)
  BY LenProperties
<1>3. ASSUME NEW e \in OlderIn(t)
      PROVE  e \in OlderIn(s) \cup {<<x, k>> : x \in Range(s)}
  <2>1. PICK i, j \in 1 .. Len(t) : i < j /\ e = <<t[j], t[i]>>
    BY <1>1, OlderMember
  <2>2. j - 1 \in 1 .. Len(s) /\ t[j] = s[j - 1]
    BY <2>1, <1>1, <1>2
  <2>3. CASE i = 1
    <3>1. t[i] = k /\ s[j - 1] \in Range(s)
      BY <2>2, <2>3, <1>1, <1>2 DEF Range
    <3> QED BY <3>1, <2>1, <2>2
  <2>4. CASE i # 1
    <3>1. i - 1 \in 1 .. Len(s) /\ t[i] = s[i - 1] /\ i - 1 < j - 1
      BY <2>1, <2>4, <1>1, <1>2
    <3>2. <<s[j - 1], s[i - 1]>> \in OlderIn(s)
      BY <3>1, <2>2, OlderMember
    <3> QED BY <3>1, <3>2, <2>1, <2>2
  <2> QED BY <2>3, <2>4
<1>4. ASSUME NEW e \in OlderIn(s) PROVE e \in OlderIn(t)
  <2>1. PICK i, j \in 1 .. Len(s) : i < j /\ e = <<s[j], s[i]>>
    BY OlderMember
  <2>2. /\ i + 1 \in 1 .. Len(t) /\ t[i + 1] = s[i]
        /\ j + 1 \in 1 .. Len(t) /\ t[j + 1] = s[j]
        /\ i + 1 < j + 1
    BY <2>1, <1>1, <1>2
  <2> QED BY <2>1, <2>2, <1>1, OlderMember
<1>5. ASSUME NEW x \in Range(s) PROVE <<x, k>> \in OlderIn(t)
  <2>1. PICK j \in 1 .. Len(s) : x = s[j]
    BY <1>2 DEF Range
  <2>2. /\ 1 \in 1 .. Len(t) /\ t[1] = k
        /\ j + 1 \in 1 .. Len(t) /\ t[j + 1] = x
        /\ 1 < j + 1
    BY <2>1, <1>1, <1>2
  <2> QED BY <2>2, <1>1, OlderMember
<1> QED BY <1>3, <1>4, <1>5 DEF t

\* A key taken out of the list takes its pairs with it and changes no other.
LEMMA OlderOfListRemove ==
  ASSUME NEW S, NEW s \in Seq(S), NEW k \in Range(s), IsInjective(s)
  PROVE  OlderIn(ListRemove(s, k)) = {e \in OlderIn(s) : k \notin {e[1], e[2]}}
<1> DEFINE p == IndexOf(s, k)
           t == ListRemove(s, k)
           old(i) == IF i < p THEN i ELSE i + 1
           new(i) == IF i < p THEN i ELSE i - 1
<1>1. /\ p \in 1 .. Len(s) /\ s[p] = k
      /\ t \in Seq(S)
      /\ Len(t) = Len(s) - 1
      /\ \A j \in 1 .. Len(s) - 1 : t[j] = IF j < p THEN s[j] ELSE s[j + 1]
  BY ListRemoveElements
<1> HIDE DEF t, p
<1>2. Len(s) \in Nat /\ DOMAIN s = 1 .. Len(s)
  BY LenProperties
<1>3. \A i \in 1 .. Len(s) : s[i] = k => i = p
  BY <1>1, <1>2 DEF IsInjective
<1>4. ASSUME NEW i \in 1 .. Len(t)
      PROVE  /\ old(i) \in 1 .. Len(s) /\ old(i) # p
             /\ t[i] = s[old(i)] /\ s[old(i)] # k
  BY <1>1, <1>2, <1>3
<1>5. ASSUME NEW i \in 1 .. Len(s), i # p
      PROVE  new(i) \in 1 .. Len(t) /\ t[new(i)] = s[i]
  BY <1>1, <1>2, <1>5
<1>6. ASSUME NEW e \in OlderIn(t)
      PROVE  e \in OlderIn(s) /\ k \notin {e[1], e[2]}
  <2>1. PICK i, j \in 1 .. Len(t) : i < j /\ e = <<t[j], t[i]>>
    BY <1>1, OlderMember
  <2>2. old(i) < old(j)
    BY <2>1, <1>1, <1>2
  <2>3. <<s[old(j)], s[old(i)]>> \in OlderIn(s)
    BY <2>2, <1>4, OlderMember
  <2> QED BY <2>1, <2>3, <1>4
<1>7. ASSUME NEW e \in OlderIn(s), k \notin {e[1], e[2]}
      PROVE  e \in OlderIn(t)
  <2>1. PICK i, j \in 1 .. Len(s) : i < j /\ e = <<s[j], s[i]>>
    BY OlderMember
  <2>2. i # p /\ j # p
    BY <2>1, <1>1, <1>7
  <2>3. new(i) < new(j)
    BY <2>1, <2>2, <1>1, <1>2
  <2>4. <<t[new(j)], t[new(i)]>> \in OlderIn(t)
    BY <2>2, <2>3, <1>1, <1>5, OlderMember
  <2> QED BY <2>1, <2>2, <2>4, <1>5
<1> QED BY <1>6, <1>7 DEF t

\* MoveToFront makes its key newer than all others and changes no other pair.
LEMMA OlderOfMoveToFront ==
  ASSUME NEW S, NEW s \in Seq(S), NEW k \in Range(s), IsInjective(s)
  PROVE  OlderIn(MoveToFront(s, k)) =
           {e \in OlderIn(s) : k \notin {e[1], e[2]}}
             \cup {<<x, k>> : x \in Range(s) \ {k}}
<1> DEFINE t == ListRemove(s, k)
<1>1. t \in Seq(S) /\ Range(t) = Range(s) \ {k}
  BY ListRemoveKeepsList
<1>2. k \in S /\ k \notin Range(t)
  <2>1. k \in S
    BY LenProperties DEF Range
  <2> QED BY <1>1, <2>1
<1> HIDE DEF t
<1>3. OlderIn(Cons(k, t)) = OlderIn(t) \cup {<<x, k>> : x \in Range(t)}
  BY <1>1, <1>2, OlderOfCons
<1>4. OlderIn(t) = {e \in OlderIn(s) : k \notin {e[1], e[2]}}
  BY OlderOfListRemove DEF t
<1> QED BY <1>1, <1>3, <1>4 DEF t, MoveToFront

\* The back of the list is older than every other key, and dropping it drops
\* its pairs and no other.
LEMMA OlderOfFront ==
  ASSUME NEW S, NEW s \in Seq(S), s # << >>, IsInjective(s)
  PROVE  /\ \A x \in Range(s) \ {Last(s)} : <<Last(s), x>> \in OlderIn(s)
         /\ OlderIn(Front(s)) = {e \in OlderIn(s) : Last(s) \notin {e[1], e[2]}}
<1> DEFINE n == Len(s)
           t == Front(s)
<1>1. n \in Nat \ {0} /\ DOMAIN s = 1 .. n /\ Last(s) = s[n]
  BY EmptySeq, LenProperties DEF Last
<1>2. /\ t \in Seq(S) /\ Len(t) = n - 1
      /\ \A j \in 1 .. n - 1 : t[j] = s[j]
  BY <1>1 DEF Front
<1> HIDE DEF t
<1>3. \A i \in 1 .. n : s[i] = s[n] => i = n
  <2>1. n \in DOMAIN s
    BY <1>1
  <2> HIDE DEF n
  <2> QED BY <1>1, <2>1 DEF IsInjective
<1>4. ASSUME NEW x \in Range(s) \ {Last(s)} PROVE <<Last(s), x>> \in OlderIn(s)
  <2>1. PICK i \in 1 .. n : x = s[i] /\ i < n
    BY <1>1 DEF Range
  <2> QED BY <2>1, <1>1, OlderMember
<1>5. ASSUME NEW e \in OlderIn(t)
      PROVE  e \in OlderIn(s) /\ Last(s) \notin {e[1], e[2]}
  <2>1. PICK i, j \in 1 .. n - 1 : i < j /\ e = <<t[j], t[i]>>
    BY <1>2, OlderMember
  <2>2. <<s[j], s[i]>> \in OlderIn(s)
    BY <2>1, <1>1, OlderMember
  <2> HIDE DEF n
  <2>3. i # n /\ j # n /\ i \in 1 .. n /\ j \in 1 .. n /\ t[i] = s[i] /\ t[j] = s[j]
    BY <2>1, <1>1, <1>2
  <2>4. s[i] # s[n] /\ s[j] # s[n]
    BY <2>3, <1>3
  <2> QED BY <2>1, <2>2, <2>3, <2>4, <1>1
<1>6. ASSUME NEW e \in OlderIn(s), Last(s) \notin {e[1], e[2]}
      PROVE  e \in OlderIn(t)
  <2>1. PICK i, j \in 1 .. n : i < j /\ e = <<s[j], s[i]>>
    BY OlderMember
  <2>2. j \in 1 .. n - 1 /\ i \in 1 .. n - 1
    BY <2>1, <1>1, <1>6
  <2>3. <<t[j], t[i]>> \in OlderIn(t)
    BY <2>1, <2>2, <1>2, OlderMember
  <2> QED BY <2>1, <2>2, <2>3, <1>2
<1> QED BY <1>4, <1>5, <1>6 DEF t

-----------------------------------------------------------------------------
(* The refinement *)

\* The abstract cache counts the same bytes.
LEMMA SameBytes == Promised!Bytes = ResidentBytes(cache)
BY DEF Promised!Bytes, Promised!Cached, ResidentBytes, CachedKeys

\* The abstract test for room is the loop's test, once Cache.used is exact.
LEMMA SameRoom ==
  ASSUME GoodCache(cache), NEW d
  PROVE  /\ HasRoom(cache, d, Capacity) => Promised!Fits(d) \/ Promised!Cached = {}
         /\ ~ HasRoom(cache, d, Capacity) => ~ Promised!Fits(d)
<1>1. Promised!Fits(d) <=> cache.used + d.len <= Capacity
  <2>1. Promised!Cardinality(Promised!Bytes) = Cardinality(ResidentBytes(cache))
    BY SameBytes DEF Promised!Cardinality, Cardinality
  <2> QED BY <2>1 DEF Promised!Fits, GoodCache
<1>2. cache.order = << >> => CachedKeys(cache) = {}
  BY EmptySeq DEF GoodCache, CoherentCache, Range
<1> QED BY <1>1, <1>2 DEF HasRoom, Promised!Cached, CachedKeys

\* NewCache makes an empty abstract cache.
LEMMA InitRefines == Init => Promised!AInit
<1>1. OlderIn(<< >>) = {}
  BY NoOlderInEmpty
<1> QED BY <1>1 DEF Init, EmptyCache, Promised!AInit

\* Every step of the cache is a step of the abstract cache.
LEMMA NextRefines == IInv /\ [Next]_vars => [Promised!ANext]_(Promised!avars)
<1> SUFFICES ASSUME IInv, [Next]_vars PROVE [Promised!ANext]_(Promised!avars)
  OBVIOUS
<1> DEFINE older == OlderIn(cache.order)
<1>1. GoodCache(cache) /\ Range(cache.order) = CachedKeys(cache)
  BY DEF IInv, GoodCache, CoherentCache
<1>2. cache.order \in Seq(Keys) /\ IsInjective(cache.order)
  BY DEF IInv, GoodCache, CoherentCache
<1>3. Promised!Cached = CachedKeys(cache)
  BY DEF Promised!Cached, CachedKeys
<1>4. ASSUME NEW k \in Keys, Get(k) PROVE Promised!Use(k)
  <2>1. cache' = [cache EXCEPT !.order = MoveToFront(cache.order, k)]
    BY <1>4 DEF Get, Touched
  <2>2. cache'.order = MoveToFront(cache.order, k) /\ cache'.items = cache.items
    BY <2>1, <1>1 DEF GoodCache
  <2>3. OlderIn(cache'.order) = Promised!Newest(k, Promised!Cached)
    BY <1>4, <1>1, <1>2, <1>3, <2>2, OlderOfMoveToFront DEF Get, Promised!Newest
  <2> QED BY <1>3, <1>4, <2>2, <2>3 DEF Get, MutexFree, Promised!Use
<1>5. ASSUME NEW k \in Keys, Delete(k) PROVE Promised!Remove(k)
  <2>1. /\ cache'.order = ListRemove(cache.order, k)
        /\ cache'.items = Restrict(cache.items, CachedKeys(cache) \ {k})
    BY <1>5 DEF Delete, Deleted
  <2>2. OlderIn(cache'.order) = Promised!Without(k)
    BY <1>5, <1>1, <1>2, <2>1, OlderOfListRemove DEF Delete, Promised!Without
  <2> QED BY <1>3, <1>5, <2>1, <2>2 DEF Delete, Restrict, MutexFree, Promised!Remove
<1>6. ASSUME NEW k \in Keys, NEW d \in Data, PutExisting(k, d)
      PROVE  Promised!Update(k, d)
  <2>1. /\ cache'.order = MoveToFront(cache.order, k)
        /\ cache'.items = [cache.items EXCEPT ![k] = d]
    BY <1>6 DEF PutExisting, Replaced
  <2>2. OlderIn(cache'.order) = Promised!Newest(k, Promised!Cached)
    BY <1>6, <1>1, <1>2, <1>3, <2>1, OlderOfMoveToFront
    DEF PutExisting, Promised!Newest
  <2> QED BY <1>3, <1>6, <2>1, <2>2 DEF PutExisting, MutexFree, Promised!Update
<1>7. ASSUME NEW k \in Keys, NEW d \in Data, PutNew(k, d) PROVE Promised!Begin(k, d)
  BY <1>3, <1>7 DEF PutNew, MutexFree, Promised!Begin
<1>8. ASSUME EvictOldest PROVE \E k \in Keys : Promised!Evict(k)
  <2>1. PICK p \in putting : /\ ~ HasRoom(cache, p[2], Capacity)
                             /\ cache' = Evicted(cache)
                             /\ UNCHANGED putting
    BY <1>8 DEF EvictOldest
  <2> DEFINE k == Last(cache.order)
  <2>2. cache.order # << >>
    BY <2>1 DEF HasRoom
  <2>3. /\ cache'.order = Front(cache.order)
        /\ cache'.items = Restrict(cache.items, CachedKeys(cache) \ {k})
    BY <2>1, <2>2 DEF Evicted
  <2>4. k \in CachedKeys(cache) /\ k \in Keys
    BY <1>1, <1>2, <2>2, FrontKeepsList DEF GoodCache
  <2>5. /\ \A x \in CachedKeys(cache) \ {k} : <<k, x>> \in OlderIn(cache.order)
        /\ OlderIn(cache'.order) = {e \in OlderIn(cache.order) : k \notin {e[1], e[2]}}
    BY <1>1, <1>2, <2>2, <2>3, OlderOfFront
  <2>6. ~ Promised!Fits(p[2])
    BY <1>1, <2>1, SameRoom
  <2> HIDE DEF k
  <2>7. Promised!Evict(k)
    BY <1>3, <2>1, <2>3, <2>4, <2>5, <2>6
    DEF Restrict, Promised!Evict, Promised!OldestOf, Promised!Without
  <2> QED BY <2>4, <2>7
<1>9. ASSUME PushNew PROVE \E k \in Keys, d \in Data : Promised!Insert(k, d)
  <2>1. PICK p \in putting : /\ HasRoom(cache, p[2], Capacity)
                             /\ cache' = Inserted(cache, p[1], p[2])
                             /\ putting' = {}
    BY <1>9 DEF PushNew
  <2>2. PICK k \in Keys, d \in Data : p = <<k, d>>
    BY DEF IInv
  <2>3. putting = {<<k, d>>} /\ k \notin CachedKeys(cache)
    BY <2>2 DEF IInv
  <2>4. /\ cache'.order = Cons(k, cache.order)
        /\ cache'.items = [x \in CachedKeys(cache) \cup {k} |->
                             IF x = k THEN d ELSE cache.items[x]]
    BY <2>1, <2>2 DEF Inserted
  <2>5. Promised!Fits(d) \/ Promised!Cached = {}
    BY <1>1, <2>1, <2>2, SameRoom
  <2>6. OlderIn(cache'.order) = Promised!Newest(k, Promised!Cached)
    <3>1. OlderIn(cache'.order)
            = OlderIn(cache.order) \cup {<<x, k>> : x \in CachedKeys(cache)}
      BY <1>1, <1>2, <2>3, <2>4, OlderOfCons
    <3>2. \A e \in OlderIn(cache.order) : k \notin {e[1], e[2]}
      BY <1>1, <1>2, <2>3, OlderInRange
    <3> QED BY <1>3, <2>3, <3>1, <3>2 DEF Promised!Newest
  <2>7. Promised!Insert(k, d)
    BY <1>3, <2>1, <2>3, <2>4, <2>5, <2>6 DEF Promised!Insert
  <2> QED BY <2>7
<1>10. ASSUME Clear PROVE Promised!RemoveAll
  <2>1. cache'.items = [k \in {} |-> {}] /\ cache'.order = << >>
    BY <1>10 DEF Clear, EmptyCache
  <2>2. OlderIn(<< >>) = {}
    BY NoOlderInEmpty
  <2> QED BY <1>10, <2>1, <2>2 DEF Clear, MutexFree, Promised!RemoveAll
<1>11. ASSUME UNCHANGED vars PROVE UNCHANGED Promised!avars
  BY <1>11 DEF vars, Promised!avars
<1> QED
  BY <1>4, <1>5, <1>6, <1>7, <1>8, <1>9, <1>10, <1>11 DEF Next, Promised!ANext

\* cache.go:33-143: the cache implements RecencyCache, so that whatever its list
\* and its running total look like, it evicts the key used longest ago, and
\* only while the bytes really held leave no room for the new entry.
THEOREM CacheKeepsPromise == Spec => KeepsPromise
<1>1. Init => Promised!AInit
  BY InitRefines
<1>2. IInv /\ [Next]_vars => [Promised!ANext]_(Promised!avars)
  BY NextRefines
<1> QED BY <1>1, <1>2, InductiveInvariant, PTL DEF Spec, KeepsPromise, Promised!ASpec

-----------------------------------------------------------------------------
(* Put of a new key as one step                                            *)
(*                                                                         *)
(* The cache of a Put in its loop is one of those that the loop goes       *)
(* through from the cache that Put found, and none before it had room.     *)

InLoop(p) ==
  /\ p[1] \notin CachedKeys(found)
  /\ \E n \in 0 .. Len(found.order) :
       /\ cache = Evictions(found)[n]
       /\ \A i \in 0 .. n - 1 : ~ HasRoom(Evictions(found)[i], p[2], Capacity)

LoopInv ==
  /\ IInv
  /\ putting # {} => GoodCache(found)
  /\ \A p \in putting : InLoop(p)

LEMMA MCNextIsNext == MCNext => Next
BY DEF MCNext, Next

\* A Put with the mutex goes on, and nothing else does.
LEMMA OnlyPutRuns ==
  ASSUME putting # {}, MCNext
  PROVE  EvictOldest \/ PushNew
BY DEF MCNext, Get, PutExisting, Delete, PutNew, Clear, MutexFree

LEMMA LoopBegins ==
  ASSUME LoopInv, MCNext, putting = {}
  PROVE  LoopInv'
<1>1. IInv'
  BY MCNextIsNext, NextIInv DEF LoopInv
<1>2. CASE putting' = {}
  BY <1>1, <1>2 DEF LoopInv
<1>3. CASE putting' # {}
  <2>1. PICK k \in Keys, d \in Data : PutNew(k, d)
    BY <1>3 DEF MCNext, Get, PutExisting, Delete, Clear, EvictOldest, PushNew
  <2>2. /\ putting' = {<<k, d>>} /\ cache' = cache /\ found' = cache
        /\ k \notin CachedKeys(cache)
    BY <1>3, <2>1 DEF PutNew, MCNext
  <2>3. GoodCache(found')
    BY <2>2 DEF LoopInv, IInv
  <2>4. Len(cache.order) \in Nat
    BY LenProperties DEF LoopInv, IInv, GoodCache
  <2>5. cache' = Evictions(found')[0] /\ 0 \in 0 .. Len(found'.order)
    BY <2>2, <2>4, EvictionsStep
  <2>6. \A i \in 0 .. 0 - 1 : ~ HasRoom(Evictions(found')[i], d, Capacity)
    OBVIOUS
  <2>7. InLoop(<<k, d>>)'
    BY <2>2, <2>5, <2>6 DEF InLoop
  <2> QED BY <1>1, <2>2, <2>3, <2>7 DEF LoopInv
<1> QED BY <1>2, <1>3

LEMMA LoopGoesOn ==
  ASSUME LoopInv, MCNext, EvictOldest
  PROVE  LoopInv'
<1>1. IInv'
  BY MCNextIsNext, NextIInv DEF LoopInv
<1>2. PICK p \in putting : /\ ~ HasRoom(cache, p[2], Capacity)
                           /\ cache' = Evicted(cache)
                           /\ putting' = putting
  BY DEF EvictOldest
<1>3. found' = found /\ GoodCache(found)
  BY <1>2 DEF MCNext, LoopInv
<1>4. /\ \A q \in putting : q = p
      /\ p[1] \notin CachedKeys(found)
  BY DEF LoopInv, IInv, InLoop
<1>5. PICK n \in 0 .. Len(found.order) :
        /\ cache = Evictions(found)[n]
        /\ \A i \in 0 .. n - 1 : ~ HasRoom(Evictions(found)[i], p[2], Capacity)
  BY DEF LoopInv, InLoop
<1>6. Len(found.order) \in Nat
  BY <1>3, LenProperties DEF GoodCache
<1>7. n < Len(found.order)
  <2>1. /\ cache.order \in Seq(Keys) /\ cache.order # << >>
        /\ Len(cache.order) = Len(found.order) - n
    BY <1>2, <1>3, <1>5, EvictionsKeepList DEF GoodCache, HasRoom, LoopInv, IInv
  <2>2. Len(cache.order) # 0 /\ Len(cache.order) \in Nat
    BY <2>1, EmptySeq, LenProperties
  <2> QED BY <1>6, <2>1, <2>2
<1>8. n + 1 \in 0 .. Len(found.order) /\ n \in 0 .. Len(found.order) - 1
  BY <1>6, <1>7
<1>9. cache' = Evictions(found)[n + 1]
  BY <1>2, <1>5, <1>6, <1>8, EvictionsStep
<1>10. ASSUME NEW i \in 0 .. (n + 1) - 1
       PROVE  ~ HasRoom(Evictions(found)[i], p[2], Capacity)
  <2>1. i = n \/ i \in 0 .. n - 1
    OBVIOUS
  <2> QED BY <1>2, <1>5, <2>1
<1>11. InLoop(p)'
  BY <1>3, <1>4, <1>8, <1>9, <1>10 DEF InLoop
<1> QED BY <1>1, <1>2, <1>3, <1>4, <1>11 DEF LoopInv

LEMMA LoopEnds ==
  ASSUME LoopInv, PushNew, NEW p \in putting
  PROVE  putting' = {} /\ cache' = CachePut(found, p[1], p[2], Capacity)
<1>1. /\ HasRoom(cache, p[2], Capacity)
      /\ cache' = Inserted(cache, p[1], p[2])
      /\ putting' = {}
  BY DEF PushNew, LoopInv, IInv
<1>2. PICK n \in 0 .. Len(found.order) :
        /\ cache = Evictions(found)[n]
        /\ \A i \in 0 .. n - 1 : ~ HasRoom(Evictions(found)[i], p[2], Capacity)
  BY DEF LoopInv, InLoop
<1>3. Len(found.order) \in Nat
  BY LenProperties DEF LoopInv, GoodCache
<1>4. RoomMade(found, p[2], Capacity) = cache
  BY <1>1, <1>2, <1>3, FirstWithRoom
<1>5. p[1] \notin CachedKeys(found)
  BY DEF LoopInv, InLoop
<1> QED BY <1>1, <1>4, <1>5 DEF CachePut

LEMMA LoopInvKept ==
  ASSUME LoopInv, [MCNext]_mcvars
  PROVE  /\ LoopInv'
         /\ \A p \in putting :
              putting' = {} => cache' = CachePut(found, p[1], p[2], Capacity)
<1>1. CASE MCNext /\ putting = {}
  BY <1>1, LoopBegins
<1>2. CASE MCNext /\ EvictOldest
  <2>1. \A p \in putting : putting' # {}
    BY <1>2 DEF EvictOldest
  <2> QED BY <1>2, <2>1, LoopGoesOn
<1>3. CASE MCNext /\ PushNew
  <2>1. IInv'
    BY <1>3, MCNextIsNext, NextIInv DEF LoopInv
  <2>2. putting' = {}
    BY <1>3 DEF PushNew
  <2> QED BY <1>3, <2>1, <2>2, LoopEnds DEF LoopInv
<1>4. CASE UNCHANGED mcvars
  <2>1. IInv'
    BY <1>4, NextIInv DEF LoopInv, mcvars, vars
  <2>2. putting' = putting /\ found' = found /\ cache' = cache
    BY <1>4 DEF mcvars
  <2>3. \A p \in putting : putting' # {}
    BY <2>2
  <2> QED BY <2>1, <2>2, <2>3 DEF LoopInv, InLoop
<1> QED BY <1>1, <1>2, <1>3, <1>4, OnlyPutRuns

\* cache.go:46-73: the steps of a Put of a new key, eviction after eviction, add up
\* to CachePut of the cache it found, however many entries it evicts: the modules
\* that take Put as one atomic step leave nothing out.
THEOREM PutIsOneStep == MCSpec => LoopIsCachePut
<1>1. MCInit => LoopInv
  BY InitIInv DEF MCInit, LoopInv, Init
<1>2. LoopInv /\ [MCNext]_mcvars => LoopInv'
  BY LoopInvKept
<1>3. LoopInv /\ [MCNext]_mcvars =>
        [\A p \in putting :
           putting' = {} => cache' = CachePut(found, p[1], p[2], Capacity)]_mcvars
  BY LoopInvKept
<1> QED BY <1>1, <1>2, <1>3, PTL DEF MCSpec, LoopIsCachePut

-----------------------------------------------------------------------------
(* The oldest entry goes first                                             *)
(*                                                                         *)
(* Whatever is in front of a key in the list has been used since.          *)

ListIsHistory == \A e \in OlderIn(cache.order) : e[2] \in since[e[1]]

HistoryInv ==
  /\ IInv
  /\ since \in [Keys -> SUBSET Keys]
  /\ ListIsHistory

\* A key that is used is put in front of the others, and the other keys keep the
\* order they had.
LEMMA UseKeepsHistory ==
  ASSUME HistoryInv, NEW k \in Keys, Uses(k),
         NEW older, older \subseteq OlderIn(cache.order), \A e \in older : e[1] # k,
         NEW others, others \subseteq Keys \ {k},
         OlderIn(cache'.order) = older \cup {<<x, k>> : x \in others}
  PROVE  ListIsHistory'
<1>1. \A x \in Keys : since'[x] = IF x = k THEN {} ELSE since[x] \cup {k}
  BY DEF Uses
<1>2. ASSUME NEW e \in OlderIn(cache'.order) PROVE e[2] \in since'[e[1]]
  <2>1. CASE e \in older
    <3>1. e[1] # k /\ e[2] \in since[e[1]]
      BY <2>1 DEF HistoryInv, ListIsHistory
    <3>2. e[1] \in Keys
      <4>1. e \in OlderIn(cache.order) /\ cache.order \in Seq(Keys)
        BY <2>1 DEF HistoryInv, IInv, GoodCache
      <4>2. e[1] \in Range(cache.order)
        BY <4>1, OlderInRange
      <4> QED BY <4>1, <4>2, LenProperties DEF Range
    <3> QED BY <1>1, <3>1, <3>2
  <2>2. CASE e \in {<<x, k>> : x \in others}
    <3>1. PICK x \in others : e = <<x, k>>
      BY <2>2
    <3>2. e[1] = x /\ e[2] = k /\ x \in Keys /\ x # k
      BY <3>1
    <3>3. since'[x] = since[x] \cup {k}
      BY <1>1, <3>2
    <3>4. k \in since'[x]
      BY <3>3
    <3> QED BY <3>2, <3>4, Zenon
  <2> QED BY <1>2, <2>1, <2>2
<1> QED BY <1>2 DEF ListIsHistory

\* Get, and Put of a key that is cached
LEMMA HitKeepsHistory ==
  ASSUME HistoryInv, NEW k \in Keys, k \in CachedKeys(cache), Uses(k),
         cache'.order = MoveToFront(cache.order, k)
  PROVE  ListIsHistory'
<1>1. /\ cache.order \in Seq(Keys) /\ IsInjective(cache.order)
      /\ k \in Range(cache.order) /\ Range(cache.order) \subseteq Keys
  BY DEF HistoryInv, IInv, GoodCache, CoherentCache
<1> DEFINE older == {e \in OlderIn(cache.order) : k \notin {e[1], e[2]}}
<1>2. /\ older \subseteq OlderIn(cache.order) /\ \A e \in older : e[1] # k
      /\ Range(cache.order) \ {k} \subseteq Keys \ {k}
  BY <1>1
<1>3. OlderIn(cache'.order) = older \cup {<<x, k>> : x \in Range(cache.order) \ {k}}
  BY <1>1, OlderOfMoveToFront
<1> HIDE DEF older
<1> QED BY <1>2, <1>3, UseKeepsHistory

\* The end of a Put of a new key
LEMMA PushKeepsHistory ==
  ASSUME HistoryInv, NEW k \in Keys, k \notin CachedKeys(cache), Uses(k),
         cache'.order = Cons(k, cache.order)
  PROVE  ListIsHistory'
<1>1. /\ cache.order \in Seq(Keys)
      /\ k \notin Range(cache.order) /\ Range(cache.order) \subseteq Keys
  BY DEF HistoryInv, IInv, GoodCache, CoherentCache
<1>2. OlderIn(cache'.order) =
        OlderIn(cache.order) \cup {<<x, k>> : x \in Range(cache.order)}
  BY <1>1, OlderOfCons
<1>3. ASSUME NEW e \in OlderIn(cache.order) PROVE e[1] # k
  BY <1>1, <1>3, OlderInRange
<1>4. Range(cache.order) \subseteq Keys \ {k}
  BY <1>1
<1> QED BY <1>2, <1>3, <1>4, UseKeepsHistory

\* What drops keys from the list, or all of them, leaves the order of the rest.
LEMMA LossKeepsHistory ==
  ASSUME HistoryInv, since' = since, OlderIn(cache'.order) \subseteq OlderIn(cache.order)
  PROVE  ListIsHistory'
BY DEF HistoryInv, ListIsHistory

LEMMA HistoryKept ==
  ASSUME HistoryInv, [MCNext]_mcvars
  PROVE  HistoryInv'
<1>1. IInv'
  <2>1. CASE MCNext
    BY <2>1, MCNextIsNext, NextIInv DEF HistoryInv
  <2>2. CASE UNCHANGED mcvars
    BY <2>2, NextIInv DEF HistoryInv, mcvars, vars
  <2> QED BY <2>1, <2>2
<1>2. /\ CoherentCache(cache) /\ cache.order \in Seq(Keys)
      /\ \A p \in putting : p[1] \in Keys /\ p[1] \notin CachedKeys(cache)
      /\ \A p, q \in putting : p = q
      /\ cache = [items |-> cache.items, order |-> cache.order, used |-> cache.used]
  BY DEF HistoryInv, IInv, GoodCache
<1>3. since' \in [Keys -> SUBSET Keys]
  <2>1. ASSUME NEW k \in Keys, Uses(k) PROVE since' \in [Keys -> SUBSET Keys]
    BY <2>1 DEF HistoryInv, Uses
  <2>2. CASE since' = since
    BY <2>2 DEF HistoryInv
  <2> QED BY <1>2, <2>1, <2>2 DEF MCNext, mcvars
<1>4. ASSUME NEW k \in Keys, Get(k), Uses(k) PROVE ListIsHistory'
  <2>1. k \in CachedKeys(cache) /\ cache'.order = MoveToFront(cache.order, k)
    BY <1>2, <1>4 DEF Get, Touched
  <2> QED BY <1>4, <2>1, HitKeepsHistory
<1>5. ASSUME NEW k \in Keys, NEW d \in Data, PutExisting(k, d), Uses(k)
      PROVE  ListIsHistory'
  <2>1. k \in CachedKeys(cache) /\ cache'.order = MoveToFront(cache.order, k)
    BY <1>5 DEF PutExisting, Replaced
  <2> QED BY <1>5, <2>1, HitKeepsHistory
<1>6. ASSUME PushNew, NEW p \in putting, Uses(p[1]) PROVE ListIsHistory'
  <2>1. cache'.order = Cons(p[1], cache.order)
    BY <1>2, <1>6 DEF PushNew, Inserted
  <2> QED BY <1>2, <1>6, <2>1, PushKeepsHistory
<1>7. ASSUME NEW k \in Keys, Delete(k), since' = since PROVE ListIsHistory'
  <2>1. k \in Range(cache.order) /\ cache'.order = ListRemove(cache.order, k)
    BY <1>2, <1>7 DEF Delete, Deleted, CoherentCache
  <2>2. OlderIn(cache'.order) = {e \in OlderIn(cache.order) : k \notin {e[1], e[2]}}
    BY <1>2, <2>1, OlderOfListRemove DEF CoherentCache
  <2> QED BY <1>7, <2>2, LossKeepsHistory
<1>8. ASSUME cache' = cache, since' = since PROVE ListIsHistory'
  BY <1>8, LossKeepsHistory
<1>9. ASSUME EvictOldest, since' = since PROVE ListIsHistory'
  <2>1. cache.order # << >> /\ cache'.order = Front(cache.order)
    BY <1>9 DEF EvictOldest, Evicted, HasRoom
  <2>2. OlderIn(cache'.order) =
          {e \in OlderIn(cache.order) : Last(cache.order) \notin {e[1], e[2]}}
    BY <1>2, <2>1, OlderOfFront DEF CoherentCache
  <2> QED BY <1>9, <2>2, LossKeepsHistory
<1>10. ASSUME Clear, since' = since PROVE ListIsHistory'
  <2>1. cache'.order = << >>
    BY <1>10 DEF Clear, EmptyCache
  <2> QED BY <1>10, <2>1, NoOlderInEmpty, LossKeepsHistory
<1>11. ListIsHistory'
  <2>1. CASE MCNext
    BY <2>1, <1>4, <1>5, <1>6, <1>7, <1>8, <1>9, <1>10 DEF MCNext, PutNew
  <2>2. CASE UNCHANGED mcvars
    BY <2>2, <1>8 DEF mcvars
  <2> QED BY <2>1, <2>2
<1> QED BY <1>1, <1>3, <1>11 DEF HistoryInv

\* A step of a Put that still has the mutex is an eviction, of the back of the list.
LEMMA EvictionIsOldest ==
  ASSUME HistoryInv, [MCNext]_mcvars, putting # {}, putting' = putting,
         mcvars' # mcvars
  PROVE  \E k \in CachedKeys(cache) :
           /\ CachedKeys(cache') = CachedKeys(cache) \ {k}
           /\ CachedKeys(cache') \subseteq since[k]
<1>1. EvictOldest
  BY OnlyPutRuns DEF PushNew
<1>2. /\ cache.order \in Seq(Keys) /\ IsInjective(cache.order)
      /\ Range(cache.order) = CachedKeys(cache)
  BY DEF HistoryInv, IInv, GoodCache, CoherentCache
<1>3. cache.order # << >> /\ cache' = Evicted(cache)
  BY <1>1 DEF EvictOldest, HasRoom
<1> DEFINE k == Last(cache.order)
<1>4. /\ k \in CachedKeys(cache)
      /\ \A x \in CachedKeys(cache) \ {k} : <<k, x>> \in OlderIn(cache.order)
  BY <1>2, <1>3, FrontKeepsList, OlderOfFront
<1>5. CachedKeys(cache') = CachedKeys(cache) \ {k}
  <2>1. cache'.items = Restrict(cache.items, CachedKeys(cache) \ {k})
    BY <1>3 DEF Evicted
  <2> QED BY <2>1 DEF CachedKeys, Restrict
<1> HIDE DEF k
<1>6. ASSUME NEW x \in CachedKeys(cache) \ {k} PROVE x \in since[k]
  <2>1. <<k, x>>[1] = k /\ <<k, x>>[2] = x /\ <<k, x>> \in OlderIn(cache.order)
    BY <1>4
  <2> QED BY <2>1 DEF HistoryInv, ListIsHistory
<1> QED BY <1>4, <1>5, <1>6

\* cache.go:58-64: the loop of Put evicts the key that Get and Put have left alone for
\* the longest time, for every history of calls.
THEOREM OldestGoesFirst == MCSpec => EvictsLeastRecent
<1>1. MCInit => HistoryInv
  <2>1. ASSUME MCInit PROVE HistoryInv
    <3>1. IInv /\ cache.order = << >>
      BY <2>1, InitIInv DEF MCInit, Init, EmptyCache
    <3>2. since \in [Keys -> SUBSET Keys]
      BY <2>1 DEF MCInit
    <3> QED BY <3>1, <3>2, NoOlderInEmpty DEF HistoryInv, ListIsHistory
  <2> QED BY <2>1
<1>2. HistoryInv /\ [MCNext]_mcvars => HistoryInv'
  BY HistoryKept
<1>3. HistoryInv /\ [MCNext]_mcvars =>
        [putting # {} /\ putting' = putting =>
           \E k \in CachedKeys(cache) :
             /\ CachedKeys(cache') = CachedKeys(cache) \ {k}
             /\ CachedKeys(cache') \subseteq since[k]]_mcvars
  BY EvictionIsOldest
<1> QED BY <1>1, <1>2, <1>3, PTL DEF MCSpec, EvictsLeastRecent
=============================================================================
