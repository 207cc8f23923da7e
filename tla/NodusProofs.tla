------------------------------ MODULE NodusProofs ------------------------------
(***************************************************************************)
(* Proofs about Nodus for every number of nodes, names, File objects and   *)
(* Write calls, with as many arrays as the program may ask for.            *)
(*                                                                         *)
(* The heart is what a step does to memory.  A slice has an owner, the     *)
(* node and the name it was made for, and every step of every node either  *)
(* shares arrays that the owner has already, or fills a new array for one  *)
(* owner, or puts one byte into an array in place (Kinds, below).          *)
(***************************************************************************)
EXTENDS MCNodusWrites, CacheOpsProofs

Byte == 0 .. MaxWrites
SliceType == [buf : Bufs \cup {0}, len : 0 .. MaxLen]

-----------------------------------------------------------------------------
(* Sequences and sets *)

LEMMA BoundedSeqElements ==
  ASSUME NEW S, NEW n \in Nat, NEW s
  PROVE  s \in BoundedSeq(S, n) <=> s \in Seq(S) /\ Len(s) <= n
<1>1. BoundedSeq(S, n) = UNION {[1 .. m -> S] : m \in 0 .. n}
  BY DEF BoundedSeq, SeqOf
<1>2. ASSUME s \in BoundedSeq(S, n) PROVE s \in Seq(S) /\ Len(s) <= n
  <2>1. PICK m \in 0 .. n : s \in [1 .. m -> S]
    BY <1>1, <1>2
  <2>2. s \in Seq(S) /\ Len(s) = m
    BY <2>1
  <2> QED BY <2>2
<1>3. ASSUME s \in Seq(S), Len(s) <= n PROVE s \in BoundedSeq(S, n)
  <2>1. Len(s) \in 0 .. n /\ s \in [1 .. Len(s) -> S]
    BY <1>3, LenProperties
  <2> QED BY <1>1, <2>1
<1> QED BY <1>2, <1>3

\* A non-empty set of numbers with a bound has a greatest one.
LEMMA GreatestOf ==
  ASSUME NEW T, T \subseteq Nat, T # {}, NEW N \in Nat, \A t \in T : t <= N
  PROVE  Max(T) \in T /\ \A t \in T : t <= Max(T)
<1> DEFINE U == {N - t : t \in T}
<1>1. U \subseteq Nat /\ U # {}
  <2>1. \A t \in T : t \in Nat /\ t <= N
    OBVIOUS
  <2>2. \A t \in T : N - t \in Nat
    BY <2>1
  <2> QED BY <2>2
<1>2. PICK u \in U : \A v \in U : u <= v
  BY <1>1, LeastOf
<1>3. PICK x \in T : u = N - x
  OBVIOUS
<1>4. \A t \in T : x >= t
  <2> SUFFICES ASSUME NEW t \in T PROVE x >= t
    OBVIOUS
  <2>1. N - x <= N - t
    BY <1>2, <1>3
  <2>2. x \in Nat /\ t \in Nat
    OBVIOUS
  <2> QED BY <2>1, <2>2
<1>5. Max(T) \in T /\ \A t \in T : Max(T) >= t
  BY <1>4 DEF Max
<1> QED BY <1>5

LEMMA LeastIsMin ==
  ASSUME NEW T, T \subseteq Nat, T # {}
  PROVE  Min(T) \in T
<1>1. \E x \in T : \A y \in T : x <= y
  BY LeastOf
<1> QED BY <1>1 DEF Min

\* Bytes cut or filled to another length are bytes.
LEMMA ResizedBytes ==
  ASSUME NEW b \in Seq(Byte), NEW n \in Nat
  PROVE  /\ Resized(b, n) \in Seq(Byte) /\ Len(Resized(b, n)) = n
         /\ \A i \in 1 .. n : Resized(b, n)[i] = IF i <= Len(b) THEN b[i] ELSE 0
<1>1. 0 \in Byte
  BY NodusAssumption DEF Byte
<1>2. \A i \in 1 .. n : (IF i <= Len(b) THEN b[i] ELSE 0) \in Byte
  BY <1>1
<1> QED BY <1>2 DEF Resized

LEMMA SameLength ==
  ASSUME NEW b \in Seq(Byte)
  PROVE  Resized(b, Len(b)) = b
<1>1. Len(b) \in Nat /\ b = [i \in 1 .. Len(b) |-> b[i]]
  BY LenProperties
<1> QED BY <1>1 DEF Resized

-----------------------------------------------------------------------------
(* Slices and their owners *)

CacheSlices ==
  UNION {{[node |-> n, name |-> m, data |-> cache[n].items[m]] :
            m \in CachedKeys(cache[n])} : n \in Nodes}
FileSlices ==
  UNION {{[node |-> n, name |-> files[n][f].name, data |-> files[n][f].data] :
            f \in OpenSlots(n)} : n \in Nodes}
LookupSlices ==
  {[node |-> c.peer, name |-> c.name, data |-> c.data] :
     c \in {d \in lookups : d.phase = "reading"}}
CastSlices == {[node |-> b.from, name |-> b.name, data |-> b.data] : b \in casts}
SendSlices == {[node |-> s.from, name |-> s.name, data |-> s.data] : s \in sends}

\* The slices of Holders, each with the node and the name that it belongs to
Slices == CacheSlices \cup FileSlices \cup LookupSlices \cup CastSlices \cup SendSlices

SameData == {x.data : x \in Slices} = {h.data : h \in Holders}

LEMMA SlicesAreHeld == SameData
<1>1. ASSUME NEW x \in Slices PROVE \E h \in Holders : h.data = x.data
  <2>1. CASE x \in CacheSlices
    <3>1. PICK n \in Nodes : \E m \in CachedKeys(cache[n]) :
            x = [node |-> n, name |-> m, data |-> cache[n].items[m]]
      BY <2>1 DEF CacheSlices
    <3>2. PICK m \in CachedKeys(cache[n]) :
            x = [node |-> n, name |-> m, data |-> cache[n].items[m]]
      BY <3>1
    <3> DEFINE h == [at |-> <<"cache", n, m>>, data |-> cache[n].items[m]]
    <3>3. h.data = x.data
      BY <3>2
    <3>4. h \in {[at |-> <<"cache", n, y>>, data |-> cache[n].items[y]] :
                y \in CachedKeys(cache[n])}
      OBVIOUS
    <3> HIDE DEF h
    <3>5. h \in UNION {{[at |-> <<"cache", k, y>>, data |-> cache[k].items[y]] :
                       y \in CachedKeys(cache[k])} : k \in Nodes}
      BY <3>4
    <3>6. h \in Holders
      BY <3>5 DEF Holders
    <3> QED BY <3>3, <3>6
  <2>2. CASE x \in FileSlices
    <3>1. PICK n \in Nodes : \E f \in OpenSlots(n) :
            x = [node |-> n, name |-> files[n][f].name, data |-> files[n][f].data]
      BY <2>2 DEF FileSlices
    <3>2. PICK f \in OpenSlots(n) :
            x = [node |-> n, name |-> files[n][f].name, data |-> files[n][f].data]
      BY <3>1
    <3> DEFINE h == [at |-> <<"file", n, f>>, data |-> files[n][f].data]
    <3>3. h.data = x.data
      BY <3>2
    <3>4. h \in {[at |-> <<"file", n, y>>, data |-> files[n][y].data] :
                y \in OpenSlots(n)}
      OBVIOUS
    <3> HIDE DEF h
    <3>5. h \in UNION {{[at |-> <<"file", k, y>>, data |-> files[k][y].data] :
                       y \in OpenSlots(k)} : k \in Nodes}
      BY <3>4
    <3>6. h \in Holders
      BY <3>5 DEF Holders
    <3> QED BY <3>3, <3>6
  <2>3. CASE x \in LookupSlices
    <3>1. PICK c \in lookups : c.phase = "reading" /\ c.data = x.data
      BY <2>3 DEF LookupSlices
    <3>2. [at |-> <<"lookup", c.node, c.name>>, data |-> c.data] \in Holders
      BY <3>1 DEF Holders
    <3> QED BY <3>1, <3>2
  <2>4. CASE x \in CastSlices
    <3>1. PICK b \in casts : b.data = x.data
      BY <2>4 DEF CastSlices
    <3>2. [at |-> <<"cast", b.w>>, data |-> b.data] \in Holders
      BY <3>1 DEF Holders
    <3> QED BY <3>1, <3>2
  <2>5. CASE x \in SendSlices
    <3>1. PICK s \in sends : s.data = x.data
      BY <2>5 DEF SendSlices
    <3>2. [at |-> <<"send", s.w, s.to>>, data |-> s.data] \in Holders
      BY <3>1 DEF Holders
    <3> QED BY <3>1, <3>2
  <2> QED BY <2>1, <2>2, <2>3, <2>4, <2>5 DEF Slices
<1>2. ASSUME NEW h \in Holders PROVE \E x \in Slices : h.data = x.data
  <2>1. ASSUME NEW n \in Nodes, NEW m \in CachedKeys(cache[n])
        PROVE  [node |-> n, name |-> m, data |-> cache[n].items[m]] \in Slices
    BY DEF Slices, CacheSlices
  <2>2. ASSUME NEW n \in Nodes, NEW f \in OpenSlots(n)
        PROVE  [node |-> n, name |-> files[n][f].name, data |-> files[n][f].data] \in Slices
    BY DEF Slices, FileSlices
  <2>3. ASSUME NEW c \in lookups, c.phase = "reading"
        PROVE  [node |-> c.peer, name |-> c.name, data |-> c.data] \in Slices
    BY <2>3 DEF Slices, LookupSlices
  <2>4. ASSUME NEW b \in casts
        PROVE  [node |-> b.from, name |-> b.name, data |-> b.data] \in Slices
    BY DEF Slices, CastSlices
  <2>5. ASSUME NEW s \in sends
        PROVE  [node |-> s.from, name |-> s.name, data |-> s.data] \in Slices
    BY DEF Slices, SendSlices
  <2>6. \/ \E n \in Nodes : \E m \in CachedKeys(cache[n]) : h.data = cache[n].items[m]
        \/ \E n \in Nodes : \E f \in OpenSlots(n) : h.data = files[n][f].data
        \/ \E c \in lookups : c.phase = "reading" /\ h.data = c.data
        \/ \E b \in casts : h.data = b.data
        \/ \E s \in sends : h.data = s.data
    BY DEF Holders
  <2> QED BY <2>1, <2>2, <2>3, <2>4, <2>5, <2>6
<1> QED BY <1>1, <1>2 DEF SameData

LEMMA SlicesAreHeldNext == SameData'
BY SlicesAreHeld, PTL

\* There is an array that nobody holds: the program has memory left.
Roomy == Bufs \ {h.data.buf : h \in Holders} # {}

LEMMA NewBufIsFree ==
  ASSUME Roomy
  PROVE  NewBuf \in Bufs \ {0} /\ \A x \in Slices : x.data.buf # NewBuf
<1>1. Bufs \ {h.data.buf : h \in Holders} \subseteq Nat
  BY NodusAssumption
<1>2. NewBuf \in Bufs \ {h.data.buf : h \in Holders}
  BY <1>1, LeastIsMin DEF Roomy, NewBuf
<1>3. \A x \in Slices : \E h \in Holders : h.data = x.data
  BY SlicesAreHeld DEF SameData
<1> QED BY <1>2, <1>3, NodusAssumption

-----------------------------------------------------------------------------
(* The heap *)

\* h as the array of arrays
HeapOK(h) == h \in [Bufs -> BoundedSeq(Byte, MaxLen)]

Fits(h, d) ==
  /\ d \in SliceType
  /\ IF d.len = 0 THEN d.buf = 0 ELSE d.buf \in Bufs /\ d.len <= Len(h[d.buf])

LEMMA HeapElements ==
  ASSUME NEW h, HeapOK(h), NEW b \in Bufs
  PROVE  h[b] \in Seq(Byte) /\ Len(h[b]) <= MaxLen /\ Len(h[b]) \in Nat
<1>1. MaxLen \in Nat /\ h[b] \in BoundedSeq(Byte, MaxLen)
  BY NodusAssumption DEF HeapOK
<1>2. h[b] \in Seq(Byte) /\ Len(h[b]) <= MaxLen
  BY <1>1, BoundedSeqElements
<1> QED BY <1>2, LenProperties

\* What the garbage collection leaves: the bytes of every slice.
LEMMA Collected ==
  ASSUME NEW h, HeapOK(h), Collect(h), \A x \in Slices' : Fits(h, x.data)
  PROVE  /\ HeapOK(heap')
         /\ \A x \in Slices' :
              /\ Fits(heap', x.data)
              /\ \A i \in 1 .. x.data.len : heap'[x.data.buf][i] = h[x.data.buf][i]
<1> DEFINE Lens(b) == {0} \cup {r.data.len : r \in {x \in Holders' : x.data.buf = b}}
<1>1. heap' = [b \in Bufs |-> SubSeq(h[b], 1, Max(Lens(b)))]
  BY DEF Collect
<1>2. \A r \in Holders' : \E x \in Slices' : x.data = r.data
  BY SlicesAreHeldNext DEF SameData
<1>3. \A x \in Slices' : \E r \in Holders' : x.data = r.data
  BY SlicesAreHeldNext DEF SameData
<1>4. ASSUME NEW b \in Bufs
      PROVE  /\ Max(Lens(b)) \in 0 .. Len(h[b])
             /\ \A x \in Slices' : x.data.buf = b => x.data.len <= Max(Lens(b))
  <2>0. h[b] \in Seq(Byte) /\ Len(h[b]) <= MaxLen /\ Len(h[b]) \in Nat /\ b # 0
    BY HeapElements, NodusAssumption
  <2>1. \A t \in Lens(b) : t \in Nat /\ t <= Len(h[b])
    BY <1>2, <2>0 DEF Fits, SliceType
  <2>2. Lens(b) \subseteq Nat /\ Lens(b) # {}
    BY <2>1
  <2> HIDE DEF Lens
  <2>3. Max(Lens(b)) \in Lens(b) /\ \A t \in Lens(b) : t <= Max(Lens(b))
    BY <2>0, <2>1, <2>2, GreatestOf
  <2>4. \A x \in Slices' : x.data.buf = b => x.data.len \in Lens(b)
    BY <1>3 DEF Lens
  <2> QED BY <2>0, <2>1, <2>3, <2>4
<1> HIDE DEF Lens
<1>5. ASSUME NEW b \in Bufs
      PROVE  /\ heap'[b] \in Seq(Byte)
             /\ Len(heap'[b]) = Max(Lens(b))
             /\ \A i \in 1 .. Max(Lens(b)) : heap'[b][i] = h[b][i]
  <2> DEFINE k == Max(Lens(b))
  <2>1. h[b] \in Seq(Byte) /\ Len(h[b]) \in Nat /\ k \in 0 .. Len(h[b])
    BY <1>4, HeapElements
  <2>2. heap'[b] = SubSeq(h[b], 1, k)
    BY <1>1
  <2> HIDE DEF k
  <2>3. SubSeq(h[b], 1, k) \in Seq(Byte) /\ Len(SubSeq(h[b], 1, k)) = k
        /\ \A i \in 1 .. k : SubSeq(h[b], 1, k)[i] = h[b][i]
    BY <2>1
  <2> QED BY <2>2, <2>3 DEF k
<1>6. HeapOK(heap')
  <2>1. ASSUME NEW b \in Bufs PROVE heap'[b] \in BoundedSeq(Byte, MaxLen)
    <3>1. Len(heap'[b]) <= MaxLen
      BY <1>4, <1>5, HeapElements, NodusAssumption
    <3> QED BY <1>5, <3>1, BoundedSeqElements, NodusAssumption
  <2> QED BY <1>1, <2>1 DEF HeapOK
<1>7. ASSUME NEW x \in Slices'
      PROVE  /\ Fits(heap', x.data)
             /\ \A i \in 1 .. x.data.len : heap'[x.data.buf][i] = h[x.data.buf][i]
  <2>1. Fits(h, x.data) /\ x.data.len \in Nat
    BY DEF Fits, SliceType
  <2>2. CASE x.data.len = 0
    BY <2>1, <2>2 DEF Fits
  <2>3. CASE x.data.len # 0
    <3>1. x.data.buf \in Bufs
      BY <2>1, <2>3 DEF Fits
    <3>2. x.data.len <= Max(Lens(x.data.buf)) /\ Max(Lens(x.data.buf)) \in Nat
      BY <1>4, <3>1
    <3> QED BY <1>5, <2>1, <2>3, <3>1, <3>2 DEF Fits
  <2> QED BY <2>2, <2>3
<1> QED BY <1>6, <1>7
-----------------------------------------------------------------------------
(* What the records of the state are *)

FileType ==
  [name : Names, data : SliceType, stage : {"idle", "grown", "copied"},
   w : Byte, off : 0 .. MaxLen]
WaitingType ==
  [node : Nodes, name : Names, create : BOOLEAN, phase : {"choosing", "absent"},
   todo : SUBSET Nodes]
AskedType ==
  [node : Nodes, name : Names, create : BOOLEAN, phase : {"asked", "stalled"},
   todo : SUBSET Nodes, peer : Nodes]
ReadingType ==
  [node : Nodes, name : Names, create : BOOLEAN, phase : {"reading"},
   todo : SUBSET Nodes, peer : Nodes, data : SliceType, got : Seq(Byte)]
CastType == [w : Byte, from : Nodes, name : Names, data : SliceType]
SendType ==
  [w : Byte, from : Nodes, to : Nodes, name : Names, data : SliceType, got : Seq(Byte),
   flow : {"moves", "stalls", "broken"}]

\* No more has been sent than there is.
PartSent(r) == Len(r.got) <= r.data.len

CachesOK ==
  /\ cache = [n \in Nodes |-> cache[n]]
  /\ \A n \in Nodes :
       /\ KeptCache(cache[n], Names)
       /\ \A m \in CachedKeys(cache[n]) : m \in Names /\ cache[n].items[m] \in SliceType
FilesOK == files \in [Nodes -> [Slots -> FileType \cup {NoFile}]]
LookupsOK ==
  \A c \in lookups :
    \/ c \in WaitingType
    \/ c \in AskedType
    \/ c \in ReadingType /\ PartSent(c)
CastsOK == \A b \in casts : b \in CastType
SendsOK == \A s \in sends : s \in SendType /\ PartSent(s)
WroteOK ==
  wrote \in Seq([name : Names, off : 0 .. MaxLen - 1]) /\ Len(wrote) <= MaxWrites

RecordsOK == CachesOK /\ FilesOK /\ LookupsOK /\ CastsOK /\ SendsOK /\ WroteOK

\* The inductive invariant of TypeOK
TypeInv == RecordsOK /\ HeapOK(heap) /\ \A x \in Slices : Fits(heap, x.data)

Owned(n, m, d) == [node |-> n, name |-> m, data |-> d]

LEMMA OpenFile ==
  ASSUME FilesOK, NEW n \in Nodes, NEW f \in OpenSlots(n)
  PROVE  f \in Slots /\ files[n][f] \in FileType
BY DEF FilesOK, OpenSlots

LEMMA TheEmptySlice ==
  /\ Slice(0, 0) = [buf |-> 0, len |-> 0]
  /\ Slice(0, 0) \in SliceType
BY NodusAssumption DEF Slice, SliceType

LEMMA NewSlice ==
  ASSUME NEW b \in Bufs, NEW k \in 0 .. MaxLen
  PROVE  /\ Slice(b, k) \in SliceType
         /\ k # 0 => Slice(b, k) = [buf |-> b, len |-> k]
         /\ k = 0 => Slice(b, k) = Slice(0, 0)
BY NodusAssumption DEF Slice, SliceType

-----------------------------------------------------------------------------
(* What the parts of a step do to the records and the slices *)

LEMMA CacheIsSet ==
  ASSUME CachesOK, NEW n \in Nodes, NEW c, KeptCache(c, Names),
         \A m \in CachedKeys(c) : m \in Names /\ c.items[m] \in SliceType,
         cache' = [cache EXCEPT ![n] = c]
  PROVE  /\ CachesOK'
         /\ \A x \in CacheSlices' :
              x \in CacheSlices \/ \E m \in CachedKeys(c) : x = Owned(n, m, c.items[m])
<1>1. cache' = [k \in Nodes |-> cache'[k]]
      /\ \A k \in Nodes : cache'[k] = IF k = n THEN c ELSE cache[k]
  BY DEF CachesOK
<1>2. CachesOK'
  BY <1>1 DEF CachesOK
<1>3. ASSUME NEW x \in CacheSlices'
      PROVE  x \in CacheSlices \/ \E m \in CachedKeys(c) : x = Owned(n, m, c.items[m])
  <2>1. PICK k \in Nodes : \E m \in CachedKeys(cache'[k]) :
               x = [node |-> k, name |-> m, data |-> cache'[k].items[m]]
    BY DEF CacheSlices
  <2>2. CASE k = n
    BY <1>1, <2>1, <2>2 DEF Owned
  <2>3. CASE k # n
    <3>1. \E m \in CachedKeys(cache[k]) :
               x = [node |-> k, name |-> m, data |-> cache[k].items[m]]
      BY <1>1, <2>1, <2>3
    <3> QED BY <3>1 DEF CacheSlices
  <2> QED BY <2>2, <2>3
<1> QED BY <1>2, <1>3

LEMMA CachedSlice ==
  ASSUME NEW n \in Nodes, NEW m \in CachedKeys(cache[n])
  PROVE  Owned(n, m, cache[n].items[m]) \in CacheSlices
BY DEF CacheSlices, Owned

LEMMA PutDoes ==
  ASSUME CachesOK, NEW n \in Nodes, NEW m \in Names, NEW d \in SliceType, Put(n, m, d)
  PROVE  /\ CachesOK'
         /\ CacheSlices' \subseteq CacheSlices \cup {Owned(n, m, d)}
<1> DEFINE c == CachePut(cache[n], m, d, Capacity)
<1>1. KeptCache(cache[n], Names)
  BY DEF CachesOK
<1>2. /\ KeptCache(c, Names) /\ c.items[m] = d
      /\ CachedKeys(c) \subseteq CachedKeys(cache[n]) \cup {m}
      /\ \A x \in CachedKeys(c) \ {m} : c.items[x] = cache[n].items[x]
  BY <1>1, PutKeeps
<1>3. cache' = [cache EXCEPT ![n] = c]
  BY DEF Put
<1> HIDE DEF c
<1>4. \A k \in CachedKeys(c) : k \in Names /\ c.items[k] \in SliceType
  BY <1>2 DEF CachesOK
<1>5. /\ CachesOK'
      /\ \A x \in CacheSlices' :
           x \in CacheSlices \/ \E k \in CachedKeys(c) : x = Owned(n, k, c.items[k])
  BY <1>2, <1>3, <1>4, CacheIsSet
<1>6. ASSUME NEW k \in CachedKeys(c)
      PROVE  Owned(n, k, c.items[k]) \in CacheSlices \cup {Owned(n, m, d)}
  <2>1. CASE k = m
    BY <1>2, <2>1
  <2>2. CASE k # m
    <3>1. k \in CachedKeys(cache[n]) /\ c.items[k] = cache[n].items[k]
      BY <1>2, <2>2
    <3> QED BY <3>1, CachedSlice
  <2> QED BY <2>1, <2>2
<1> QED BY <1>5, <1>6

LEMMA GetDoes ==
  ASSUME CachesOK, NEW n \in Nodes, NEW m, Get(n, m)
  PROVE  CachesOK' /\ CacheSlices' \subseteq CacheSlices
<1> DEFINE c == CacheGet(cache[n], m)
<1>1. KeptCache(c, Names) /\ c.items = cache[n].items
  BY GetKeeps DEF CachesOK
<1>2. cache' = [cache EXCEPT ![n] = c]
  BY DEF Get
<1> HIDE DEF c
<1>3. CachedKeys(c) = CachedKeys(cache[n])
  BY <1>1 DEF CachedKeys
<1>4. \A k \in CachedKeys(c) : k \in Names /\ c.items[k] \in SliceType
  BY <1>1, <1>3 DEF CachesOK
<1>5. /\ CachesOK'
      /\ \A x \in CacheSlices' :
           x \in CacheSlices \/ \E k \in CachedKeys(c) : x = Owned(n, k, c.items[k])
  BY <1>1, <1>2, <1>4, CacheIsSet
<1>6. \A k \in CachedKeys(c) : Owned(n, k, c.items[k]) \in CacheSlices
  BY <1>1, <1>3, CachedSlice
<1> QED BY <1>5, <1>6

LEMMA DeleteDoes ==
  ASSUME CachesOK, NEW n \in Nodes, NEW m,
         cache' = [cache EXCEPT ![n] = CacheDelete(@, m)]
  PROVE  CachesOK' /\ CacheSlices' \subseteq CacheSlices
<1> DEFINE c == CacheDelete(cache[n], m)
<1>1. /\ KeptCache(c, Names)
      /\ CachedKeys(c) \subseteq CachedKeys(cache[n])
      /\ \A x \in CachedKeys(c) : c.items[x] = cache[n].items[x]
  BY DeleteKeeps DEF CachesOK
<1>2. cache' = [cache EXCEPT ![n] = c]
  OBVIOUS
<1> HIDE DEF c
<1>4. \A k \in CachedKeys(c) : k \in Names /\ c.items[k] \in SliceType
  BY <1>1 DEF CachesOK
<1>5. /\ CachesOK'
      /\ \A x \in CacheSlices' :
           x \in CacheSlices \/ \E k \in CachedKeys(c) : x = Owned(n, k, c.items[k])
  BY <1>1, <1>2, <1>4, CacheIsSet
<1>6. \A k \in CachedKeys(c) : Owned(n, k, c.items[k]) \in CacheSlices
  BY <1>1, CachedSlice
<1> QED BY <1>5, <1>6

LEMMA FileIsSet ==
  ASSUME FilesOK, NEW n \in Nodes, NEW f \in Slots, NEW file \in FileType \cup {NoFile},
         files' = [files EXCEPT ![n][f] = file]
  PROVE  /\ FilesOK'
         /\ \A x \in FileSlices' :
              x \in FileSlices \/ (file # NoFile /\ x = Owned(n, file.name, file.data))
<1>1. FilesOK'
  BY DEF FilesOK
<1>2. \A k \in Nodes, g \in Slots :
        files'[k][g] = IF k = n /\ g = f THEN file ELSE files[k][g]
  BY DEF FilesOK
<1>3. ASSUME NEW x \in FileSlices'
      PROVE  x \in FileSlices \/ (file # NoFile /\ x = Owned(n, file.name, file.data))
  <2>1. PICK k \in Nodes : \E g \in Slots : /\ files'[k][g] # NoFile
               /\ x = [node |-> k, name |-> files'[k][g].name, data |-> files'[k][g].data]
    BY DEF FileSlices, OpenSlots
  <2>2. PICK g \in Slots : /\ files'[k][g] # NoFile
               /\ x = [node |-> k, name |-> files'[k][g].name, data |-> files'[k][g].data]
    BY <2>1
  <2>3. CASE k = n /\ g = f
    BY <1>2, <2>2, <2>3 DEF Owned
  <2>4. CASE ~ (k = n /\ g = f)
    <3>1. files'[k][g] = files[k][g]
      BY <1>2, <2>4
    <3>2. \E y \in OpenSlots(k) :
            x = [node |-> k, name |-> files[k][y].name, data |-> files[k][y].data]
      BY <2>2, <3>1 DEF OpenSlots
    <3> QED BY <3>2 DEF FileSlices
  <2> QED BY <2>3, <2>4
<1> QED BY <1>1, <1>3

LEMMA FreshFile ==
  ASSUME NEW m \in Names, NEW d \in SliceType
  PROVE  [name |-> m, data |-> d, stage |-> "idle", w |-> 0, off |-> 0] \in FileType
BY NodusAssumption DEF FileType, Byte

LEMMA KeepDoes ==
  ASSUME FilesOK, NEW n \in Nodes, NEW m \in Names, NEW d \in SliceType, Keep(n, m, d)
  PROVE  FilesOK' /\ FileSlices' \subseteq FileSlices \cup {Owned(n, m, d)}
<1>1. CASE UNCHANGED files
  BY <1>1 DEF FilesOK, FileSlices, OpenSlots
<1>2. CASE ~ UNCHANGED files
  <2> DEFINE file == [name |-> m, data |-> d, stage |-> "idle", w |-> 0, off |-> 0]
  <2>1. PICK f \in Slots : files' = [files EXCEPT ![n][f] = file]
    BY <1>2 DEF Keep
  <2>2. file \in FileType /\ file.name = m /\ file.data = d
    BY FreshFile
  <2> HIDE DEF file
  <2> QED BY <2>1, <2>2, FileIsSet
<1> QED BY <1>1, <1>2

LEMMA SameCaches ==
  ASSUME CachesOK, UNCHANGED cache
  PROVE  CachesOK' /\ CacheSlices' = CacheSlices
BY DEF CachesOK, CacheSlices

LEMMA SameFiles ==
  ASSUME FilesOK, UNCHANGED files
  PROVE  FilesOK' /\ FileSlices' = FileSlices
BY DEF FilesOK, FileSlices, OpenSlots

LEMMA FewerLookups ==
  ASSUME LookupsOK, lookups' \subseteq lookups
  PROVE  LookupsOK' /\ LookupSlices' \subseteq LookupSlices
BY DEF LookupsOK, LookupSlices

LEMMA FewerCasts ==
  ASSUME CastsOK, casts' \subseteq casts
  PROVE  CastsOK' /\ CastSlices' \subseteq CastSlices
BY DEF CastsOK, CastSlices

LEMMA FewerSends ==
  ASSUME SendsOK, sends' \subseteq sends
  PROVE  SendsOK' /\ SendSlices' \subseteq SendSlices
BY DEF SendsOK, SendSlices

LEMMA SameWrites ==
  ASSUME WroteOK, UNCHANGED wrote
  PROVE  WroteOK'
BY DEF WroteOK

LookupType(d) == d \in WaitingType \/ d \in AskedType \/ (d \in ReadingType /\ PartSent(d))

LEMMA LookupBecomes ==
  ASSUME LookupsOK, NEW c \in lookups, NEW d, LookupType(d), Becomes(c, d)
  PROVE  /\ LookupsOK'
         /\ \A x \in LookupSlices' :
              x \in LookupSlices \/ (d.phase = "reading" /\ x = Owned(d.peer, d.name, d.data))
<1>1. \A e \in lookups' : e \in lookups \/ e = d
  BY DEF Becomes
<1>2. LookupsOK'
  BY <1>1 DEF LookupsOK, LookupType
<1>3. ASSUME NEW x \in LookupSlices'
      PROVE  x \in LookupSlices \/ (d.phase = "reading" /\ x = Owned(d.peer, d.name, d.data))
  <2>1. PICK e \in lookups' : e.phase = "reading" /\ x = Owned(e.peer, e.name, e.data)
    BY DEF LookupSlices, Owned
  <2>2. CASE e \in lookups
    BY <2>1, <2>2 DEF LookupSlices, Owned
  <2>3. CASE e = d
    BY <2>1, <2>3
  <2> QED BY <1>1, <2>2, <2>3
<1> QED BY <1>2, <1>3

LEMMA LookupParts ==
  ASSUME LookupsOK, NEW c \in lookups
  PROVE  /\ c.node \in Nodes /\ c.name \in Names /\ c.create \in BOOLEAN
         /\ c.todo \in SUBSET Nodes
         /\ c.phase \in {"choosing", "absent"} => c \in WaitingType
         /\ c.phase \in {"asked", "reading", "stalled"} => c.peer \in Nodes
         /\ c.phase = "reading" =>
              /\ c \in ReadingType /\ PartSent(c)
              /\ Owned(c.peer, c.name, c.data) \in LookupSlices
BY DEF LookupsOK, WaitingType, AskedType, ReadingType, LookupSlices, Owned

LEMMA ChoosingType ==
  ASSUME LookupsOK, NEW c \in lookups, NEW todo \in SUBSET Nodes
  PROVE  LookupType(Choosing(c, todo)) /\ Choosing(c, todo).phase # "reading"
BY LookupParts DEF LookupType, WaitingType, Choosing

-----------------------------------------------------------------------------
(* What a step does to memory *)

\* There is a slice of that name already, or Create makes the file.
Named(m) == \E y \in Slices : y.name = m
Creating(m) == \E c \in lookups : c.name = m /\ c.phase = "absent" /\ c \notin lookups'

\* x is part of an array that its owner has a slice of already.
Inside(x) ==
  \/ x.data = Slice(0, 0) /\ (Named(x.name) \/ Creating(x.name))
  \/ \E y \in Slices : /\ y.node = x.node /\ y.name = x.name
                       /\ y.data.buf = x.data.buf
                       /\ x.data.len \in 1 .. y.data.len

Shares ==
  /\ heap' = heap \/ Collect(heap)
  /\ \A x \in Slices' : Inside(x)

\* The bytes there are under the name m: in an array or on a stream
Sources(m) ==
  {Bytes(x.data) : x \in {y \in Slices : y.name = m}}
    \cup {c.got : c \in {d \in lookups : d.phase = "reading" /\ d.name = m}}
    \cup {s.got : s \in {t \in sends : t.name = m}}

\* The array b, that was free, gets k bytes: what there was of m, cut or filled.
Fills(n, m, b, src, k) ==
  /\ Collect(HeapWith(b, Resized(src, k)))
  /\ src \in Sources(m) \/ "coalesce" \in Allowed
  /\ Named(m)
  /\ \A y \in Slices : y.data.buf # b
  /\ \A x \in Slices' : Inside(x) \/ x = Owned(n, m, Slice(b, k))

\* copy() in File.Write
PutsByte(n, f) ==
  LET file == files[n][f]
  IN  /\ WriteCopy(n, f)
      /\ file.stage = "grown" /\ file.off < file.data.len
      /\ heap' = [heap EXCEPT ![file.data.buf][file.off + 1] = file.w]
      /\ Slices' \subseteq Slices
      /\ UNCHANGED wrote

\* A step that leaves the bytes of every slice where they are
LeavesBytes ==
  \/ Shares
  \/ \E n \in Nodes, m \in Names, b \in Bufs, src \in Seq(Byte), k \in 1 .. MaxLen :
       Fills(n, m, b, src, k)

Kinds == LeavesBytes \/ \E n \in Nodes : \E f \in OpenSlots(n) : PutsByte(n, f)

LEMMA SliceIsInside ==
  ASSUME \A y \in Slices : Fits(heap, y.data), NEW x \in Slices
  PROVE  Inside(x)
<1>1. Fits(heap, x.data)
  OBVIOUS
<1>2. CASE x.data.len = 0
  BY <1>1, <1>2, TheEmptySlice DEF Inside, Named, Fits, SliceType
<1>3. CASE x.data.len # 0
  <2>1. x.data.len \in 1 .. x.data.len
    BY <1>1, <1>3, NodusAssumption DEF Fits, SliceType
  <2> QED BY <2>1 DEF Inside
<1> QED BY <1>2, <1>3

\* The bytes on their way have a name.
LEMMA StreamsAreNamed ==
  /\ \A c \in lookups : c.phase = "reading" => Named(c.name)
  /\ \A s \in sends : Named(s.name)
<1>1. ASSUME NEW c \in lookups, c.phase = "reading" PROVE Named(c.name)
  <2>1. Owned(c.peer, c.name, c.data) \in Slices
    BY <1>1 DEF Slices, LookupSlices, Owned
  <2> QED BY <2>1 DEF Named, Owned
<1>2. ASSUME NEW s \in sends PROVE Named(s.name)
  <2>1. Owned(s.from, s.name, s.data) \in Slices
    BY DEF Slices, SendSlices, Owned
  <2> QED BY <2>1 DEF Named, Owned
<1> QED BY <1>1, <1>2

LEMMA SliceBytes ==
  ASSUME HeapOK(heap), NEW d, Fits(heap, d)
  PROVE  Bytes(d) \in Seq(Byte) /\ Len(Bytes(d)) = d.len /\ d.len \in 0 .. MaxLen
<1>1. d.len \in 0 .. MaxLen /\ d.len \in Nat
  BY NodusAssumption DEF Fits, SliceType
<1>2. \A i \in 1 .. d.len : heap[d.buf][i] \in Byte
  <2> SUFFICES ASSUME NEW i \in 1 .. d.len PROVE heap[d.buf][i] \in Byte
    OBVIOUS
  <2>1. d.buf \in Bufs /\ d.len <= Len(heap[d.buf])
    BY <1>1 DEF Fits
  <2>2. heap[d.buf] \in Seq(Byte) /\ Len(heap[d.buf]) \in Nat
    BY <2>1, HeapElements
  <2>3. i \in 1 .. Len(heap[d.buf])
    BY <1>1, <2>1, <2>2
  <2> QED BY <2>2, <2>3
<1> QED BY <1>1, <1>2 DEF Bytes, BytesIn

\* A step after which every slice was there before
LEMMA NothingNew ==
  ASSUME TypeInv, RecordsOK', heap' = heap \/ Collect(heap),
         CacheSlices' \subseteq Slices, FileSlices' \subseteq Slices,
         LookupSlices' \subseteq Slices, CastSlices' \subseteq Slices,
         SendSlices' \subseteq Slices
  PROVE  RecordsOK' /\ LeavesBytes
<1>1. \A x \in Slices' : x \in Slices
  BY DEF Slices
<1>2. \A x \in Slices' : Inside(x)
  BY <1>1, SliceIsInside DEF TypeInv
<1> QED BY <1>2 DEF LeavesBytes, Shares

-----------------------------------------------------------------------------
(* The steps of a Lookup *)

LEMMA LookupHitDoes ==
  ASSUME TypeInv, NEW n \in Nodes, NEW m \in Names, LookupHit(n, m)
  PROVE  RecordsOK' /\ LeavesBytes
<1> DEFINE d == cache[n].items[m]
<1>1. m \in CachedKeys(cache[n]) /\ d \in SliceType /\ Owned(n, m, d) \in Slices
  BY CachedSlice DEF LookupHit, Holds, TypeInv, RecordsOK, CachesOK, Slices
<1>2. CachesOK' /\ CacheSlices' \subseteq CacheSlices
  BY GetDoes DEF LookupHit, TypeInv, RecordsOK
<1>3. Keep(n, m, d)
  BY DEF LookupHit
<1> HIDE DEF d
<1>4. FilesOK' /\ FileSlices' \subseteq FileSlices \cup {Owned(n, m, d)}
  BY <1>1, <1>3, KeepDoes DEF TypeInv, RecordsOK
<1>5. Collect(heap) /\ UNCHANGED <<lookups, casts, sends, wrote>>
  BY DEF LookupHit
<1>6. /\ LookupsOK' /\ LookupSlices' \subseteq LookupSlices
      /\ CastsOK' /\ CastSlices' \subseteq CastSlices
      /\ SendsOK' /\ SendSlices' \subseteq SendSlices
      /\ WroteOK'
  BY <1>5, FewerLookups, FewerCasts, FewerSends, SameWrites DEF TypeInv, RecordsOK
<1>7. RecordsOK'
  BY <1>2, <1>4, <1>6 DEF RecordsOK
<1> QED BY <1>1, <1>2, <1>4, <1>5, <1>6, <1>7, NothingNew DEF Slices

\* A step that only changes Lookups, none of which begins to read
LEMMA OnlyStreams ==
  ASSUME TypeInv, LookupsOK', LookupSlices' \subseteq LookupSlices,
         SendsOK', SendSlices' \subseteq SendSlices,
         heap' = heap \/ Collect(heap), UNCHANGED <<cache, files, casts, wrote>>
  PROVE  RecordsOK' /\ LeavesBytes
<1>1. /\ CachesOK' /\ CacheSlices' \subseteq CacheSlices
      /\ FilesOK' /\ FileSlices' \subseteq FileSlices
      /\ CastsOK' /\ CastSlices' \subseteq CastSlices
      /\ WroteOK'
  BY SameCaches, SameFiles, FewerCasts, SameWrites DEF TypeInv, RecordsOK
<1>2. RecordsOK'
  BY <1>1 DEF RecordsOK
<1> QED BY <1>1, <1>2, NothingNew DEF Slices

LEMMA OnlyLookups ==
  ASSUME TypeInv, LookupsOK', LookupSlices' \subseteq LookupSlices,
         heap' = heap \/ Collect(heap), UNCHANGED <<cache, files, casts, sends, wrote>>
  PROVE  RecordsOK' /\ LeavesBytes
<1>1. SendsOK' /\ SendSlices' \subseteq SendSlices
  BY FewerSends DEF TypeInv, RecordsOK
<1> QED BY <1>1, OnlyStreams

LEMMA LookupMissDoes ==
  ASSUME TypeInv, NEW n \in Nodes, NEW m \in Names, NEW create \in BOOLEAN,
         LookupMiss(n, m, create)
  PROVE  RecordsOK' /\ LeavesBytes
<1> DEFINE d == [node |-> n, name |-> m, create |-> create,
                 phase |-> "choosing", todo |-> ConnectedPeers(n)]
<1>1. ConnectedPeers(n) \in SUBSET Nodes
  BY DEF ConnectedPeers
<1>2. d \in WaitingType /\ d.phase # "reading"
  BY <1>1 DEF WaitingType
<1>3. /\ lookups' = lookups \cup {d}
      /\ UNCHANGED <<heap, cache, files, casts, sends, wrote>>
  BY DEF LookupMiss
<1> HIDE DEF d
<1>4. LookupsOK'
  BY <1>2, <1>3 DEF LookupsOK, TypeInv, RecordsOK
<1>5. LookupSlices' \subseteq LookupSlices
  BY <1>2, <1>3 DEF LookupSlices
<1> QED BY <1>3, <1>4, <1>5, OnlyLookups

\* A Lookup goes on without having begun to read.
LEMMA LookupGoesOn ==
  ASSUME TypeInv, NEW c \in lookups, NEW d, LookupType(d), d.phase # "reading", Becomes(c, d),
         heap' = heap \/ Collect(heap), UNCHANGED <<cache, files, casts, sends, wrote>>
  PROVE  RecordsOK' /\ LeavesBytes
<1>1. LookupsOK' /\ LookupSlices' \subseteq LookupSlices
  BY LookupBecomes DEF TypeInv, RecordsOK
<1> QED BY <1>1, OnlyLookups

LEMMA AskDoes ==
  ASSUME TypeInv, NEW c \in lookups, Ask(c)
  PROVE  RecordsOK' /\ LeavesBytes
<1>1. /\ c.node \in Nodes /\ c.name \in Names /\ c.create \in BOOLEAN
      /\ c.todo \in SUBSET Nodes
  BY LookupParts DEF TypeInv, RecordsOK
<1>2. PICK p \in c.todo :
          \/ Becomes(c, [node |-> c.node, name |-> c.name, create |-> c.create,
                         phase |-> "asked", todo |-> c.todo \ {p}, peer |-> p])
          \/ Becomes(c, Choosing(c, c.todo \ {p}))
  BY DEF Ask
<1>3. UNCHANGED <<heap, cache, files, casts, sends, wrote>>
  BY DEF Ask
<1>4. CASE Becomes(c, [node |-> c.node, name |-> c.name, create |-> c.create,
                       phase |-> "asked", todo |-> c.todo \ {p}, peer |-> p])
  <2> DEFINE d == [node |-> c.node, name |-> c.name, create |-> c.create,
                   phase |-> "asked", todo |-> c.todo \ {p}, peer |-> p]
  <2>1. LookupType(d) /\ d.phase # "reading"
    BY <1>1 DEF LookupType, AskedType
  <2>2. Becomes(c, d)
    BY <1>4
  <2> HIDE DEF d
  <2> QED BY <1>3, <2>1, <2>2, LookupGoesOn
<1>5. CASE Becomes(c, Choosing(c, c.todo \ {p}))
  <2>1. c.todo \ {p} \in SUBSET Nodes
    BY <1>1
  <2>2. LookupType(Choosing(c, c.todo \ {p})) /\ Choosing(c, c.todo \ {p}).phase # "reading"
    BY <2>1, ChoosingType DEF TypeInv, RecordsOK
  <2> QED BY <1>3, <1>5, <2>2, LookupGoesOn
<1> QED BY <1>2, <1>4, <1>5

LEMMA ServeDoes ==
  ASSUME TypeInv, NEW c \in lookups, Serve(c)
  PROVE  RecordsOK' /\ LeavesBytes
<1>1. /\ c.node \in Nodes /\ c.name \in Names /\ c.create \in BOOLEAN
      /\ c.todo \in SUBSET Nodes /\ c.peer \in Nodes /\ c.phase = "asked"
  BY LookupParts DEF TypeInv, RecordsOK, Serve
<1>2. CachesOK' /\ CacheSlices' \subseteq CacheSlices
  BY <1>1, GetDoes DEF Serve, TypeInv, RecordsOK
<1>3. UNCHANGED <<heap, files, casts, sends, wrote>>
  BY DEF Serve
<1>4. LookupsOK' /\ LookupSlices' \subseteq Slices
  <2>1. CASE Holds(c.peer, c.name)
    <3> DEFINE e == cache[c.peer].items[c.name]
               d == [node |-> c.node, name |-> c.name, create |-> c.create,
                     phase |-> "reading", todo |-> c.todo, peer |-> c.peer,
                     data |-> e, got |-> << >>]
    <3>1. e \in SliceType /\ Owned(c.peer, c.name, e) \in Slices
      BY <1>1, <2>1, CachedSlice DEF Holds, TypeInv, RecordsOK, CachesOK, Slices
    <3>2. Becomes(c, d)
      BY <2>1 DEF Serve
    <3>3. 0 <= e.len
      BY <3>1, NodusAssumption DEF SliceType
    <3> HIDE DEF e
    <3>4. d \in ReadingType /\ PartSent(d) /\ Owned(d.peer, d.name, d.data) \in Slices
      BY <1>1, <3>1, <3>3 DEF ReadingType, PartSent
    <3> HIDE DEF d
    <3>5. LookupType(d)
      BY <3>4 DEF LookupType
    <3> QED BY <3>2, <3>4, <3>5, LookupBecomes DEF Slices, TypeInv, RecordsOK
  <2>2. CASE ~ Holds(c.peer, c.name)
    <3>1. Becomes(c, Choosing(c, c.todo))
      BY <2>2 DEF Serve
    <3>2. LookupType(Choosing(c, c.todo)) /\ Choosing(c, c.todo).phase # "reading"
      BY <1>1, ChoosingType DEF TypeInv, RecordsOK
    <3> QED BY <3>1, <3>2, LookupBecomes DEF Slices, TypeInv, RecordsOK
  <2> QED BY <2>1, <2>2
<1>5. /\ FilesOK' /\ FileSlices' \subseteq FileSlices
      /\ CastsOK' /\ CastSlices' \subseteq CastSlices
      /\ SendsOK' /\ SendSlices' \subseteq SendSlices
      /\ WroteOK'
  BY <1>3, SameFiles, FewerCasts, FewerSends, SameWrites DEF TypeInv, RecordsOK
<1>6. RecordsOK'
  BY <1>2, <1>4, <1>5 DEF RecordsOK
<1> QED BY <1>2, <1>3, <1>4, <1>5, <1>6, NothingNew DEF Slices

\* The byte that goes to a stream next
LEMMA NextByteIsByte ==
  ASSUME TypeInv, NEW r, r.got \in Seq(Byte), Fits(heap, r.data), Len(r.got) < r.data.len
  PROVE  /\ Append(r.got, NextByte(r)) \in Seq(Byte)
         /\ Len(Append(r.got, NextByte(r))) = Len(r.got) + 1
         /\ Len(r.got) + 1 <= r.data.len
<1>1. Len(r.got) \in Nat /\ r.data.len \in Nat
  BY LenProperties, NodusAssumption DEF Fits, SliceType
<1>2. r.data.len # 0
  BY <1>1
<1>3. r.data.buf \in Bufs /\ r.data.len <= Len(heap[r.data.buf])
  BY <1>2 DEF Fits
<1>4. heap[r.data.buf] \in Seq(Byte) /\ Len(heap[r.data.buf]) \in Nat
  BY <1>3, HeapElements DEF TypeInv
<1>5. Len(r.got) + 1 \in 1 .. Len(heap[r.data.buf])
  BY <1>1, <1>3, <1>4
<1>6. NextByte(r) \in Byte
  BY <1>4, <1>5 DEF NextByte
<1> QED BY <1>1, <1>6

LEMMA FetchByteDoes ==
  ASSUME TypeInv, NEW c \in lookups, FetchByte(c)
  PROVE  RecordsOK' /\ LeavesBytes
<1>1. /\ c \in ReadingType /\ PartSent(c)
      /\ Owned(c.peer, c.name, c.data) \in LookupSlices
  BY LookupParts DEF FetchByte, TypeInv, RecordsOK
<1>2. c.got \in Seq(Byte) /\ Fits(heap, c.data) /\ Len(c.got) < c.data.len
  <2>1. Fits(heap, Owned(c.peer, c.name, c.data).data)
    BY <1>1 DEF TypeInv, Slices
  <2>2. Owned(c.peer, c.name, c.data).data = c.data
    BY DEF Owned
  <2> QED BY <1>1, <2>1, <2>2 DEF FetchByte, ReadingType
<1> DEFINE g == Append(c.got, NextByte(c))
           d == [c EXCEPT !.got = g]
<1>3. g \in Seq(Byte) /\ Len(g) <= c.data.len
  BY <1>2, NextByteIsByte
<1>4. Becomes(c, d) /\ UNCHANGED <<heap, cache, files, casts, sends, wrote>>
  BY DEF FetchByte
<1> HIDE DEF g
<1>5. /\ d \in ReadingType /\ PartSent(d)
      /\ d.peer = c.peer /\ d.name = c.name /\ d.data = c.data
  BY <1>1, <1>3 DEF ReadingType, PartSent
<1> HIDE DEF d
<1>6. LookupType(d)
  BY <1>5 DEF LookupType
<1>7. LookupsOK' /\ LookupSlices' \subseteq LookupSlices
  BY <1>1, <1>4, <1>5, <1>6, LookupBecomes DEF TypeInv, RecordsOK
<1> QED BY <1>4, <1>7, OnlyLookups

LEMMA StallDoes ==
  ASSUME TypeInv, NEW c \in lookups, Stall(c)
  PROVE  RecordsOK' /\ LeavesBytes
<1>1. /\ c.node \in Nodes /\ c.name \in Names /\ c.create \in BOOLEAN
      /\ c.todo \in SUBSET Nodes /\ c.peer \in Nodes
  BY LookupParts DEF TypeInv, RecordsOK, Stall
<1> DEFINE d == [node |-> c.node, name |-> c.name, create |-> c.create,
                 phase |-> "stalled", todo |-> c.todo, peer |-> c.peer]
<1>2. LookupType(d) /\ d.phase # "reading"
  BY <1>1 DEF LookupType, AskedType
<1>3. /\ Becomes(c, d) /\ Collect(heap)
      /\ UNCHANGED <<cache, files, casts, sends, wrote>>
  BY DEF Stall
<1> HIDE DEF d
<1> QED BY <1>2, <1>3, LookupGoesOn

LEMMA FetchFailsDoes ==
  ASSUME TypeInv, NEW c \in lookups, FetchFails(c)
  PROVE  RecordsOK' /\ LeavesBytes
<1>1. LookupType(Choosing(c, c.todo)) /\ Choosing(c, c.todo).phase # "reading"
  BY LookupParts, ChoosingType DEF TypeInv, RecordsOK
<1>2. /\ Becomes(c, Choosing(c, c.todo)) /\ Collect(heap)
      /\ UNCHANGED <<cache, files, casts, sends, wrote>>
  BY DEF FetchFails
<1> QED BY <1>1, <1>2, LookupGoesOn

LEMMA LookupFailsDoes ==
  ASSUME TypeInv, NEW c \in lookups, LookupFails(c)
  PROVE  RecordsOK' /\ LeavesBytes
<1>1. c \in WaitingType
  BY LookupParts DEF TypeInv, RecordsOK, LookupFails
<1> DEFINE d == [c EXCEPT !.phase = "absent"]
<1>2. LookupType(d) /\ d.phase # "reading"
  BY <1>1 DEF LookupType, WaitingType
<1>3. UNCHANGED <<heap, cache, files, casts, sends, wrote>>
  BY DEF LookupFails
<1>4. CASE c.create
  <2>1. Becomes(c, d)
    BY <1>4 DEF LookupFails, Becomes
  <2> HIDE DEF d
  <2> QED BY <1>2, <1>3, <2>1, LookupGoesOn
<1>5. CASE ~ c.create
  <2>1. lookups' \subseteq lookups
    BY <1>5 DEF LookupFails
  <2> QED BY <1>3, <2>1, FewerLookups, OnlyLookups DEF TypeInv, RecordsOK
<1> QED BY <1>4, <1>5

LEMMA CreateDoes ==
  ASSUME TypeInv, NEW c \in lookups, Create(c)
  PROVE  RecordsOK' /\ LeavesBytes
<1> DEFINE d == Slice(0, 0)
           file == [name |-> c.name, data |-> d, stage |-> "idle", w |-> 0, off |-> 0]
<1>1. c.node \in Nodes /\ c.name \in Names /\ d \in SliceType
  BY LookupParts, TheEmptySlice DEF TypeInv, RecordsOK
<1>2. CachesOK' /\ CacheSlices' \subseteq CacheSlices \cup {Owned(c.node, c.name, d)}
  BY <1>1, PutDoes DEF Create, TypeInv, RecordsOK
<1>3. PICK f \in Slots : files' = [files EXCEPT ![c.node][f] = file]
  BY DEF Create
<1>4. file \in FileType /\ file.name = c.name /\ file.data = d
  BY <1>1, FreshFile
<1> HIDE DEF file
<1>5. FilesOK' /\ FileSlices' \subseteq FileSlices \cup {Owned(c.node, c.name, d)}
  BY <1>1, <1>3, <1>4, FileIsSet DEF TypeInv, RecordsOK
<1>6. Collect(heap) /\ lookups' \subseteq lookups /\ UNCHANGED <<casts, sends, wrote>>
  BY DEF Create
<1>7. /\ LookupsOK' /\ LookupSlices' \subseteq LookupSlices
      /\ CastsOK' /\ CastSlices' \subseteq CastSlices
      /\ SendsOK' /\ SendSlices' \subseteq SendSlices
      /\ WroteOK'
  BY <1>6, FewerLookups, FewerCasts, FewerSends, SameWrites DEF TypeInv, RecordsOK
<1>8. RecordsOK'
  BY <1>2, <1>5, <1>7 DEF RecordsOK
<1>9. \A x \in Slices' : x \in Slices \/ x = Owned(c.node, c.name, Slice(0, 0))
  BY <1>2, <1>5, <1>7 DEF Slices
<1>10. Inside(Owned(c.node, c.name, Slice(0, 0)))
  <2>1. c.phase = "absent" /\ c \notin lookups'
    BY DEF Create
  <2> QED BY <2>1 DEF Inside, Creating, Owned
<1>11. \A x \in Slices' : Inside(x)
  BY <1>9, <1>10, SliceIsInside DEF TypeInv
<1> QED BY <1>6, <1>8, <1>11 DEF LeavesBytes, Shares

\* A step after which the one slice that was not there before is in a new array
LEMMA OneNew ==
  ASSUME TypeInv, RecordsOK', Roomy, NEW n \in Nodes, NEW m \in Names,
         NEW src \in Seq(Byte), src \in Sources(m) \/ "coalesce" \in Allowed, Named(m),
         NEW k \in 1 .. MaxLen, NEW x, x = Owned(n, m, Slice(NewBuf, k)),
         Collect(HeapWith(NewBuf, Resized(src, k))),
         CacheSlices' \subseteq Slices \cup {x}, FileSlices' \subseteq Slices \cup {x},
         LookupSlices' \subseteq Slices \cup {x}, CastSlices' \subseteq Slices \cup {x},
         SendSlices' \subseteq Slices \cup {x}
  PROVE  RecordsOK' /\ LeavesBytes /\ Fills(n, m, NewBuf, src, k)
<1>1. NewBuf \in Bufs /\ \A y \in Slices : y.data.buf # NewBuf
  BY NewBufIsFree
<1>2. \A y \in Slices' : y \in Slices \/ y = x
  BY DEF Slices
<1>3. \A y \in Slices' : Inside(y) \/ y = x
  BY <1>2, SliceIsInside DEF TypeInv
<1>4. Fills(n, m, NewBuf, src, k)
  BY <1>1, <1>3 DEF Fills
<1> QED BY <1>1, <1>4 DEF LeavesBytes

LEMMA FetchDoneDoes ==
  ASSUME TypeInv, Roomy, NEW c \in lookups, FetchDone(c)
  PROVE  RecordsOK' /\ LeavesBytes
<1>1. /\ c.node \in Nodes /\ c.name \in Names /\ c.todo \in SUBSET Nodes
      /\ c.phase = "reading" /\ c.got \in Seq(Byte) /\ c.data \in SliceType
      /\ Len(c.got) = c.data.len
  BY LookupParts DEF TypeInv, RecordsOK, FetchDone, ReadingType
<1>2. UNCHANGED <<casts, sends, wrote>>
  BY DEF FetchDone
<1>3. CASE c.got = << >>
  <2>1. LookupType(Choosing(c, c.todo)) /\ Choosing(c, c.todo).phase # "reading"
    BY <1>1, ChoosingType DEF TypeInv, RecordsOK
  <2>2. Becomes(c, Choosing(c, c.todo)) /\ UNCHANGED <<heap, cache, files>>
    BY <1>3 DEF FetchDone
  <2> QED BY <1>2, <2>1, <2>2, LookupGoesOn
<1>4. CASE c.got # << >>
  <2> DEFINE k == Len(c.got)
             d == Slice(NewBuf, k)
             x == Owned(c.node, c.name, d)
  <2>1. k \in 1 .. MaxLen
    <3>1. k \in 0 .. MaxLen /\ k # 0
      BY <1>1, <1>4, EmptySeq DEF SliceType
    <3> QED BY <3>1, NodusAssumption
  <2>2. NewBuf \in Bufs
    BY NewBufIsFree
  <2>3. d \in SliceType /\ d.buf = NewBuf
    BY <2>1, <2>2, NewSlice DEF Slice
  <2>4. /\ lookups' \subseteq lookups
        /\ Put(c.node, c.name, d)
        /\ Keep(c.node, c.name, d)
        /\ Collect(HeapWith(d.buf, c.got))
    BY <1>4 DEF FetchDone
  <2>5. Resized(c.got, k) = c.got
    BY <1>1, SameLength
  <2>6. Collect(HeapWith(NewBuf, Resized(c.got, k)))
    BY <2>3, <2>4, <2>5
  <2>7. c.got \in Sources(c.name) /\ Named(c.name)
    BY <1>1, StreamsAreNamed DEF Sources
  <2> HIDE DEF d
  <2>8. /\ CachesOK' /\ CacheSlices' \subseteq CacheSlices \cup {x}
        /\ FilesOK' /\ FileSlices' \subseteq FileSlices \cup {x}
    BY <1>1, <2>3, <2>4, PutDoes, KeepDoes DEF TypeInv, RecordsOK
  <2>9. /\ LookupsOK' /\ LookupSlices' \subseteq LookupSlices
        /\ CastsOK' /\ CastSlices' \subseteq CastSlices
        /\ SendsOK' /\ SendSlices' \subseteq SendSlices
        /\ WroteOK'
    BY <1>2, <2>4, FewerLookups, FewerCasts, FewerSends, SameWrites DEF TypeInv, RecordsOK
  <2>10. RecordsOK'
    BY <2>8, <2>9 DEF RecordsOK
  <2>11. x = Owned(c.node, c.name, Slice(NewBuf, k))
    BY DEF d
  <2> HIDE DEF x, k
  <2>12. /\ CacheSlices' \subseteq Slices \cup {x} /\ FileSlices' \subseteq Slices \cup {x}
         /\ LookupSlices' \subseteq Slices \cup {x} /\ CastSlices' \subseteq Slices \cup {x}
         /\ SendSlices' \subseteq Slices \cup {x}
    BY <2>8, <2>9 DEF Slices
  <2> QED BY <1>1, <2>1, <2>6, <2>7, <2>10, <2>11, <2>12, OneNew
<1> QED BY <1>3, <1>4

-----------------------------------------------------------------------------
(* The steps of a File *)

\* The File object in a slot, with its slice
LEMMA FilesSlice ==
  ASSUME TypeInv, NEW n \in Nodes, NEW f \in OpenSlots(n)
  PROVE  /\ f \in Slots /\ files[n][f] \in FileType
         /\ files[n][f].name \in Names
         /\ Owned(n, files[n][f].name, files[n][f].data) \in Slices
         /\ Fits(heap, files[n][f].data)
         /\ Bytes(files[n][f].data) \in Seq(Byte)
         /\ Bytes(files[n][f].data) \in Sources(files[n][f].name)
         /\ Named(files[n][f].name)
<1> DEFINE file == files[n][f]
           x == Owned(n, file.name, file.data)
<1>1. f \in Slots /\ file \in FileType /\ file.name \in Names
  BY OpenFile DEF TypeInv, RecordsOK, FileType
<1>2. x \in Slices
  BY DEF Slices, FileSlices, Owned
<1>3. x.data = file.data /\ x.name = file.name
  BY DEF Owned
<1> HIDE DEF x
<1>4. Fits(heap, file.data)
  BY <1>2, <1>3 DEF TypeInv
<1>5. Bytes(file.data) \in Seq(Byte)
  BY <1>4, SliceBytes DEF TypeInv
<1>6. Bytes(file.data) \in Sources(file.name) /\ Named(file.name)
  BY <1>2, <1>3 DEF Sources, Named
<1> QED BY <1>1, <1>2, <1>4, <1>5, <1>6 DEF x

\* The slices of everything but caches and Files
LEMMA OtherSlices ==
  ASSUME TypeInv, UNCHANGED <<lookups, casts, sends>>
  PROVE  /\ LookupsOK' /\ LookupSlices' \subseteq LookupSlices
         /\ CastsOK' /\ CastSlices' \subseteq CastSlices
         /\ SendsOK' /\ SendSlices' \subseteq SendSlices
BY FewerLookups, FewerCasts, FewerSends DEF TypeInv, RecordsOK

LEMMA ReadAllDoes ==
  ASSUME TypeInv, NEW n \in Nodes, NEW f \in OpenSlots(n), ReadAll(n, f)
  PROVE  RecordsOK' /\ LeavesBytes
<1> DEFINE old == files[n][f]
           d == cache[n].items[old.name]
           file == [old EXCEPT !.data = d]
<1>1. f \in Slots /\ old \in FileType
  BY FilesSlice
<1>2. d \in SliceType /\ Owned(n, old.name, d) \in Slices
  BY CachedSlice DEF ReadAll, Holds, TypeInv, RecordsOK, CachesOK, Slices
<1>3. CachesOK' /\ CacheSlices' \subseteq CacheSlices
  BY GetDoes DEF ReadAll, TypeInv, RecordsOK
<1>4. files' = [files EXCEPT ![n][f] = file]
  BY DEF ReadAll
<1> HIDE DEF d
<1>5. file \in FileType /\ file.name = old.name /\ file.data = d
  BY <1>1, <1>2 DEF FileType
<1> HIDE DEF file
<1>6. FilesOK' /\ FileSlices' \subseteq Slices
  BY <1>1, <1>2, <1>4, <1>5, FileIsSet DEF TypeInv, RecordsOK, Slices
<1>7. Collect(heap) /\ UNCHANGED <<lookups, casts, sends, wrote>>
  BY DEF ReadAll
<1>8. RecordsOK'
  BY <1>3, <1>6, <1>7, OtherSlices, SameWrites DEF RecordsOK, TypeInv
<1> QED BY <1>3, <1>6, <1>7, <1>8, OtherSlices, NothingNew DEF Slices

\* A File object some fields of which are changed: tlapm needs to be told that it
\* is still a record of the same kind.
LEMMA StillAFile ==
  ASSUME NEW old \in FileType, NEW g, g = [x \in DOMAIN old |-> g[x]], g.name = old.name,
         g.data \in SliceType, g.stage \in {"idle", "grown", "copied"}, g.w \in Byte,
         g.off \in 0 .. MaxLen
  PROVE  g \in FileType
<1>1. DOMAIN old = {"name", "data", "stage", "w", "off"} /\ old.name \in Names
  BY DEF FileType
<1>2. g = [name |-> g.name, data |-> g.data, stage |-> g.stage, w |-> g.w, off |-> g.off]
  BY <1>1
<1> QED BY <1>1, <1>2 DEF FileType

LEMMA EndedFile ==
  ASSUME NEW old \in FileType
  PROVE  /\ Ended(old) \in FileType /\ Ended(old).name = old.name
         /\ Ended(old).data = old.data /\ Ended(old).stage = "idle"
<1> DEFINE g == Ended(old)
<1>1. DOMAIN old = {"name", "data", "stage", "w", "off"} /\ old.data \in SliceType
  BY DEF FileType
<1>2. /\ g = [x \in DOMAIN old |-> g[x]] /\ g.name = old.name /\ g.data = old.data
      /\ g.stage = "idle" /\ g.w = 0 /\ g.off = 0
  BY <1>1 DEF Ended
<1>3. 0 \in Byte /\ 0 \in 0 .. MaxLen
  BY NodusAssumption DEF Byte
<1> HIDE DEF g
<1>4. g \in FileType
  BY <1>1, <1>2, <1>3, StillAFile
<1> QED BY <1>2, <1>4 DEF g

\* File.Write begins: the File object with the slice d that it has grown to
LEMMA FileBegins ==
  ASSUME TypeInv, NEW n \in Nodes, NEW f \in OpenSlots(n), NEW off \in 0 .. MaxLen - 1,
         Len(wrote) + 1 <= MaxWrites, NEW d \in SliceType,
         files' = [files EXCEPT ![n][f] =
                     [@ EXCEPT !.data = d, !.stage = "grown", !.w = Len(wrote) + 1, !.off = off]]
  PROVE  /\ FilesOK'
         /\ FileSlices' \subseteq FileSlices \cup {Owned(n, files[n][f].name, d)}
<1> DEFINE old == files[n][f]
           w == Len(wrote) + 1
<1>1. f \in Slots /\ old \in FileType
  BY FilesSlice
<1>2. Len(wrote) \in Nat /\ w \in Byte /\ off \in 0 .. MaxLen
  BY LenProperties, NodusAssumption DEF TypeInv, RecordsOK, WroteOK, Byte
<1>3. PICK file : file = [old EXCEPT !.data = d, !.stage = "grown", !.w = w, !.off = off]
  OBVIOUS
<1>4. files' = [files EXCEPT ![n][f] = file]
  BY <1>3
<1>5. file \in FileType /\ file.name = old.name /\ file.data = d
  <2> HIDE DEF old, w
  <2>1. DOMAIN old = {"name", "data", "stage", "w", "off"}
    BY <1>1 DEF FileType
  <2>2. /\ file = [x \in DOMAIN old |-> file[x]] /\ file.name = old.name /\ file.data = d
        /\ file.stage = "grown" /\ file.w = w /\ file.off = off
    BY <1>3, <2>1
  <2> QED BY <1>1, <1>2, <2>2, StillAFile
<1> QED BY <1>1, <1>4, <1>5, FileIsSet DEF TypeInv, RecordsOK

LEMMA WriteGrowDoes ==
  ASSUME TypeInv, Roomy, NEW n \in Nodes, NEW f \in OpenSlots(n),
         NEW off \in 0 .. MaxLen - 1, WriteGrow(n, f, off)
  PROVE  /\ RecordsOK' /\ LeavesBytes
         /\ LET file == files[n][f]
            IN  off + 1 > file.data.len =>
                  Fills(n, file.name, NewBuf, Bytes(file.data), off + 1)
<1> DEFINE old == files[n][f]
           begun(d) == [old EXCEPT !.data = d, !.stage = "grown", !.w = Len(wrote) + 1, !.off = off]
<1>1. /\ f \in Slots /\ old \in FileType /\ old.name \in Names
      /\ Owned(n, old.name, old.data) \in Slices
      /\ Bytes(old.data) \in Seq(Byte)
      /\ Bytes(old.data) \in Sources(old.name)
      /\ old.data \in SliceType
      /\ Named(old.name)
  BY FilesSlice DEF Fits
<1>2. /\ Len(wrote) + 1 <= MaxWrites
      /\ wrote' = Append(wrote, [name |-> old.name, off |-> off])
      /\ UNCHANGED <<cache, lookups, casts, sends>>
  BY DEF WriteGrow
<1>3. WroteOK'
  <2>1. [name |-> old.name, off |-> off] \in [name : Names, off : 0 .. MaxLen - 1]
    BY <1>1
  <2> QED BY <1>2, <2>1 DEF WroteOK, TypeInv, RecordsOK
<1>4. /\ CachesOK' /\ CacheSlices' = CacheSlices
      /\ LookupsOK' /\ LookupSlices' \subseteq LookupSlices
      /\ CastsOK' /\ CastSlices' \subseteq CastSlices
      /\ SendsOK' /\ SendSlices' \subseteq SendSlices
  BY <1>2, OtherSlices, SameCaches DEF TypeInv, RecordsOK
<1>5. CASE off + 1 > old.data.len
  <2> DEFINE d == Slice(NewBuf, off + 1)
             x == Owned(n, old.name, d)
  <2>1. off + 1 \in 1 .. MaxLen /\ off + 1 \in 0 .. MaxLen
    BY NodusAssumption
  <2>2. NewBuf \in Bufs
    BY NewBufIsFree
  <2>3. d \in SliceType /\ d.buf = NewBuf
    BY <2>1, <2>2, NewSlice DEF Slice
  <2>4. /\ files' = [files EXCEPT ![n][f] =
                     [@ EXCEPT !.data = d, !.stage = "grown", !.w = Len(wrote) + 1, !.off = off]]
        /\ Collect(HeapWith(d.buf, Resized(Bytes(old.data), off + 1)))
    BY <1>5 DEF WriteGrow
  <2>5. Collect(HeapWith(NewBuf, Resized(Bytes(old.data), off + 1)))
    BY <2>3, <2>4
  <2>6. x = Owned(n, old.name, Slice(NewBuf, off + 1))
    OBVIOUS
  <2> HIDE DEF d
  <2>7. FilesOK' /\ FileSlices' \subseteq FileSlices \cup {x}
    BY <1>2, <2>3, <2>4, FileBegins
  <2>8. RecordsOK'
    BY <1>3, <1>4, <2>7 DEF RecordsOK
  <2> HIDE DEF x
  <2>9. /\ CacheSlices' \subseteq Slices \cup {x} /\ FileSlices' \subseteq Slices \cup {x}
        /\ LookupSlices' \subseteq Slices \cup {x} /\ CastSlices' \subseteq Slices \cup {x}
        /\ SendSlices' \subseteq Slices \cup {x}
    <3> HIDE DEF old
    <3> QED BY <1>4, <2>7 DEF Slices
  <2>10. LeavesBytes /\ Fills(n, old.name, NewBuf, Bytes(old.data), off + 1)
    <3> HIDE DEF old
    <3> QED BY <1>1, <2>1, <2>5, <2>6, <2>8, <2>9, OneNew
  <2> QED BY <2>8, <2>10
<1>6. CASE ~ (off + 1 > old.data.len)
  <2>1. /\ files' = [files EXCEPT ![n][f] =
                     [@ EXCEPT !.data = old.data, !.stage = "grown", !.w = Len(wrote) + 1, !.off = off]]
        /\ UNCHANGED heap
    BY <1>6 DEF WriteGrow
  <2>2. FilesOK' /\ FileSlices' \subseteq Slices
    BY <1>1, <1>2, <2>1, FileBegins DEF Slices
  <2>3. RecordsOK'
    BY <1>3, <1>4, <2>2 DEF RecordsOK
  <2>4. LeavesBytes
    BY <1>4, <2>1, <2>2, <2>3, NothingNew DEF Slices
  <2> QED BY <1>6, <2>3, <2>4
<1> QED BY <1>5, <1>6

\* A File whose name and slice stay the same is put back into its slot.
LEMMA FileKeepsSlice ==
  ASSUME TypeInv, NEW n \in Nodes, NEW f \in OpenSlots(n), NEW file \in FileType,
         file.name = files[n][f].name, file.data = files[n][f].data,
         files' = [files EXCEPT ![n][f] = file]
  PROVE  FilesOK' /\ FileSlices' \subseteq FileSlices
<1>1. f \in Slots /\ Owned(n, file.name, file.data) \in FileSlices
  BY FilesSlice DEF FileSlices, Owned
<1> QED BY <1>1, FileIsSet DEF TypeInv, RecordsOK

LEMMA WriteCopyDoes ==
  ASSUME TypeInv, NEW n \in Nodes, NEW f \in OpenSlots(n), WriteCopy(n, f)
  PROVE  /\ RecordsOK' /\ Kinds
         /\ LET file == files[n][f]
            IN  file.off < file.data.len => PutsByte(n, f)
<1> DEFINE old == files[n][f]
<1>1. old \in FileType
  BY FilesSlice
<1>2. PICK file : /\ file = IF old.off > old.data.len THEN Ended(old)
                            ELSE [old EXCEPT !.stage = "copied"]
                  /\ files' = [files EXCEPT ![n][f] = file]
  BY DEF WriteCopy
<1>3. file \in FileType /\ file.name = old.name /\ file.data = old.data
  <2>1. CASE old.off > old.data.len
    BY <1>1, <1>2, <2>1, EndedFile
  <2>2. CASE ~ (old.off > old.data.len)
    <3> HIDE DEF old
    <3> QED BY <1>1, <1>2, <2>2 DEF FileType
  <2> QED BY <2>1, <2>2
<1>4. FilesOK' /\ FileSlices' \subseteq FileSlices
  BY <1>2, <1>3, FileKeepsSlice
<1>5. UNCHANGED <<cache, lookups, casts, sends, wrote>>
  BY DEF WriteCopy
<1>6. /\ CachesOK' /\ CacheSlices' = CacheSlices /\ WroteOK'
      /\ LookupsOK' /\ LookupSlices' \subseteq LookupSlices
      /\ CastsOK' /\ CastSlices' \subseteq CastSlices
      /\ SendsOK' /\ SendSlices' \subseteq SendSlices
  BY <1>5, OtherSlices, SameCaches, SameWrites DEF TypeInv, RecordsOK
<1>7. RecordsOK'
  BY <1>4, <1>6 DEF RecordsOK
<1>8. CASE old.off < old.data.len
  <2>1. Slices' \subseteq Slices
    BY <1>4, <1>6 DEF Slices
  <2>2. PutsByte(n, f)
    BY <1>5, <1>8, <2>1 DEF WriteCopy, PutsByte
  <2> QED BY <1>7, <2>2 DEF Kinds
<1>9. CASE ~ (old.off < old.data.len)
  <2>1. UNCHANGED heap
    BY <1>9 DEF WriteCopy
  <2>2. Kinds
    BY <1>4, <1>6, <1>7, <2>1, NothingNew DEF Slices, Kinds
  <2> QED BY <1>7, <1>9, <2>2
<1> QED BY <1>8, <1>9

\* The end of a Write shares its slice and makes none.
LEMMA PublishMakesNone ==
  ASSUME TypeInv, NEW n \in Nodes, NEW f \in OpenSlots(n), WritePublish(n, f)
  PROVE  RecordsOK' /\ Collect(heap) /\ Slices' \subseteq Slices
<1> DEFINE old == files[n][f]
           b == [w |-> old.w, from |-> n, name |-> old.name, data |-> old.data]
<1>1. /\ old \in FileType /\ old.name \in Names /\ old.data \in SliceType /\ old.w \in Byte
      /\ Owned(n, old.name, old.data) \in Slices
  BY FilesSlice DEF Fits, FileType
<1>2. FilesOK' /\ FileSlices' \subseteq FileSlices
  <2>1. files' = [files EXCEPT ![n][f] = Ended(old)]
    BY DEF WritePublish
  <2>2. Ended(old) \in FileType /\ Ended(old).name = old.name /\ Ended(old).data = old.data
    BY <1>1, EndedFile
  <2> QED BY <2>1, <2>2, FileKeepsSlice
<1>3. CachesOK' /\ CacheSlices' \subseteq Slices
  BY <1>1, PutDoes DEF WritePublish, Slices, TypeInv, RecordsOK
<1>4. Collect(heap) /\ UNCHANGED <<lookups, sends, wrote>> /\ casts' = casts \cup {b}
  BY DEF WritePublish
<1>5. CastsOK' /\ CastSlices' \subseteq Slices
  <2>1. b \in CastType
    BY <1>1 DEF CastType
  <2>2. Owned(b.from, b.name, b.data) \in Slices
    BY <1>1
  <2> HIDE DEF b, old
  <2>3. \A a \in casts : Owned(a.from, a.name, a.data) \in Slices
    BY DEF Slices, CastSlices, Owned
  <2> QED BY <1>4, <2>1, <2>2, <2>3 DEF CastsOK, CastSlices, TypeInv, RecordsOK, Owned
<1>6. /\ LookupsOK' /\ LookupSlices' \subseteq LookupSlices
      /\ SendsOK' /\ SendSlices' \subseteq SendSlices /\ WroteOK'
  BY <1>4, FewerLookups, FewerSends, SameWrites DEF TypeInv, RecordsOK
<1>7. RecordsOK'
  BY <1>2, <1>3, <1>5, <1>6 DEF RecordsOK
<1> QED BY <1>2, <1>3, <1>4, <1>5, <1>6, <1>7 DEF Slices

LEMMA WritePublishDoes ==
  ASSUME TypeInv, NEW n \in Nodes, NEW f \in OpenSlots(n), WritePublish(n, f)
  PROVE  RecordsOK' /\ LeavesBytes
<1>1. RecordsOK' /\ Collect(heap) /\ Slices' \subseteq Slices
  BY PublishMakesNone
<1> QED BY <1>1, NothingNew DEF Slices

LEMMA FlushDoes ==
  ASSUME TypeInv, NEW n \in Nodes, NEW f \in OpenSlots(n), NEW last \in BOOLEAN,
         Flush(n, f, last)
  PROVE  RecordsOK' /\ LeavesBytes
<1> DEFINE old == files[n][f]
<1>1. /\ f \in Slots /\ old.name \in Names /\ old.data \in SliceType
      /\ Owned(n, old.name, old.data) \in Slices
  BY FilesSlice DEF Fits
<1>2. CachesOK' /\ CacheSlices' \subseteq Slices
  BY <1>1, PutDoes DEF Flush, Slices, TypeInv, RecordsOK
<1>3. FilesOK' /\ FileSlices' \subseteq FileSlices
  <2>1. CASE last
    <3>1. files' = [files EXCEPT ![n][f] = NoFile]
      BY <2>1 DEF Flush
    <3> QED BY <1>1, <3>1, FileIsSet DEF TypeInv, RecordsOK
  <2>2. CASE ~ last
    BY <2>2, SameFiles DEF Flush, TypeInv, RecordsOK
  <2> QED BY <2>1, <2>2
<1>4. Collect(heap) /\ UNCHANGED <<lookups, casts, sends, wrote>>
  BY DEF Flush
<1>5. RecordsOK'
  BY <1>2, <1>3, <1>4, OtherSlices, SameWrites DEF RecordsOK, TypeInv
<1> QED BY <1>2, <1>3, <1>4, <1>5, OtherSlices, NothingNew DEF Slices

LEMMA SetattrDoes ==
  ASSUME TypeInv, Roomy, NEW n \in Nodes, NEW f \in OpenSlots(n), NEW size \in 0 .. MaxLen,
         Setattr(n, f, size)
  PROVE  /\ RecordsOK' /\ LeavesBytes
         /\ LET file == files[n][f]
            IN  size > file.data.len =>
                  Fills(n, file.name, NewBuf, Bytes(file.data), size)
<1> DEFINE old == files[n][f]
           d == CASE size < old.data.len -> Slice(old.data.buf, size)
                  [] size > old.data.len -> Slice(NewBuf, size)
                  [] OTHER -> old.data
           x == Owned(n, old.name, d)
<1>1. /\ f \in Slots /\ old \in FileType /\ old.name \in Names
      /\ Owned(n, old.name, old.data) \in Slices
      /\ Bytes(old.data) \in Seq(Byte)
      /\ Bytes(old.data) \in Sources(old.name)
      /\ Fits(heap, old.data)
      /\ Named(old.name)
  BY FilesSlice
<1>2. /\ files' = [files EXCEPT ![n][f].data = d]
      /\ Put(n, old.name, d)
      /\ UNCHANGED <<lookups, casts, sends, wrote>>
      /\ Collect(IF size > old.data.len
                 THEN HeapWith(d.buf, Resized(Bytes(old.data), size)) ELSE heap)
  BY DEF Setattr
<1>3. old.data.len \in 0 .. MaxLen /\ old.data.len \in Nat /\ size \in Nat
  BY <1>1, NodusAssumption DEF Fits, SliceType
<1>4. NewBuf \in Bufs
  BY NewBufIsFree
<1>5. /\ size < old.data.len => d = Slice(old.data.buf, size)
      /\ size > old.data.len => d = Slice(NewBuf, size)
      /\ size = old.data.len => d = old.data
  BY <1>3
<1> HIDE DEF d
<1>6. d \in SliceType
  <2>1. CASE size < old.data.len
    BY <1>1, <1>3, <1>5, <2>1, NewSlice DEF Fits
  <2>2. CASE size > old.data.len
    BY <1>4, <1>5, <2>2, NewSlice
  <2>3. CASE size = old.data.len
    BY <1>1, <1>5, <2>3 DEF Fits
  <2> QED BY <1>3, <2>1, <2>2, <2>3
<1>7. FilesOK' /\ FileSlices' \subseteq FileSlices \cup {x}
  <2>1. PICK file : file = [old EXCEPT !.data = d]
    OBVIOUS
  <2>2. files' = [files EXCEPT ![n][f] = file]
    BY <1>2, <2>1
  <2>3. file \in FileType /\ file.name = old.name /\ file.data = d
    <3> HIDE DEF old
    <3> QED BY <1>1, <1>6, <2>1 DEF FileType
  <2> QED BY <1>1, <2>2, <2>3, FileIsSet DEF TypeInv, RecordsOK
<1>8. CachesOK' /\ CacheSlices' \subseteq CacheSlices \cup {x}
  BY <1>1, <1>2, <1>6, PutDoes DEF TypeInv, RecordsOK
<1>9. /\ LookupsOK' /\ LookupSlices' \subseteq LookupSlices
      /\ CastsOK' /\ CastSlices' \subseteq CastSlices
      /\ SendsOK' /\ SendSlices' \subseteq SendSlices /\ WroteOK'
  BY <1>2, OtherSlices, SameWrites DEF TypeInv, RecordsOK
<1>10. RecordsOK'
  BY <1>7, <1>8, <1>9 DEF RecordsOK
<1>11. /\ CacheSlices' \subseteq Slices \cup {x} /\ FileSlices' \subseteq Slices \cup {x}
       /\ LookupSlices' \subseteq Slices \cup {x} /\ CastSlices' \subseteq Slices \cup {x}
       /\ SendSlices' \subseteq Slices \cup {x}
  <2> HIDE DEF x
  <2> QED BY <1>7, <1>8, <1>9 DEF Slices
<1>12. CASE size > old.data.len
  <2>1. size \in 1 .. MaxLen
    BY <1>3, <1>12
  <2>2. d.buf = NewBuf
    BY <1>5, <1>12, <2>1 DEF Slice
  <2>3. Collect(HeapWith(NewBuf, Resized(Bytes(old.data), size)))
    BY <1>2, <1>12, <2>2
  <2>4. x = Owned(n, old.name, Slice(NewBuf, size))
    BY <1>5, <1>12
  <2>5. LeavesBytes /\ Fills(n, old.name, NewBuf, Bytes(old.data), size)
    <3> HIDE DEF x, old
    <3> QED BY <1>1, <1>10, <1>11, <2>1, <2>3, <2>4, OneNew
  <2> QED BY <1>10, <2>5
<1>13. CASE ~ (size > old.data.len)
  <2>1. Collect(heap)
    BY <1>2, <1>13
  <2>2. Inside(x)
    <3>0. x.data = d /\ x.node = n /\ x.name = old.name
      BY DEF Owned
    <3>1. CASE size = old.data.len
      BY <1>1, <1>5, <3>1, SliceIsInside DEF TypeInv
    <3>2. CASE size < old.data.len
      <4>1. CASE size = 0
        BY <1>1, <1>5, <3>0, <3>2, <4>1 DEF Inside, Slice
      <4>2. CASE size # 0
        <5> DEFINE y == Owned(n, old.name, old.data)
        <5>1. d.buf = old.data.buf /\ d.len = size /\ size \in 1 .. old.data.len
          BY <1>3, <1>5, <3>2, <4>2 DEF Slice
        <5>2. y \in Slices /\ y.node = n /\ y.name = old.name /\ y.data = old.data
          BY <1>1 DEF Owned
        <5> QED BY <3>0, <5>1, <5>2 DEF Inside
      <4> QED BY <4>1, <4>2
    <3> QED BY <1>3, <1>13, <3>1, <3>2
  <2> HIDE DEF x
  <2>3. \A y \in Slices' : y \in Slices \/ y = x
    BY <1>11 DEF Slices
  <2>4. \A y \in Slices' : Inside(y)
    BY <2>2, <2>3, SliceIsInside DEF TypeInv
  <2>5. LeavesBytes
    BY <2>1, <2>4 DEF LeavesBytes, Shares
  <2> QED BY <1>10, <1>13, <2>5
<1> QED BY <1>12, <1>13

LEMMA RemoveFileDoes ==
  ASSUME TypeInv, NEW n \in Nodes, NEW m \in Names, RemoveFile(n, m)
  PROVE  RecordsOK' /\ LeavesBytes
<1>1. CachesOK' /\ CacheSlices' \subseteq CacheSlices
  BY DeleteDoes DEF RemoveFile, TypeInv, RecordsOK
<1>2. Collect(heap) /\ UNCHANGED <<files, lookups, casts, sends, wrote>>
  BY DEF RemoveFile
<1>3. RecordsOK'
  BY <1>1, <1>2, SameFiles, OtherSlices, SameWrites DEF RecordsOK, TypeInv
<1> QED BY <1>1, <1>2, <1>3, SameFiles, OtherSlices, NothingNew DEF Slices, TypeInv, RecordsOK

-----------------------------------------------------------------------------
(* The steps of the goroutines *)

LEMMA BroadcastDoes ==
  ASSUME TypeInv, NEW b \in casts, Broadcast(b)
  PROVE  RecordsOK' /\ LeavesBytes
<1> DEFINE new(p) == [w |-> b.w, from |-> b.from, to |-> p, name |-> b.name,
                      data |-> b.data, got |-> << >>, flow |-> "moves"]
<1>1. b \in CastType /\ Owned(b.from, b.name, b.data) \in Slices
  BY DEF TypeInv, RecordsOK, CastsOK, Slices, CastSlices, Owned
<1>2. /\ casts' \subseteq casts /\ Collect(heap)
      /\ sends' = sends \cup {new(p) : p \in ConnectedPeers(b.from)}
      /\ UNCHANGED <<cache, files, lookups, wrote>>
  BY DEF Broadcast
<1>3. ASSUME NEW p \in ConnectedPeers(b.from)
      PROVE  /\ new(p) \in SendType /\ PartSent(new(p))
             /\ Owned(new(p).from, new(p).name, new(p).data) \in Slices
  <2>1. p \in Nodes /\ << >> \in Seq(Byte) /\ b.data.len \in Nat
    BY <1>1, NodusAssumption DEF ConnectedPeers, CastType, SliceType
  <2> QED BY <1>1, <2>1 DEF CastType, SendType, PartSent
<1> HIDE DEF new
<1>4. SendsOK'
  BY <1>2, <1>3 DEF SendsOK, TypeInv, RecordsOK, PartSent
<1>5. SendSlices' \subseteq Slices
  <2>1. \A s \in sends : Owned(s.from, s.name, s.data) \in Slices
    BY DEF Slices, SendSlices, Owned
  <2> QED BY <1>2, <1>3, <2>1 DEF SendSlices, Owned
<1>6. /\ CachesOK' /\ CacheSlices' = CacheSlices
      /\ FilesOK' /\ FileSlices' = FileSlices
      /\ LookupsOK' /\ LookupSlices' \subseteq LookupSlices
      /\ CastsOK' /\ CastSlices' \subseteq CastSlices /\ WroteOK'
  BY <1>2, SameCaches, SameFiles, FewerLookups, FewerCasts, SameWrites DEF TypeInv, RecordsOK
<1>7. RecordsOK'
  BY <1>4, <1>6 DEF RecordsOK
<1> QED BY <1>2, <1>5, <1>6, <1>7, NothingNew DEF Slices

\* A send under way
LEMMA SendParts ==
  ASSUME TypeInv, NEW s \in sends
  PROVE  /\ s \in SendType /\ PartSent(s)
         /\ s.to \in Nodes /\ s.name \in Names /\ s.got \in Seq(Byte)
         /\ Owned(s.from, s.name, s.data) \in Slices
         /\ Fits(heap, s.data)
         /\ s.got \in Sources(s.name)
<1>1. s \in SendType /\ PartSent(s) /\ Owned(s.from, s.name, s.data) \in Slices
  BY DEF TypeInv, RecordsOK, SendsOK, Slices, SendSlices, Owned
<1>2. Fits(heap, Owned(s.from, s.name, s.data).data)
  BY <1>1 DEF TypeInv
<1>3. Owned(s.from, s.name, s.data).data = s.data
  BY DEF Owned
<1>4. s.got \in Sources(s.name)
  BY DEF Sources
<1> QED BY <1>1, <1>2, <1>3, <1>4 DEF SendType

LEMMA SendByteDoes ==
  ASSUME TypeInv, NEW s \in sends, SendByte(s)
  PROVE  RecordsOK' /\ LeavesBytes
<1>1. /\ s \in SendType /\ s.got \in Seq(Byte) /\ Fits(heap, s.data)
      /\ Len(s.got) < s.data.len
      /\ Owned(s.from, s.name, s.data) \in Slices
  BY SendParts DEF SendByte
<1> DEFINE g == Append(s.got, NextByte(s))
           t == [s EXCEPT !.got = g]
<1>2. g \in Seq(Byte) /\ Len(g) <= s.data.len
  BY <1>1, NextByteIsByte
<1>3. /\ sends' = (sends \ {s}) \cup {t}
      /\ UNCHANGED <<heap, cache, files, lookups, casts, wrote>>
  BY DEF SendByte
<1> HIDE DEF g
<1>4. /\ t \in SendType /\ PartSent(t)
      /\ Owned(t.from, t.name, t.data) \in Slices
  BY <1>1, <1>2 DEF SendType, PartSent
<1> HIDE DEF t
<1>5. SendsOK'
  BY <1>3, <1>4 DEF SendsOK, TypeInv, RecordsOK, PartSent
<1>6. SendSlices' \subseteq Slices
  <2>1. \A r \in sends : Owned(r.from, r.name, r.data) \in Slices
    BY DEF Slices, SendSlices, Owned
  <2> QED BY <1>3, <1>4, <2>1 DEF SendSlices, Owned
<1>7. /\ CachesOK' /\ CacheSlices' = CacheSlices
      /\ FilesOK' /\ FileSlices' = FileSlices
      /\ LookupsOK' /\ LookupSlices' \subseteq LookupSlices
      /\ CastsOK' /\ CastSlices' \subseteq CastSlices /\ WroteOK'
  BY <1>3, SameCaches, SameFiles, FewerLookups, FewerCasts, SameWrites DEF TypeInv, RecordsOK
<1>8. RecordsOK'
  BY <1>5, <1>7 DEF RecordsOK
<1> QED BY <1>3, <1>6, <1>7, <1>8, NothingNew DEF Slices

\* A step after which every send is an old one, or one whose stream has stalled or
\* has broken
FlowChanges ==
  \A t \in sends' :
    \/ t \in sends
    \/ \E s \in sends, x \in {"stalls", "broken"} : t = [s EXCEPT !.flow = x]

LEMMA FlowChangesFlow ==
  ASSUME NEW s \in SendType, NEW x \in {"stalls", "broken"}, NEW t, t = [s EXCEPT !.flow = x]
  PROVE  /\ t \in SendType
         /\ t.from = s.from /\ t.name = s.name /\ t.data = s.data /\ t.got = s.got
BY DEF SendType

LEMMA SomeChangeFlow ==
  ASSUME SendsOK, FlowChanges
  PROVE  SendsOK' /\ SendSlices' \subseteq SendSlices
<1>1. \A t \in sends' : t \in SendType /\ PartSent(t)
  BY FlowChangesFlow DEF SendsOK, FlowChanges, PartSent
<1>2. \A t \in sends' : \E s \in sends : t.from = s.from /\ t.name = s.name /\ t.data = s.data
  BY FlowChangesFlow DEF SendsOK, FlowChanges
<1>3. SendSlices' \subseteq SendSlices
  BY <1>2 DEF SendSlices
<1> QED BY <1>1, <1>3 DEF SendsOK, PartSent

LEMMA SendStallsDoes ==
  ASSUME TypeInv, NEW s \in sends, SendStalls(s)
  PROVE  RecordsOK' /\ LeavesBytes
<1>1. UNCHANGED <<heap, cache, files, lookups, casts, wrote>>
  BY DEF SendStalls
<1>2. FlowChanges
  BY DEF SendStalls, FlowChanges
<1>3. SendsOK' /\ SendSlices' \subseteq SendSlices
  BY <1>2, SomeChangeFlow DEF TypeInv, RecordsOK
<1>4. LookupsOK' /\ LookupSlices' \subseteq LookupSlices
  BY <1>1, FewerLookups DEF TypeInv, RecordsOK
<1> QED BY <1>1, <1>3, <1>4, OnlyStreams

\* The receiver stores what has come of a send.
LEMMA ReceiveDoes ==
  ASSUME TypeInv, Roomy, NEW s \in sends, NEW got \in Seq(Byte),
         got \in Sources(s.name) \/ "coalesce" \in Allowed, Receive(s, got)
  PROVE  RecordsOK' /\ LeavesBytes
<1> DEFINE k == s.data.len
           d == Slice(NewBuf, k)
           x == Owned(s.to, s.name, d)
<1>1. s.to \in Nodes /\ s.name \in Names /\ k \in 0 .. MaxLen /\ Named(s.name)
  BY SendParts, StreamsAreNamed DEF Fits, SliceType
<1>2. NewBuf \in Bufs
  BY NewBufIsFree
<1>3. d \in SliceType
  BY <1>1, <1>2, NewSlice
<1>4. /\ sends' \subseteq sends /\ Put(s.to, s.name, d)
      /\ UNCHANGED <<files, lookups, casts, wrote>>
      /\ IF d.len = 0 THEN Collect(heap) ELSE Collect(HeapWith(d.buf, Resized(got, d.len)))
  BY DEF Receive
<1>5. d.len = k /\ (k # 0 => d.buf = NewBuf) /\ (k = 0 => d = Slice(0, 0))
  BY DEF Slice
<1>6. x = Owned(s.to, s.name, Slice(NewBuf, k))
  OBVIOUS
<1> HIDE DEF d, k
<1>7. CachesOK' /\ CacheSlices' \subseteq CacheSlices \cup {x}
  BY <1>1, <1>3, <1>4, PutDoes DEF TypeInv, RecordsOK
<1> HIDE DEF x
<1>8. /\ FilesOK' /\ FileSlices' = FileSlices
      /\ LookupsOK' /\ LookupSlices' \subseteq LookupSlices
      /\ CastsOK' /\ CastSlices' \subseteq CastSlices
      /\ SendsOK' /\ SendSlices' \subseteq SendSlices /\ WroteOK'
  BY <1>4, SameFiles, FewerLookups, FewerCasts, FewerSends, SameWrites DEF TypeInv, RecordsOK
<1>9. RecordsOK'
  BY <1>7, <1>8 DEF RecordsOK
<1>10. CASE k = 0
  <2>1. Collect(heap)
    BY <1>4, <1>5, <1>10
  <2>2. x.data = Slice(0, 0)
    BY <1>5, <1>10 DEF x, Owned
  <2>3. Inside(x)
    BY <1>1, <2>2 DEF Inside, x, Owned
  <2>4. \A y \in Slices' : y \in Slices \/ y = x
    BY <1>7, <1>8 DEF Slices
  <2>5. \A y \in Slices' : Inside(y)
    BY <2>3, <2>4, SliceIsInside DEF TypeInv
  <2> QED BY <1>9, <2>1, <2>5 DEF LeavesBytes, Shares
<1>11. CASE k # 0
  <2>1. k \in 1 .. MaxLen
    BY <1>1, <1>11
  <2>2. Collect(HeapWith(NewBuf, Resized(got, k)))
    BY <1>4, <1>5, <1>11
  <2>3. /\ CacheSlices' \subseteq Slices \cup {x} /\ FileSlices' \subseteq Slices \cup {x}
        /\ LookupSlices' \subseteq Slices \cup {x} /\ CastSlices' \subseteq Slices \cup {x}
        /\ SendSlices' \subseteq Slices \cup {x}
    BY <1>7, <1>8 DEF Slices
  <2> QED BY <1>1, <1>6, <1>9, <2>1, <2>2, <2>3, OneNew
<1> QED BY <1>10, <1>11

LEMMA DeliverDoes ==
  ASSUME TypeInv, Roomy, NEW s \in sends, Deliver(s)
  PROVE  RecordsOK' /\ LeavesBytes
<1>1. s.got \in Seq(Byte) /\ s.got \in Sources(s.name) /\ Len(s.got) = s.data.len
  BY SendParts DEF Deliver
<1>2. PICK drop \in 0 .. s.data.len :
        /\ drop = 0 \/ "coalesce" \in Allowed
        /\ Receive(s, SubSeq(s.got, drop + 1, Len(s.got)))
  BY DEF Deliver
<1> DEFINE got == SubSeq(s.got, drop + 1, Len(s.got))
<1>3. got \in Seq(Byte)
  <2>1. Len(s.got) \in Nat /\ drop \in 0 .. Len(s.got)
    BY <1>1, <1>2, LenProperties
  <2>2. \A i \in drop + 1 .. Len(s.got) : s.got[i] \in Byte
    BY <1>1, <2>1
  <2> QED BY <1>1, <2>1, <2>2, SubSeqProperties
<1>4. drop = 0 => got = s.got
  <2>1. Len(s.got) \in Nat
    BY <1>1, LenProperties
  <2>2. SubSeq(s.got, 1, Len(s.got)) = s.got
    BY <1>1, <2>1
  <2> QED BY <2>2
<1> HIDE DEF got
<1> QED BY <1>1, <1>2, <1>3, <1>4, ReceiveDoes DEF got

LEMMA SendFailsDoes ==
  ASSUME TypeInv, Roomy, NEW s \in sends, SendFails(s)
  PROVE  RecordsOK' /\ LeavesBytes
<1>1. CASE Receive(s, s.got)
  BY <1>1, SendParts, ReceiveDoes
<1>2. CASE ~ Receive(s, s.got)
  <2>1. /\ Collect(heap) /\ sends' \subseteq sends
        /\ UNCHANGED <<cache, files, lookups, casts, wrote>>
    BY <1>2 DEF SendFails
  <2>2. /\ CachesOK' /\ CacheSlices' = CacheSlices
        /\ FilesOK' /\ FileSlices' = FileSlices
        /\ LookupsOK' /\ LookupSlices' \subseteq LookupSlices
        /\ CastsOK' /\ CastSlices' \subseteq CastSlices
        /\ SendsOK' /\ SendSlices' \subseteq SendSlices /\ WroteOK'
    BY <2>1, SameCaches, SameFiles, FewerLookups, FewerCasts, FewerSends, SameWrites
       DEF TypeInv, RecordsOK
  <2>3. RecordsOK'
    BY <2>2 DEF RecordsOK
  <2> QED BY <2>1, <2>2, <2>3, NothingNew DEF Slices
<1> QED BY <1>1, <1>2

-----------------------------------------------------------------------------
(* Connections and processes *)

\* A step after which every Lookup is an old one, or one that gives up its peer
LEMMA SomeGiveUp ==
  ASSUME LookupsOK,
         \A d \in lookups' : d \in lookups \/ \E c \in lookups : d = Choosing(c, c.todo)
  PROVE  LookupsOK' /\ LookupSlices' \subseteq LookupSlices
<1>1. \A c \in lookups : LookupType(Choosing(c, c.todo)) /\ Choosing(c, c.todo).phase # "reading"
  BY LookupParts, ChoosingType
<1>2. LookupsOK'
  BY <1>1 DEF LookupsOK, LookupType, PartSent
<1>3. LookupSlices' \subseteq LookupSlices
  BY <1>1 DEF LookupSlices
<1> QED BY <1>2, <1>3

LEMMA LostConnection ==
  ASSUME NEW n \in Nodes, NEW p \in Nodes, Connect(n, p) \/ Disconnect(n, p)
  PROVE  FlowChanges
BY DEF Connect, Disconnect, FlowChanges

LEMMA DisconnectDoes ==
  ASSUME TypeInv, NEW n \in Nodes, NEW p \in Nodes, Connect(n, p) \/ Disconnect(n, p)
  PROVE  RecordsOK' /\ LeavesBytes
<1>1. UNCHANGED <<heap, cache, files, casts, wrote>>
  BY DEF Connect, Disconnect
<1>2. \A d \in lookups' : d \in lookups \/ \E c \in lookups : d = Choosing(c, c.todo)
  BY DEF Connect, Disconnect
<1>3. LookupsOK' /\ LookupSlices' \subseteq LookupSlices
  BY <1>2, SomeGiveUp DEF TypeInv, RecordsOK
<1>4. SendsOK' /\ SendSlices' \subseteq SendSlices
  BY LostConnection, SomeChangeFlow DEF TypeInv, RecordsOK
<1> QED BY <1>1, <1>3, <1>4, OnlyStreams

LEMMA RestartDoes ==
  ASSUME TypeInv, NEW n \in Nodes, Restart(n)
  PROVE  RecordsOK' /\ LeavesBytes
<1>1. CachesOK' /\ CacheSlices' \subseteq CacheSlices
  <2>1. cache' = [cache EXCEPT ![n] = EmptyCache]
    BY DEF Restart
  <2>2. KeptCache(EmptyCache, Names) /\ CachedKeys(EmptyCache) = {}
    BY EmptyIsKept
  <2> QED BY <2>1, <2>2, CacheIsSet DEF TypeInv, RecordsOK
<1>2. FilesOK' /\ FileSlices' \subseteq FileSlices
  <2>1. files' = [files EXCEPT ![n] = [f \in Slots |-> NoFile]]
    BY DEF Restart
  <2>2. /\ files' \in [Nodes -> [Slots -> FileType \cup {NoFile}]]
        /\ \A k \in Nodes : files'[k] = IF k = n THEN [f \in Slots |-> NoFile] ELSE files[k]
    BY <2>1 DEF TypeInv, RecordsOK, FilesOK
  <2>3. \A k \in Nodes : \A f \in OpenSlots(k)' : f \in OpenSlots(k) /\ files'[k][f] = files[k][f]
    BY <2>2 DEF OpenSlots
  <2>4. FileSlices' \subseteq FileSlices
    <3> SUFFICES ASSUME NEW x \in FileSlices' PROVE x \in FileSlices
      OBVIOUS
    <3>1. PICK k \in Nodes : \E f \in OpenSlots(k)' :
            x = [node |-> k, name |-> files'[k][f].name, data |-> files'[k][f].data]
      BY DEF FileSlices
    <3>2. \E f \in OpenSlots(k) :
            x = [node |-> k, name |-> files[k][f].name, data |-> files[k][f].data]
      BY <2>3, <3>1
    <3> QED BY <3>2 DEF FileSlices
  <2> QED BY <2>2, <2>4 DEF FilesOK
<1>3. \A d \in lookups' : d \in lookups \/ \E c \in lookups : d = Choosing(c, c.todo)
  BY DEF Restart
<1>4. LookupsOK' /\ LookupSlices' \subseteq LookupSlices
  BY <1>3, SomeGiveUp DEF TypeInv, RecordsOK
<1>5. /\ casts' \subseteq casts /\ sends' \subseteq sends
      /\ Collect(heap) /\ UNCHANGED wrote
  BY DEF Restart
<1>6. /\ CastsOK' /\ CastSlices' \subseteq CastSlices
      /\ SendsOK' /\ SendSlices' \subseteq SendSlices /\ WroteOK'
  BY <1>5, FewerCasts, FewerSends, SameWrites DEF TypeInv, RecordsOK
<1>7. RecordsOK'
  BY <1>1, <1>2, <1>4, <1>6 DEF RecordsOK
<1> QED BY <1>1, <1>2, <1>4, <1>5, <1>6, <1>7, NothingNew DEF Slices

\* Every step is of one of the kinds.
LEMMA EveryStepDoes ==
  ASSUME TypeInv, Roomy, Next
  PROVE  RecordsOK' /\ Kinds
<1>1. ASSUME NEW n \in Nodes, Request(n) PROVE RecordsOK' /\ Kinds
  BY <1>1, LookupHitDoes, RemoveFileDoes, LookupMissDoes, ReadAllDoes, WriteGrowDoes,
     FlushDoes, SetattrDoes DEF Request, Kinds
<1>2. ASSUME NEW n \in Nodes, NEW f \in OpenSlots(n), FileStep(n, f)
      PROVE  RecordsOK' /\ Kinds
  BY <1>2, WriteCopyDoes, WritePublishDoes DEF FileStep, Kinds
<1>3. ASSUME NEW c \in lookups, LookupStep(c) \/ FetchFails(c) \/ Stall(c)
      PROVE  RecordsOK' /\ Kinds
  BY <1>3, AskDoes, ServeDoes, FetchByteDoes, FetchDoneDoes, LookupFailsDoes, CreateDoes,
     FetchFailsDoes, StallDoes DEF LookupStep, Kinds
<1>4. ASSUME NEW s \in sends, SendStep(s) \/ SendFails(s) \/ SendStalls(s) PROVE RecordsOK' /\ Kinds
  BY <1>4, SendByteDoes, DeliverDoes, SendFailsDoes, SendStallsDoes DEF SendStep, Kinds
<1> QED BY <1>1, <1>2, <1>3, <1>4, RestartDoes, BroadcastDoes, DisconnectDoes DEF Next, Kinds

-----------------------------------------------------------------------------
(* What the kinds of steps leave in memory *)

SlicesTyped == RecordsOK => \A x \in Slices : x.data \in SliceType

LEMMA SlicesAreTyped == SlicesTyped
<1> SUFFICES ASSUME RecordsOK, NEW x \in Slices PROVE x.data \in SliceType
  BY DEF SlicesTyped
<1>1. CASE x \in CacheSlices
  BY <1>1 DEF CacheSlices, RecordsOK, CachesOK
<1>2. CASE x \in FileSlices
  <2>1. PICK n \in Nodes : \E f \in OpenSlots(n) : x.data = files[n][f].data
    BY <1>2 DEF FileSlices
  <2> QED BY <2>1, OpenFile DEF RecordsOK, FileType
<1>3. CASE x \in LookupSlices
  BY <1>3, LookupParts DEF LookupSlices, RecordsOK, ReadingType
<1>4. CASE x \in CastSlices
  BY <1>4 DEF CastSlices, RecordsOK, CastsOK, CastType
<1>5. CASE x \in SendSlices
  BY <1>5 DEF SendSlices, RecordsOK, SendsOK, SendType
<1> QED BY <1>1, <1>2, <1>3, <1>4, <1>5 DEF Slices

LEMMA SlicesAreTypedNext == SlicesTyped'
BY SlicesAreTyped, PTL

\* A part of a slice is as good as the slice.
LEMMA InsideFits ==
  ASSUME TypeInv, NEW x, x.data \in SliceType, Inside(x)
  PROVE  Fits(heap, x.data)
<1>1. CASE x.data = Slice(0, 0)
  BY <1>1, TheEmptySlice DEF Fits
<1>2. CASE x.data # Slice(0, 0)
  <2>1. PICK y \in Slices : y.data.buf = x.data.buf /\ x.data.len \in 1 .. y.data.len
    BY <1>2 DEF Inside
  <2>2. Fits(heap, y.data) /\ y.data.len \in Nat
    BY NodusAssumption DEF TypeInv, Fits, SliceType
  <2>3. y.data.len # 0 /\ x.data.len # 0 /\ x.data.len \in Nat /\ x.data.len <= y.data.len
    BY <2>1, <2>2
  <2>4. x.data.buf \in Bufs /\ y.data.len <= Len(heap[x.data.buf])
    BY <2>1, <2>2, <2>3 DEF Fits
  <2>5. Len(heap[x.data.buf]) \in Nat
    BY <2>4, HeapElements DEF TypeInv
  <2> QED BY <2>2, <2>3, <2>4, <2>5 DEF Fits
<1> QED BY <1>1, <1>2

SameBytes(d) == \A i \in 1 .. d.len : heap'[d.buf][i] = heap[d.buf][i]

LEMMA SharesKeeps ==
  ASSUME TypeInv, RecordsOK', Shares
  PROVE  /\ HeapOK(heap')
         /\ \A x \in Slices' : Fits(heap', x.data) /\ SameBytes(x.data)
<1>1. \A x \in Slices' : Fits(heap, x.data)
  BY InsideFits, SlicesAreTypedNext DEF Shares, SlicesTyped
<1>2. CASE heap' = heap
  BY <1>1, <1>2 DEF SameBytes, TypeInv
<1>3. CASE Collect(heap)
  BY <1>1, <1>3, Collected DEF SameBytes, TypeInv
<1> QED BY <1>2, <1>3 DEF Shares

LEMMA HeapWithOK ==
  ASSUME HeapOK(heap), NEW b \in Bufs, NEW bytes \in Seq(Byte), Len(bytes) <= MaxLen
  PROVE  /\ HeapOK(HeapWith(b, bytes))
         /\ \A a \in Bufs : HeapWith(b, bytes)[a] = IF a = b THEN bytes ELSE heap[a]
<1>1. bytes \in BoundedSeq(Byte, MaxLen)
  BY BoundedSeqElements, NodusAssumption
<1> QED BY <1>1 DEF HeapOK, HeapWith

LEMMA FillsKeeps ==
  ASSUME TypeInv, RecordsOK', NEW n \in Nodes, NEW m \in Names, NEW b \in Bufs,
         NEW src \in Seq(Byte), NEW k \in 1 .. MaxLen, Fills(n, m, b, src, k)
  PROVE  /\ HeapOK(heap')
         /\ \A x \in Slices' :
              /\ Fits(heap', x.data)
              /\ \/ Inside(x) /\ SameBytes(x.data)
                 \/ /\ x = Owned(n, m, Slice(b, k))
                    /\ x.data.buf = b /\ x.data.len = k
                    /\ \A i \in 1 .. k : heap'[b][i] = Resized(src, k)[i]
<1> DEFINE h == HeapWith(b, Resized(src, k))
<1>1. Resized(src, k) \in Seq(Byte) /\ Len(Resized(src, k)) = k /\ k <= MaxLen /\ k \in Nat
  BY ResizedBytes, NodusAssumption
<1>2. /\ HeapOK(h)
      /\ \A a \in Bufs : h[a] = IF a = b THEN Resized(src, k) ELSE heap[a]
  BY <1>1, HeapWithOK DEF TypeInv
<1>3. Collect(h)
  BY DEF Fills
<1> HIDE DEF h
<1>4. ASSUME NEW x \in Slices', Inside(x)
      PROVE  Fits(h, x.data) /\ (x.data.len # 0 => h[x.data.buf] = heap[x.data.buf])
  <2>1. Fits(heap, x.data) /\ x.data \in SliceType
    BY <1>4, InsideFits, SlicesAreTypedNext DEF SlicesTyped
  <2>2. CASE x.data.len = 0
    BY <2>1, <2>2 DEF Fits
  <2>3. CASE x.data.len # 0
    <3>1. x.data # Slice(0, 0)
      BY <2>3, TheEmptySlice
    <3>2. PICK y \in Slices : y.data.buf = x.data.buf
      BY <1>4, <3>1 DEF Inside
    <3>3. x.data.buf # b
      BY <3>2 DEF Fills
    <3>4. x.data.buf \in Bufs /\ h[x.data.buf] = heap[x.data.buf]
      BY <1>2, <2>1, <2>3, <3>3 DEF Fits
    <3> QED BY <2>1, <3>4 DEF Fits
  <2> QED BY <2>2, <2>3
<1>5. ASSUME NEW x \in Slices', x = Owned(n, m, Slice(b, k))
      PROVE  Fits(h, x.data) /\ x.data.buf = b /\ x.data.len = k
  <2>1. x.data = [buf |-> b, len |-> k]
    BY <1>1, <1>5 DEF Owned, Slice
  <2> QED BY <1>1, <1>2, <2>1 DEF Fits, SliceType
<1>6. \A x \in Slices' : Inside(x) \/ x = Owned(n, m, Slice(b, k))
  BY DEF Fills
<1>7. \A x \in Slices' : Fits(h, x.data)
  BY <1>4, <1>5, <1>6
<1>8. /\ HeapOK(heap')
      /\ \A x \in Slices' :
           /\ Fits(heap', x.data)
           /\ \A i \in 1 .. x.data.len : heap'[x.data.buf][i] = h[x.data.buf][i]
  BY <1>2, <1>3, <1>7, Collected
<1>9. ASSUME NEW x \in Slices', Inside(x) PROVE SameBytes(x.data)
  <2>1. x.data \in SliceType
    BY SlicesAreTypedNext DEF SlicesTyped
  <2>2. CASE x.data.len = 0
    BY <2>2 DEF SameBytes
  <2>3. CASE x.data.len # 0
    BY <1>4, <1>8, <1>9, <2>3 DEF SameBytes
  <2> QED BY <2>2, <2>3
<1> QED BY <1>2, <1>5, <1>6, <1>8, <1>9

LEMMA PutsByteKeeps ==
  ASSUME TypeInv, NEW n \in Nodes, NEW f \in OpenSlots(n), PutsByte(n, f)
  PROVE  LET file == files[n][f]
         IN  /\ HeapOK(heap')
             /\ \A x \in Slices' :
                  /\ x \in Slices
                  /\ Fits(heap', x.data)
                  /\ \A i \in 1 .. x.data.len :
                       heap'[x.data.buf][i] =
                         IF x.data.buf = file.data.buf /\ i = file.off + 1 THEN file.w
                         ELSE heap[x.data.buf][i]
<1> DEFINE file == files[n][f]
           b == file.data.buf
           k == file.off + 1
<1>1. file \in FileType /\ Owned(n, file.name, file.data) \in Slices
  BY OpenFile DEF TypeInv, RecordsOK, Slices, FileSlices, Owned
<1>2. Fits(heap, file.data)
  <2>1. Fits(heap, Owned(n, file.name, file.data).data)
    BY <1>1 DEF TypeInv
  <2> QED BY <2>1 DEF Owned
<1>3. file.off \in Nat /\ file.data.len \in Nat /\ file.w \in Byte /\ file.off < file.data.len
  BY <1>1, NodusAssumption DEF FileType, SliceType, PutsByte
<1>4. b \in Bufs /\ file.data.len <= Len(heap[b])
  BY <1>2, <1>3 DEF Fits
<1>5. heap' = [heap EXCEPT ![b][k] = file.w]
  BY DEF PutsByte
<1>6. heap[b] \in Seq(Byte) /\ Len(heap[b]) \in Nat /\ Len(heap[b]) <= MaxLen
  BY <1>4, HeapElements DEF TypeInv
<1>7. k \in 1 .. Len(heap[b])
  <2>1. \A o, l, h \in Nat : o < l /\ l <= h => o + 1 \in 1 .. h
    OBVIOUS
  <2> HIDE DEF b, file
  <2> QED BY <1>3, <1>4, <1>6, <2>1
<1>8. heap' = [a \in Bufs |-> IF a = b THEN [heap[b] EXCEPT ![k] = file.w] ELSE heap[a]]
  BY <1>5 DEF TypeInv, HeapOK
<1> DEFINE new == [heap[b] EXCEPT ![k] = file.w]
<1>9. /\ new \in Seq(Byte) /\ Len(new) = Len(heap[b])
      /\ \A i \in 1 .. Len(heap[b]) : new[i] = IF i = k THEN file.w ELSE heap[b][i]
  <2> HIDE DEF file, k, b
  <2> QED BY <1>3, <1>6, <1>7
<1> HIDE DEF new
<1>10. \A a \in Bufs : heap'[a] = IF a = b THEN new ELSE heap[a]
  BY <1>8 DEF new
<1>11. new \in BoundedSeq(Byte, MaxLen)
  BY <1>6, <1>9, BoundedSeqElements, NodusAssumption
<1>12. HeapOK(heap')
  <2> HIDE DEF b
  <2> QED BY <1>8, <1>10, <1>11 DEF TypeInv, HeapOK
<1>13. ASSUME NEW x \in Slices'
       PROVE  /\ x \in Slices
              /\ Fits(heap', x.data)
              /\ \A i \in 1 .. x.data.len :
                   heap'[x.data.buf][i] =
                     IF x.data.buf = b /\ i = k THEN file.w ELSE heap[x.data.buf][i]
  <2>1. x \in Slices /\ Fits(heap, x.data)
    BY DEF PutsByte, TypeInv
  <2> HIDE DEF b, k, file
  <2>2. CASE x.data.len = 0
    BY <2>1, <2>2 DEF Fits
  <2>3. CASE x.data.len # 0
    <3>1. x.data.buf \in Bufs /\ x.data.len <= Len(heap[x.data.buf]) /\ x.data.len \in Nat
      BY <2>1, <2>3, NodusAssumption DEF Fits, SliceType
    <3>2. Len(heap'[x.data.buf]) = Len(heap[x.data.buf])
      BY <1>9, <1>10, <3>1
    <3>3. \A i \in 1 .. x.data.len :
             heap'[x.data.buf][i] =
               IF x.data.buf = b /\ i = k THEN file.w ELSE heap[x.data.buf][i]
      BY <1>6, <1>9, <1>10, <3>1
    <3> QED BY <2>1, <3>1, <3>2, <3>3 DEF Fits
  <2> QED BY <2>2, <2>3
<1> QED BY <1>12, <1>13

\* Every step keeps TypeInv.
LEMMA StepKeepsTypeInv ==
  ASSUME TypeInv, Roomy, Next
  PROVE  TypeInv'
<1>1. RecordsOK' /\ Kinds
  BY EveryStepDoes
<1>2. HeapOK(heap') /\ \A x \in Slices' : Fits(heap', x.data)
  <2>1. CASE Shares
    BY <1>1, <2>1, SharesKeeps
  <2>2. ASSUME NEW n \in Nodes, NEW m \in Names, NEW b \in Bufs, NEW src \in Seq(Byte),
               NEW k \in 1 .. MaxLen, Fills(n, m, b, src, k)
        PROVE  HeapOK(heap') /\ \A x \in Slices' : Fits(heap', x.data)
    BY <1>1, <2>2, FillsKeeps
  <2>3. ASSUME NEW n \in Nodes, NEW f \in OpenSlots(n), PutsByte(n, f)
        PROVE  HeapOK(heap') /\ \A x \in Slices' : Fits(heap', x.data)
    BY <2>3, PutsByteKeeps
  <2> QED BY <1>1, <2>1, <2>2, <2>3 DEF Kinds, LeavesBytes
<1> QED BY <1>1, <1>2 DEF TypeInv

LEMMA StutterKeepsTypeInv ==
  ASSUME TypeInv, UNCHANGED vars
  PROVE  TypeInv'
<1>1. Slices' = Slices
  BY DEF vars, Slices, CacheSlices, FileSlices, LookupSlices, CastSlices, SendSlices, OpenSlots
<1>2. RecordsOK'
  BY DEF vars, TypeInv, RecordsOK, CachesOK, FilesOK, LookupsOK, CastsOK, SendsOK, WroteOK
<1> QED BY <1>1, <1>2 DEF vars, TypeInv

LEMMA InitHasTypeInv ==
  ASSUME NEW ls, StartsWith(ls)
  PROVE  TypeInv
<1>1. CachesOK
  <2>1. KeptCache(EmptyCache, Names) /\ CachedKeys(EmptyCache) = {}
    BY EmptyIsKept
  <2> QED BY <2>1 DEF StartsWith, CachesOK
<1>2. FilesOK /\ \A n \in Nodes : OpenSlots(n) = {}
  BY DEF StartsWith, FilesOK, OpenSlots
<1>3. LookupsOK /\ CastsOK /\ SendsOK /\ WroteOK
  BY NodusAssumption, EmptySeq DEF StartsWith, LookupsOK, CastsOK, SendsOK, WroteOK
<1>4. HeapOK(heap)
  <2> DEFINE e == << >>
  <2>1. e \in Seq(Byte) /\ Len(e) <= MaxLen
    BY NodusAssumption
  <2> HIDE DEF e
  <2>2. e \in BoundedSeq(Byte, MaxLen)
    BY <2>1, BoundedSeqElements, NodusAssumption
  <2> QED BY <2>2 DEF StartsWith, HeapOK, e
<1>5. Slices = {}
  <2>1. \A n \in Nodes : CachedKeys(cache[n]) = {}
    BY EmptyIsKept DEF StartsWith
  <2>2. CacheSlices = {} /\ FileSlices = {}
    BY <1>2, <2>1 DEF CacheSlices, FileSlices
  <2>3. LookupSlices = {} /\ CastSlices = {} /\ SendSlices = {}
    BY DEF StartsWith, LookupSlices, CastSlices, SendSlices
  <2> QED BY <2>2, <2>3 DEF Slices
<1> QED BY <1>1, <1>2, <1>3, <1>4, <1>5 DEF TypeInv, RecordsOK

LEMMA TypeInvIsTyped ==
  ASSUME TypeInv
  PROVE  TypeOK
<1>1. \A b \in Bufs : heap[b] \in BoundedSeq(0 .. MaxWrites, MaxLen)
  BY DEF TypeInv, HeapOK, Byte
<1>2. \A n \in Nodes : CoherentCache(cache[n])
  BY DEF TypeInv, RecordsOK, CachesOK, KeptCache
<1>3. ASSUME NEW x \in Slices PROVE SliceOK(x.data)
  BY DEF TypeInv, Fits, SliceOK, SliceType
<1>4. \A n \in Nodes : \A m \in CachedKeys(cache[n]) :
        m \in Names /\ SliceOK(cache[n].items[m])
  <2> SUFFICES ASSUME NEW n \in Nodes, NEW m \in CachedKeys(cache[n])
               PROVE  m \in Names /\ SliceOK(cache[n].items[m])
    OBVIOUS
  <2>1. Owned(n, m, cache[n].items[m]) \in Slices
    BY CachedSlice DEF Slices
  <2>2. SliceOK(Owned(n, m, cache[n].items[m]).data)
    BY <1>3, <2>1
  <2> QED BY <2>2 DEF Owned, TypeInv, RecordsOK, CachesOK
<1>5. \A n \in Nodes : \A f \in OpenSlots(n) : SliceOK(files[n][f].data)
  <2> SUFFICES ASSUME NEW n \in Nodes, NEW f \in OpenSlots(n)
               PROVE  SliceOK(files[n][f].data)
    OBVIOUS
  <2>1. Owned(n, files[n][f].name, files[n][f].data) \in Slices
    BY DEF Slices, FileSlices, Owned
  <2>2. SliceOK(Owned(n, files[n][f].name, files[n][f].data).data)
    BY <1>3, <2>1
  <2> QED BY <2>2 DEF Owned
<1>6. \A s \in casts \cup sends : SliceOK(s.data)
  <2> SUFFICES ASSUME NEW s \in casts \cup sends PROVE SliceOK(s.data)
    OBVIOUS
  <2>1. Owned(s.from, s.name, s.data) \in Slices
    BY DEF Slices, CastSlices, SendSlices, Owned
  <2>2. SliceOK(Owned(s.from, s.name, s.data).data)
    BY <1>3, <2>1
  <2> QED BY <2>2 DEF Owned
<1>7. wrote \in BoundedSeq([name : Names, off : 0 .. MaxLen - 1], MaxWrites)
  BY BoundedSeqElements, NodusAssumption DEF TypeInv, RecordsOK, WroteOK
<1> QED BY <1>1, <1>2, <1>4, <1>5, <1>6, <1>7 DEF TypeOK

-----------------------------------------------------------------------------
(* Memory does not run out *)

\* Bufs bounds the arrays that TLC looks at.  The program makes as many as it
\* likes; what is true of it is that nodes and descriptors are finitely many.
Memory == ~ IsFiniteSet(Bufs) /\ IsFiniteSet(Nodes) /\ IsFiniteSet(Slots)

\* The calls and the goroutines under way are finitely many.
FewAtWork == IsFiniteSet(lookups) /\ IsFiniteSet(casts) /\ IsFiniteSet(sends)

LEMMA FiniteImage ==
  ASSUME NEW S, IsFiniteSet(S), NEW g
  PROVE  IsFiniteSet({g[x] : x \in S})
<1> DEFINE T == {g[x] : x \in S}
           r == [x \in S |-> g[x]]
<1>1. r \in [S -> T] /\ \A t \in T : \E x \in S : r[x] = t
  OBVIOUS
<1>2. r \in Surjection(S, T)
  BY <1>1 DEF Surjection
<1> HIDE DEF r, T
<1>3. IsFiniteSet(T)
  BY <1>2, FS_Surjection
<1> QED BY <1>3 DEF T

\* A list holds finitely many keys.
LEMMA FiniteRange ==
  ASSUME NEW S, NEW s \in Seq(S)
  PROVE  IsFiniteSet(Range(s))
<1>1. Len(s) \in Nat /\ DOMAIN s = 1 .. Len(s)
  BY LenProperties
<1>2. IsFiniteSet(1 .. Len(s))
  BY <1>1, FS_Interval
<1>3. IsFiniteSet({s[i] : i \in 1 .. Len(s)})
  BY <1>2, FiniteImage
<1> QED BY <1>1, <1>3 DEF Range

CacheBufs(n) == {cache[n].items[m].buf : m \in CachedKeys(cache[n])}
FileBufs(n) == {files[n][f].data.buf : f \in OpenSlots(n)}

LEMMA FewAreRoomy ==
  ASSUME Memory, TypeInv, FewAtWork
  PROVE  Roomy
<1>1. ASSUME NEW n \in Nodes PROVE IsFiniteSet(CacheBufs(n))
  <2>1. KeptCache(cache[n], Names)
    BY DEF TypeInv, RecordsOK, CachesOK
  <2>2. IsFiniteSet(CachedKeys(cache[n]))
    BY <2>1, FiniteRange DEF KeptCache, CoherentCache
  <2> DEFINE g == [m \in CachedKeys(cache[n]) |-> cache[n].items[m].buf]
  <2>3. IsFiniteSet({g[m] : m \in CachedKeys(cache[n])})
    <3> HIDE DEF g
    <3> QED BY <2>2, FiniteImage
  <2>4. CacheBufs(n) = {g[m] : m \in CachedKeys(cache[n])}
    BY DEF CacheBufs
  <2> QED BY <2>3, <2>4
<1>2. ASSUME NEW n \in Nodes PROVE IsFiniteSet(FileBufs(n))
  <2>1. OpenSlots(n) \in SUBSET Slots
    BY DEF OpenSlots
  <2>2. IsFiniteSet(OpenSlots(n))
    BY <2>1, FS_Subset DEF Memory
  <2> DEFINE g == [f \in OpenSlots(n) |-> files[n][f].data.buf]
  <2>3. IsFiniteSet({g[f] : f \in OpenSlots(n)})
    <3> HIDE DEF g
    <3> QED BY <2>2, FiniteImage
  <2>4. FileBufs(n) = {g[f] : f \in OpenSlots(n)}
    BY DEF FileBufs
  <2> QED BY <2>3, <2>4
<1> DEFINE C == [n \in Nodes |-> CacheBufs(n)]
           F == [n \in Nodes |-> FileBufs(n)]
           L == [c \in lookups |-> c.data.buf]
           B == [b \in casts |-> b.data.buf]
           S == [s \in sends |-> s.data.buf]
<1>3. IsFiniteSet(UNION {C[n] : n \in Nodes})
  <2>1. \A n \in Nodes : IsFiniteSet(C[n])
    BY <1>1
  <2> HIDE DEF C
  <2>2. IsFiniteSet({C[n] : n \in Nodes})
    BY FiniteImage DEF Memory
  <2> QED BY <2>1, <2>2, FS_UNION
<1>4. IsFiniteSet(UNION {F[n] : n \in Nodes})
  <2>1. \A n \in Nodes : IsFiniteSet(F[n])
    BY <1>2
  <2> HIDE DEF F
  <2>2. IsFiniteSet({F[n] : n \in Nodes})
    BY FiniteImage DEF Memory
  <2> QED BY <2>1, <2>2, FS_UNION
<1>5. /\ IsFiniteSet({L[c] : c \in lookups})
      /\ IsFiniteSet({B[b] : b \in casts})
      /\ IsFiniteSet({S[s] : s \in sends})
  <2> HIDE DEF L, B, S
  <2> QED BY FiniteImage DEF FewAtWork
<1> DEFINE all == ((((UNION {C[n] : n \in Nodes}) \cup (UNION {F[n] : n \in Nodes}))
                  \cup {L[c] : c \in lookups}) \cup {B[b] : b \in casts})
                  \cup {S[s] : s \in sends}
<1>6. IsFiniteSet(all)
  <2> DEFINE U1 == UNION {C[n] : n \in Nodes}
             U2 == UNION {F[n] : n \in Nodes}
             U3 == {L[c] : c \in lookups}
             U4 == {B[b] : b \in casts}
             U5 == {S[s] : s \in sends}
  <2>1. /\ IsFiniteSet(U1) /\ IsFiniteSet(U2) /\ IsFiniteSet(U3)
        /\ IsFiniteSet(U4) /\ IsFiniteSet(U5)
    BY <1>3, <1>4, <1>5
  <2>2. all = (((U1 \cup U2) \cup U3) \cup U4) \cup U5
    OBVIOUS
  <2> HIDE DEF U1, U2, U3, U4, U5, all
  <2>3. IsFiniteSet(U1 \cup U2)
    BY <2>1, FS_Union
  <2>4. IsFiniteSet((U1 \cup U2) \cup U3)
    BY <2>1, <2>3, FS_Union
  <2>5. IsFiniteSet(((U1 \cup U2) \cup U3) \cup U4)
    BY <2>1, <2>4, FS_Union
  <2> QED BY <2>1, <2>2, <2>5, FS_Union
<1>7. \A x \in Slices : x.data.buf \in all
  <2> SUFFICES ASSUME NEW x \in Slices PROVE x.data.buf \in all
    OBVIOUS
  <2>1. CASE x \in CacheSlices
    <3>1. PICK n \in Nodes : \E m \in CachedKeys(cache[n]) : x.data = cache[n].items[m]
      BY <2>1 DEF CacheSlices
    <3>2. x.data.buf \in C[n]
      BY <3>1 DEF CacheBufs
    <3> HIDE DEF C
    <3>3. x.data.buf \in UNION {C[k] : k \in Nodes}
      BY <3>2
    <3> QED BY <3>3
  <2>2. CASE x \in FileSlices
    <3>1. PICK n \in Nodes : \E f \in OpenSlots(n) : x.data = files[n][f].data
      BY <2>2 DEF FileSlices
    <3>2. x.data.buf \in F[n]
      BY <3>1 DEF FileBufs
    <3> HIDE DEF F
    <3>3. x.data.buf \in UNION {F[k] : k \in Nodes}
      BY <3>2
    <3> QED BY <3>3
  <2>3. CASE x \in LookupSlices
    <3>1. \E c \in lookups : x.data = c.data
      BY <2>3 DEF LookupSlices
    <3>2. x.data.buf \in {L[c] : c \in lookups}
      BY <3>1
    <3> HIDE DEF L
    <3> QED BY <3>2
  <2>4. CASE x \in CastSlices
    <3>1. \E b \in casts : x.data = b.data
      BY <2>4 DEF CastSlices
    <3>2. x.data.buf \in {B[b] : b \in casts}
      BY <3>1
    <3> HIDE DEF B
    <3> QED BY <3>2
  <2>5. CASE x \in SendSlices
    <3>1. \E s \in sends : x.data = s.data
      BY <2>5 DEF SendSlices
    <3>2. x.data.buf \in {S[s] : s \in sends}
      BY <3>1
    <3> HIDE DEF S
    <3> QED BY <3>2
  <2> QED BY <2>1, <2>2, <2>3, <2>4, <2>5 DEF Slices
<1> HIDE DEF all
<1>8. {h.data.buf : h \in Holders} \subseteq all
  <2> SUFFICES ASSUME NEW h \in Holders PROVE h.data.buf \in all
    OBVIOUS
  <2>1. h.data \in {x.data : x \in Slices}
    BY SlicesAreHeld DEF SameData
  <2> QED BY <1>7, <2>1
<1>9. ASSUME ~ Roomy PROVE FALSE
  <2>1. Bufs \in SUBSET all
    BY <1>8, <1>9 DEF Roomy
  <2> QED BY <1>6, <2>1, FS_Subset DEF Memory
<1> QED BY <1>9

LEMMA OneMore ==
  ASSUME NEW S, IsFiniteSet(S), NEW x, NEW T, T \subseteq S \cup {x}
  PROVE  IsFiniteSet(T)
BY FS_AddElement, FS_Subset

LEMMA FewerAtWork ==
  ASSUME NEW S, IsFiniteSet(S), NEW T, T \subseteq S
  PROVE  IsFiniteSet(T)
BY FS_Subset

\* Lookups that go on or give up are not more than there were.
LEMMA GiveUpsAreFew ==
  ASSUME NEW S, IsFiniteSet(S), NEW T,
         \A d \in T : d \in S \/ \E c \in S : d = Choosing(c, c.todo)
  PROVE  IsFiniteSet(T)
<1> DEFINE g == [c \in S |-> Choosing(c, c.todo)]
<1>1. IsFiniteSet({g[c] : c \in S})
  <2> HIDE DEF g
  <2> QED BY FiniteImage
<1>2. IsFiniteSet(S \cup {g[c] : c \in S})
  BY <1>1, FS_Union
<1>3. T \subseteq S \cup {g[c] : c \in S}
  OBVIOUS
<1> HIDE DEF g
<1> QED BY <1>2, <1>3, FewerAtWork

LEMMA ChangedFlowsAreFew ==
  ASSUME IsFiniteSet(sends), FlowChanges
  PROVE  IsFiniteSet(sends')
<1> DEFINE g == [s \in sends |-> [s EXCEPT !.flow = "stalls"]]
           h == [s \in sends |-> [s EXCEPT !.flow = "broken"]]
           gs == {g[s] : s \in sends}
           hs == {h[s] : s \in sends}
<1>1. \A t \in sends' : t \in sends \/ t \in gs \/ t \in hs
  BY DEF FlowChanges
<1> HIDE DEF g, h
<1>2. IsFiniteSet(gs) /\ IsFiniteSet(hs)
  BY FiniteImage
<1> HIDE DEF gs, hs
<1>3. IsFiniteSet((sends \cup gs) \cup hs)
  BY <1>2, FS_Union
<1>4. sends' \subseteq (sends \cup gs) \cup hs
  BY <1>1
<1> QED BY <1>3, <1>4, FewerAtWork

LEMMA StepKeepsFew ==
  ASSUME Memory, FewAtWork, Next
  PROVE  FewAtWork'
<1> USE DEF FewAtWork
<1>1. ASSUME NEW n \in Nodes, NEW m \in Names, LookupHit(n, m) \/ RemoveFile(n, m)
      PROVE  FewAtWork'
  BY <1>1 DEF LookupHit, RemoveFile
<1>2. ASSUME NEW n \in Nodes, NEW m \in Names, NEW create \in BOOLEAN, LookupMiss(n, m, create)
      PROVE  FewAtWork'
  BY <1>2, OneMore DEF LookupMiss
<1>3. ASSUME NEW n \in Nodes, NEW f \in OpenSlots(n), ReadAll(n, f) PROVE FewAtWork'
  BY <1>3 DEF ReadAll
<1>4. ASSUME NEW n \in Nodes, NEW f \in OpenSlots(n), NEW off \in 0 .. MaxLen - 1,
             WriteGrow(n, f, off)
      PROVE  FewAtWork'
  BY <1>4 DEF WriteGrow
<1>5. ASSUME NEW n \in Nodes, NEW f \in OpenSlots(n), NEW last \in BOOLEAN, Flush(n, f, last)
      PROVE  FewAtWork'
  BY <1>5 DEF Flush
<1>6. ASSUME NEW n \in Nodes, NEW f \in OpenSlots(n), NEW size \in 0 .. MaxLen,
             Setattr(n, f, size)
      PROVE  FewAtWork'
  BY <1>6 DEF Setattr
<1>7. ASSUME NEW n \in Nodes, Restart(n) PROVE FewAtWork'
  <2>1. \A d \in lookups' : d \in lookups \/ \E c \in lookups : d = Choosing(c, c.todo)
    BY <1>7 DEF Restart
  <2>2. casts' \subseteq casts /\ sends' \subseteq sends
    BY <1>7 DEF Restart
  <2> QED BY <2>1, <2>2, GiveUpsAreFew, FewerAtWork
<1>8. ASSUME NEW n \in Nodes, NEW f \in OpenSlots(n), FileStep(n, f) PROVE FewAtWork'
  <2>1. CASE WriteCopy(n, f)
    BY <2>1 DEF WriteCopy
  <2>2. CASE WritePublish(n, f)
    BY <2>2, OneMore DEF WritePublish
  <2> QED BY <1>8, <2>1, <2>2 DEF FileStep
<1>9. ASSUME NEW c \in lookups, LookupStep(c) \/ FetchFails(c) \/ Stall(c) PROVE FewAtWork'
  <2>1. ASSUME NEW d, Becomes(c, d), UNCHANGED <<casts, sends>> PROVE FewAtWork'
    BY <2>1, OneMore DEF Becomes
  <2>2. CASE Ask(c)
    BY <2>1, <2>2 DEF Ask
  <2>3. CASE Serve(c)
    BY <2>1, <2>3 DEF Serve
  <2>4. CASE FetchByte(c)
    BY <2>1, <2>4 DEF FetchByte
  <2>5. CASE FetchDone(c)
    <3>1. lookups' \subseteq lookups \/ Becomes(c, Choosing(c, c.todo))
      BY <2>5 DEF FetchDone
    <3> QED BY <2>1, <2>5, <3>1, FewerAtWork DEF FetchDone
  <2>6. CASE LookupFails(c)
    <3>1. lookups' \subseteq lookups \cup {[c EXCEPT !.phase = "absent"]}
      BY <2>6 DEF LookupFails
    <3> QED BY <2>6, <3>1, OneMore DEF LookupFails
  <2>7. CASE Create(c)
    BY <2>7, FewerAtWork DEF Create
  <2>8. CASE FetchFails(c)
    BY <2>1, <2>8 DEF FetchFails
  <2>9. CASE Stall(c)
    BY <2>1, <2>9 DEF Stall
  <2> QED BY <1>9, <2>2, <2>3, <2>4, <2>5, <2>6, <2>7, <2>8, <2>9 DEF LookupStep
<1>10. ASSUME NEW b \in casts, Broadcast(b) PROVE FewAtWork'
  <2> DEFINE g == [p \in ConnectedPeers(b.from) |->
                     [w |-> b.w, from |-> b.from, to |-> p, name |-> b.name,
                      data |-> b.data, got |-> << >>, flow |-> "moves"]]
             new == {g[p] : p \in ConnectedPeers(b.from)}
  <2>1. IsFiniteSet(ConnectedPeers(b.from))
    <3>1. ConnectedPeers(b.from) \subseteq Nodes
      BY DEF ConnectedPeers
    <3> QED BY <3>1, FewerAtWork DEF Memory
  <2>2. sends' = sends \cup new
    BY <1>10 DEF Broadcast
  <2> HIDE DEF g
  <2>3. IsFiniteSet(new)
    BY <2>1, FiniteImage
  <2> HIDE DEF new
  <2>4. casts' \subseteq casts /\ UNCHANGED lookups
    BY <1>10 DEF Broadcast
  <2> QED BY <2>2, <2>3, <2>4, FS_Union, FewerAtWork
<1>11. ASSUME NEW s \in sends, SendStep(s) \/ SendFails(s) \/ SendStalls(s) PROVE FewAtWork'
  <2>1. ASSUME NEW got, Receive(s, got) PROVE FewAtWork'
    BY <2>1, FewerAtWork DEF Receive
  <2>2. CASE SendByte(s)
    BY <2>2, OneMore DEF SendByte
  <2>3. CASE Deliver(s)
    BY <2>1, <2>3 DEF Deliver
  <2>4. CASE SendFails(s)
    BY <2>1, <2>4, FewerAtWork DEF SendFails
  <2>5. CASE SendStalls(s)
    BY <2>5, OneMore DEF SendStalls
  <2> QED BY <1>11, <2>2, <2>3, <2>4, <2>5 DEF SendStep
<1>12. ASSUME NEW n \in Nodes, NEW p \in Nodes, Connect(n, p) \/ Disconnect(n, p)
       PROVE  FewAtWork'
  <2>1. \A d \in lookups' : d \in lookups \/ \E c \in lookups : d = Choosing(c, c.todo)
    BY <1>12 DEF Connect, Disconnect
  <2>2. UNCHANGED casts
    BY <1>12 DEF Connect, Disconnect
  <2>3. IsFiniteSet(sends')
    BY <1>12, LostConnection, ChangedFlowsAreFew
  <2> QED BY <2>1, <2>2, <2>3, GiveUpsAreFew
<1> QED BY <1>1, <1>2, <1>3, <1>4, <1>5, <1>6, <1>7, <1>8, <1>9, <1>10, <1>11, <1>12
        DEF Next, Request

\* The inductive invariant that the theorems share
MemoryInv == TypeInv /\ FewAtWork

LEMMA InitMemory ==
  ASSUME NEW ls, StartsWith(ls)
  PROVE  MemoryInv
BY InitHasTypeInv, FS_EmptySet DEF StartsWith, MemoryInv, FewAtWork

LEMMA MemoryIsRoomy ==
  ASSUME Memory, MemoryInv
  PROVE  TypeInv /\ Roomy
BY FewAreRoomy DEF MemoryInv

LEMMA StepKeepsMemory ==
  ASSUME Memory, MemoryInv, [Next]_vars
  PROVE  MemoryInv'
<1>1. CASE Next
  BY <1>1, MemoryIsRoomy, StepKeepsTypeInv, StepKeepsFew DEF MemoryInv
<1>2. CASE UNCHANGED vars
  BY <1>2, StutterKeepsTypeInv DEF MemoryInv, FewAtWork, vars
<1> QED BY <1>1, <1>2

\* Whatever the nodes do, in whichever order: every slice fits its array, every
\* cache is well kept, no Write number or length is out of range.
THEOREM TypeCorrect ==
  ASSUME Memory
  PROVE  Spec => []TypeOK
<1>1. Init => MemoryInv
  BY InitMemory DEF Init
<1>2. MemoryInv /\ [Next]_vars => MemoryInv'
  BY StepKeepsMemory
<1>3. MemoryInv => TypeOK
  BY TypeInvIsTyped DEF MemoryInv
<1> QED BY <1>1, <1>2, <1>3, PTL DEF Spec

-----------------------------------------------------------------------------
(* What a step does to the streams, to the Write calls under way and to the   *)
(* history of the Write calls                                                 *)

Took(r, q) ==
  \/ r.got = q.got
  \/ Len(q.got) < q.data.len /\ r.got = Append(q.got, NextByte(q))

LookupsFlow ==
  \A c \in lookups' : c.phase = "reading" =>
    \/ c.got = << >>
    \/ \E d \in lookups : d.phase = "reading" /\ d.name = c.name /\ Took(c, d)
SendsFlow ==
  \A s \in sends' : s.got = << >> \/ \E t \in sends : t.name = s.name /\ Took(s, t)

WriteBegins(file) ==
  file.w = Len(wrote) + 1 /\ wrote' = Append(wrote, [name |-> file.name, off |-> file.off])
WriteGoesOn(file, old) ==
  old.stage # "idle" /\ file.name = old.name /\ file.w = old.w /\ file.off = old.off

WritesFlow ==
  \A n \in Nodes : \A f \in OpenSlots(n)' :
    LET file == files'[n][f]
    IN  \/ file.stage = "idle"
        \/ f \in OpenSlots(n) /\ WriteGoesOn(file, files[n][f])
        \/ WriteBegins(file)

HistoryGrows ==
  wrote' = wrote \/ \E e \in [name : Names, off : 0 .. MaxLen - 1] : wrote' = Append(wrote, e)

Flow == LookupsFlow /\ SendsFlow /\ WritesFlow /\ HistoryGrows

LEMMA SameLookupsFlow ==
  ASSUME lookups' \subseteq lookups
  PROVE  LookupsFlow
BY DEF LookupsFlow, Took

LEMMA BecomesFlow ==
  ASSUME NEW c, NEW d, Becomes(c, d), d.phase # "reading" \/ d.got = << >>
  PROVE  LookupsFlow
BY DEF Becomes, LookupsFlow, Took

LEMMA SameSendsFlow ==
  ASSUME sends' \subseteq sends
  PROVE  SendsFlow
BY DEF SendsFlow, Took

LEMMA ChangedSendsFlow ==
  ASSUME SendsOK, FlowChanges
  PROVE  SendsFlow
<1>1. \A t \in sends' : \E s \in sends : t.name = s.name /\ t.got = s.got
  BY FlowChangesFlow DEF SendsOK, FlowChanges
<1> QED BY <1>1 DEF SendsFlow, Took

LEMMA SameFilesFlow ==
  ASSUME UNCHANGED files
  PROVE  WritesFlow
BY DEF WritesFlow, OpenSlots, WriteGoesOn

\* Only the File in one slot has changed.
LEMMA FileFlow ==
  ASSUME FilesOK, NEW n \in Nodes, NEW f \in Slots, NEW file,
         files' = [files EXCEPT ![n][f] = file],
         \/ file = NoFile
         \/ file.stage = "idle"
         \/ f \in OpenSlots(n) /\ WriteGoesOn(file, files[n][f])
         \/ WriteBegins(file)
  PROVE  WritesFlow
<1>1. \A k \in Nodes, g \in Slots :
        files'[k][g] = IF k = n /\ g = f THEN file ELSE files[k][g]
  BY DEF FilesOK
<1> SUFFICES ASSUME NEW k \in Nodes, NEW g \in OpenSlots(k)'
             PROVE  \/ files'[k][g].stage = "idle"
                    \/ g \in OpenSlots(k) /\ WriteGoesOn(files'[k][g], files[k][g])
                    \/ WriteBegins(files'[k][g])
  BY DEF WritesFlow
<1>2. g \in Slots /\ files'[k][g] # NoFile
  BY DEF OpenSlots
<1>3. CASE k = n /\ g = f
  BY <1>1, <1>2, <1>3
<1>4. CASE ~ (k = n /\ g = f)
  <2>1. files'[k][g] = files[k][g] /\ g \in OpenSlots(k)
    BY <1>1, <1>2, <1>4 DEF OpenSlots
  <2> QED BY <2>1 DEF WriteGoesOn
<1> QED BY <1>3, <1>4

LEMMA KeepFlow ==
  ASSUME FilesOK, NEW n \in Nodes, NEW m, NEW d, Keep(n, m, d)
  PROVE  WritesFlow
<1>1. CASE UNCHANGED files
  BY <1>1, SameFilesFlow
<1>2. CASE ~ UNCHANGED files
  <2> DEFINE file == [name |-> m, data |-> d, stage |-> "idle", w |-> 0, off |-> 0]
  <2>1. PICK f \in Slots : files' = [files EXCEPT ![n][f] = file]
    BY <1>2 DEF Keep
  <2>2. file.stage = "idle"
    OBVIOUS
  <2> HIDE DEF file
  <2> QED BY <2>1, <2>2, FileFlow
<1> QED BY <1>1, <1>2

LEMMA LookupStepFlows ==
  ASSUME TypeInv, NEW c \in lookups, LookupStep(c) \/ FetchFails(c) \/ Stall(c)
  PROVE  Flow
<1>1. c.node \in Nodes /\ FilesOK
  BY LookupParts DEF TypeInv, RecordsOK
<1>2. UNCHANGED sends /\ UNCHANGED wrote
  BY DEF LookupStep, Ask, Serve, FetchByte, FetchDone, LookupFails, Create, FetchFails, Stall
<1>3. SendsFlow /\ HistoryGrows
  BY <1>2, SameSendsFlow DEF HistoryGrows
<1>4. WritesFlow
  <2>1. CASE FetchDone(c)
    <3>1. UNCHANGED files \/ \E d : Keep(c.node, c.name, d)
      BY <2>1 DEF FetchDone
    <3> QED BY <1>1, <3>1, SameFilesFlow, KeepFlow
  <2>2. CASE Create(c)
    <3> DEFINE file == [name |-> c.name, data |-> Slice(0, 0),
                        stage |-> "idle", w |-> 0, off |-> 0]
    <3>1. PICK f \in Slots : files' = [files EXCEPT ![c.node][f] = file]
      BY <2>2 DEF Create
    <3>2. file.stage = "idle"
      OBVIOUS
    <3> HIDE DEF file
    <3> QED BY <1>1, <3>1, <3>2, FileFlow
  <2>3. CASE ~ FetchDone(c) /\ ~ Create(c)
    <3>1. UNCHANGED files
      BY <2>3 DEF LookupStep, Ask, Serve, FetchByte, LookupFails, FetchFails, Stall
    <3> QED BY <3>1, SameFilesFlow
  <2> QED BY <2>1, <2>2, <2>3
<1>5. LookupsFlow
  <2>0. \A todo : Choosing(c, todo).phase # "reading"
    BY DEF Choosing
  <2>1. CASE Ask(c)
    <3>1. PICK p \in c.todo :
             \/ Becomes(c, [node |-> c.node, name |-> c.name, create |-> c.create,
                            phase |-> "asked", todo |-> c.todo \ {p}, peer |-> p])
             \/ Becomes(c, Choosing(c, c.todo \ {p}))
      BY <2>1 DEF Ask
    <3> DEFINE d == [node |-> c.node, name |-> c.name, create |-> c.create,
                     phase |-> "asked", todo |-> c.todo \ {p}, peer |-> p]
    <3>2. d.phase # "reading"
      OBVIOUS
    <3>3. Becomes(c, d) \/ Becomes(c, Choosing(c, c.todo \ {p}))
      BY <3>1
    <3> HIDE DEF d
    <3> QED BY <2>0, <3>2, <3>3, BecomesFlow
  <2>2. CASE Serve(c)
    <3> DEFINE d == [node |-> c.node, name |-> c.name, create |-> c.create,
                      phase |-> "reading", todo |-> c.todo, peer |-> c.peer,
                      data |-> cache[c.peer].items[c.name], got |-> << >>]
    <3>1. d.got = << >>
      OBVIOUS
    <3>2. Becomes(c, d) \/ Becomes(c, Choosing(c, c.todo))
      BY <2>2 DEF Serve
    <3> HIDE DEF d
    <3> QED BY <2>0, <3>1, <3>2, BecomesFlow
  <2>3. CASE FetchByte(c)
    <3>1. c \in ReadingType /\ Len(c.got) < c.data.len /\ c.phase = "reading"
      BY <2>3, LookupParts DEF FetchByte, TypeInv, RecordsOK
    <3> DEFINE g == Append(c.got, NextByte(c))
    <3>2. PICK d : d = [c EXCEPT !.got = g]
      OBVIOUS
    <3>3. d.phase = "reading" /\ d.name = c.name /\ d.got = g
      BY <3>1, <3>2 DEF ReadingType
    <3>4. Becomes(c, d)
      BY <2>3, <3>2 DEF FetchByte
    <3>5. Took(d, c)
      BY <3>1, <3>3 DEF Took
    <3> HIDE DEF g
    <3> QED BY <3>1, <3>3, <3>4, <3>5 DEF Becomes, LookupsFlow, Took
  <2>4. CASE FetchDone(c)
    <3>1. lookups' \subseteq lookups \/ Becomes(c, Choosing(c, c.todo))
      BY <2>4 DEF FetchDone
    <3> QED BY <2>0, <3>1, SameLookupsFlow, BecomesFlow
  <2>5. CASE LookupFails(c)
    <3>1. c \in WaitingType
      BY <2>5, LookupParts DEF LookupFails, TypeInv, RecordsOK
    <3>2. PICK d : d = [c EXCEPT !.phase = "absent"]
      OBVIOUS
    <3>3. d.phase # "reading"
      BY <3>1, <3>2 DEF WaitingType
    <3>4. \A e \in lookups' : e \in lookups \/ e = d
      BY <2>5, <3>2 DEF LookupFails
    <3> QED BY <3>3, <3>4 DEF LookupsFlow, Took
  <2>6. CASE Create(c)
    <3>1. lookups' \subseteq lookups
      BY <2>6 DEF Create
    <3> QED BY <3>1, SameLookupsFlow
  <2>7. CASE FetchFails(c)
    BY <2>0, <2>7, BecomesFlow DEF FetchFails
  <2>8. CASE Stall(c)
    <3> DEFINE d == [node |-> c.node, name |-> c.name, create |-> c.create,
                     phase |-> "stalled", todo |-> c.todo, peer |-> c.peer]
    <3>1. d.phase # "reading" /\ Becomes(c, d)
      BY <2>8 DEF Stall
    <3> HIDE DEF d
    <3> QED BY <3>1, BecomesFlow
  <2> QED BY <2>1, <2>2, <2>3, <2>4, <2>5, <2>6, <2>7, <2>8 DEF LookupStep
<1> QED BY <1>3, <1>4, <1>5 DEF Flow

LEMMA FileOpFlows ==
  ASSUME TypeInv, NEW n \in Nodes, NEW f \in OpenSlots(n),
         \/ ReadAll(n, f)
         \/ \E off \in 0 .. MaxLen - 1 : WriteGrow(n, f, off)
         \/ \E last \in BOOLEAN : Flush(n, f, last)
         \/ \E size \in 0 .. MaxLen : Setattr(n, f, size)
         \/ FileStep(n, f)
  PROVE  Flow
<1> DEFINE old == files[n][f]
<1>1. f \in Slots /\ old \in FileType /\ FilesOK
  BY OpenFile DEF TypeInv, RecordsOK
<1>2. LookupsFlow /\ SendsFlow
  <2>1. UNCHANGED lookups /\ UNCHANGED sends
    BY DEF ReadAll, WriteGrow, Flush, Setattr, FileStep, WriteCopy, WritePublish
  <2> QED BY <2>1, SameLookupsFlow, SameSendsFlow
<1>3. ASSUME NEW d, files' = [files EXCEPT ![n][f].data = d]
      PROVE  WritesFlow
  <2>1. PICK file : file = [old EXCEPT !.data = d]
    OBVIOUS
  <2>2. files' = [files EXCEPT ![n][f] = file]
    BY <1>3, <2>1
  <2>3. file.stage = "idle" \/ WriteGoesOn(file, old)
    <3> HIDE DEF old
    <3> QED BY <1>1, <2>1 DEF FileType, WriteGoesOn
  <2> QED BY <1>1, <2>2, <2>3, FileFlow
<1>4. CASE ReadAll(n, f)
  BY <1>2, <1>3, <1>4 DEF ReadAll, Flow, HistoryGrows
<1>5. ASSUME NEW off \in 0 .. MaxLen - 1, WriteGrow(n, f, off)
      PROVE  Flow
  <2> DEFINE e == [name |-> old.name, off |-> off]
  <2>1. wrote' = Append(wrote, e)
    BY <1>5 DEF WriteGrow
  <2>2. e \in [name : Names, off : 0 .. MaxLen - 1]
    BY <1>1 DEF FileType
  <2>3. PICK d : files' = [files EXCEPT ![n][f] =
                    [old EXCEPT !.data = d, !.stage = "grown", !.w = Len(wrote) + 1, !.off = off]]
    BY <1>5 DEF WriteGrow
  <2>4. PICK file :
          file = [old EXCEPT !.data = d, !.stage = "grown", !.w = Len(wrote) + 1, !.off = off]
    OBVIOUS
  <2>5. files' = [files EXCEPT ![n][f] = file]
    BY <2>3, <2>4
  <2>6. file.name = old.name /\ file.w = Len(wrote) + 1 /\ file.off = off
    <3> HIDE DEF old
    <3> QED BY <1>1, <2>4 DEF FileType
  <2>7. WriteBegins(file)
    BY <2>1, <2>6 DEF WriteBegins
  <2>8. WritesFlow
    BY <1>1, <2>5, <2>7, FileFlow
  <2> HIDE DEF e
  <2> QED BY <1>2, <2>1, <2>2, <2>8 DEF Flow, HistoryGrows
<1>6. ASSUME NEW last \in BOOLEAN, Flush(n, f, last)
      PROVE  Flow
  <2>1. files' = [files EXCEPT ![n][f] = NoFile] \/ UNCHANGED files
    BY <1>6 DEF Flush
  <2>2. WritesFlow
    BY <1>1, <2>1, SameFilesFlow, FileFlow
  <2> QED BY <1>2, <1>6, <2>2 DEF Flush, Flow, HistoryGrows
<1>7. ASSUME NEW size \in 0 .. MaxLen, Setattr(n, f, size)
      PROVE  Flow
  <2>1. UNCHANGED wrote /\ \E d : files' = [files EXCEPT ![n][f].data = d]
    BY <1>7 DEF Setattr
  <2> QED BY <1>2, <1>3, <2>1 DEF Flow, HistoryGrows
<1>8. Ended(old).stage = "idle"
  <2> HIDE DEF old
  <2> QED BY <1>1 DEF Ended, FileType
<1>9. CASE WriteCopy(n, f)
  <2>1. PICK file : file = IF old.off > old.data.len THEN Ended(old)
                           ELSE [old EXCEPT !.stage = "copied"]
    OBVIOUS
  <2>2. files' = [files EXCEPT ![n][f] = file] /\ UNCHANGED wrote /\ old.stage = "grown"
    BY <1>9, <2>1 DEF WriteCopy
  <2>3. file.stage = "idle" \/ WriteGoesOn(file, old)
    <3> HIDE DEF old
    <3> QED BY <1>1, <1>8, <2>1, <2>2 DEF FileType, WriteGoesOn
  <2>4. WritesFlow
    BY <1>1, <2>2, <2>3, FileFlow
  <2> QED BY <1>2, <2>2, <2>4 DEF Flow, HistoryGrows
<1>10. CASE WritePublish(n, f)
  <2>1. PICK file : file = Ended(old)
    OBVIOUS
  <2>2. files' = [files EXCEPT ![n][f] = file] /\ UNCHANGED wrote
    BY <1>10, <2>1 DEF WritePublish
  <2>3. WritesFlow
    BY <1>1, <1>8, <2>1, <2>2, FileFlow
  <2> QED BY <1>2, <2>2, <2>3 DEF Flow, HistoryGrows
<1> QED BY <1>4, <1>5, <1>6, <1>7, <1>9, <1>10 DEF FileStep

LEMMA GiveUpsFlow ==
  ASSUME \A d \in lookups' : d \in lookups \/ \E c \in lookups : d = Choosing(c, c.todo)
  PROVE  LookupsFlow
<1>1. \A c, t : Choosing(c, t).phase # "reading"
  BY DEF Choosing
<1> QED BY <1>1 DEF LookupsFlow, Took

LEMMA EveryStepFlows ==
  ASSUME TypeInv, Next
  PROVE  Flow
<1>0. FilesOK
  BY DEF TypeInv, RecordsOK
<1>1. ASSUME NEW n \in Nodes, NEW m \in Names,
             \/ LookupHit(n, m)
             \/ RemoveFile(n, m)
             \/ \E create \in BOOLEAN : LookupMiss(n, m, create)
      PROVE  Flow
  <2>1. UNCHANGED sends /\ UNCHANGED wrote
    BY <1>1 DEF LookupHit, RemoveFile, LookupMiss
  <2>2. WritesFlow
    <3>1. UNCHANGED files \/ \E d : Keep(n, m, d)
      BY <1>1 DEF LookupHit, RemoveFile, LookupMiss
    <3> QED BY <1>0, <3>1, SameFilesFlow, KeepFlow
  <2>3. LookupsFlow
    <3>1. \/ UNCHANGED lookups
          \/ \E create \in BOOLEAN :
               lookups' = lookups \cup {[node |-> n, name |-> m, create |-> create,
                               phase |-> "choosing", todo |-> ConnectedPeers(n)]}
      BY <1>1 DEF LookupHit, RemoveFile, LookupMiss
    <3> QED BY <3>1 DEF LookupsFlow, Took
  <2> QED BY <2>1, <2>2, <2>3, SameSendsFlow DEF Flow, HistoryGrows
<1>2. ASSUME NEW n \in Nodes, Restart(n) PROVE Flow
  <2>1. \A d \in lookups' : d \in lookups \/ \E c \in lookups : d = Choosing(c, c.todo)
    BY <1>2 DEF Restart
  <2>2. sends' \subseteq sends /\ UNCHANGED wrote
    BY <1>2 DEF Restart
  <2>3. files' = [files EXCEPT ![n] = [f \in Slots |-> NoFile]]
    BY <1>2 DEF Restart
  <2>4. \A k \in Nodes : \A f \in OpenSlots(k)' : f \in OpenSlots(k) /\ files'[k][f] = files[k][f]
    BY <1>0, <2>3 DEF OpenSlots, FilesOK
  <2>5. WritesFlow
    BY <2>4 DEF WritesFlow, WriteGoesOn
  <2> QED BY <2>1, <2>2, <2>5, GiveUpsFlow, SameSendsFlow DEF Flow, HistoryGrows
<1>3. ASSUME NEW b \in casts, Broadcast(b) PROVE Flow
  <2>1. \A s \in sends' : s \in sends \/ s.got = << >>
    BY <1>3 DEF Broadcast
  <2>2. UNCHANGED lookups /\ UNCHANGED files /\ UNCHANGED wrote
    BY <1>3 DEF Broadcast
  <2>3. SendsFlow
    BY <2>1 DEF SendsFlow, Took
  <2> QED BY <2>2, <2>3, SameLookupsFlow, SameFilesFlow DEF Flow, HistoryGrows
<1>4. ASSUME NEW s \in sends, SendStep(s) \/ SendFails(s) \/ SendStalls(s) PROVE Flow
  <2>1. UNCHANGED lookups /\ UNCHANGED files /\ UNCHANGED wrote
    BY <1>4 DEF SendStep, SendByte, Deliver, SendFails, SendStalls, Receive
  <2>2. CASE SendByte(s)
    <3>1. s \in SendType /\ Len(s.got) < s.data.len
      BY <2>2, SendParts DEF SendByte
    <3> DEFINE g == Append(s.got, NextByte(s))
    <3>2. PICK t : t = [s EXCEPT !.got = g]
      OBVIOUS
    <3>3. t.name = s.name /\ t.got = g
      BY <3>1, <3>2 DEF SendType
    <3>4. Took(t, s)
      BY <3>1, <3>3 DEF Took
    <3>5. \A r \in sends' : r \in sends \/ r = t
      BY <2>2, <3>2 DEF SendByte
    <3> HIDE DEF g
    <3>6. SendsFlow
      BY <3>3, <3>4, <3>5 DEF SendsFlow, Took
    <3> QED BY <2>1, <3>6, SameLookupsFlow, SameFilesFlow DEF Flow, HistoryGrows
  <2>3. CASE SendStalls(s)
    <3>1. FlowChanges
      BY <2>3 DEF SendStalls, FlowChanges
    <3>2. SendsFlow
      BY <3>1, ChangedSendsFlow DEF TypeInv, RecordsOK
    <3> QED BY <2>1, <3>2, SameLookupsFlow, SameFilesFlow DEF Flow, HistoryGrows
  <2>4. CASE Deliver(s) \/ SendFails(s)
    <3>1. sends' \subseteq sends
      BY <2>4 DEF Deliver, SendFails, Receive
    <3> QED BY <2>1, <3>1, SameLookupsFlow, SameFilesFlow, SameSendsFlow DEF Flow, HistoryGrows
  <2> QED BY <1>4, <2>2, <2>3, <2>4 DEF SendStep
<1>5. ASSUME NEW n \in Nodes, NEW p \in Nodes, Connect(n, p) \/ Disconnect(n, p)
      PROVE  Flow
  <2>1. \A d \in lookups' : d \in lookups \/ \E c \in lookups : d = Choosing(c, c.todo)
    BY <1>5 DEF Connect, Disconnect
  <2>2. UNCHANGED files /\ UNCHANGED wrote
    BY <1>5 DEF Connect, Disconnect
  <2>3. SendsFlow
    BY <1>5, LostConnection, ChangedSendsFlow DEF TypeInv, RecordsOK
  <2> QED BY <2>1, <2>2, <2>3, GiveUpsFlow, SameFilesFlow DEF Flow, HistoryGrows
<1> QED BY <1>1, <1>2, <1>3, <1>4, <1>5, LookupStepFlows, FileOpFlows DEF Next, Request

-----------------------------------------------------------------------------
(* Bytes stay in place *)

\* Every byte of the file m that a Write put there is where that Write put it.
Placed(ws, bytes, m) ==
  \A i \in DOMAIN bytes :
    bytes[i] # 0 => /\ bytes[i] \in 1 .. Len(ws)
                    /\ ws[bytes[i]] = [name |-> m, off |-> i - 1]

SourcesPlaced == \A m \in Names : \A bytes \in Sources(m) : Placed(wrote, bytes, m)

\* Two owners never have the same array.
Apart ==
  \A x, y \in Slices :
    x.data.len # 0 /\ x.data.buf = y.data.buf => x.node = y.node /\ x.name = y.name

\* A Write under way will put its byte where it said.
WritesNamed ==
  \A n \in Nodes : \A f \in OpenSlots(n) :
    LET file == files[n][f]
    IN  file.stage # "idle" => /\ file.w \in 1 .. Len(wrote)
                               /\ wrote[file.w] = [name |-> file.name, off |-> file.off]

\* The inductive invariant of BytesInPlace
PlaceInv == SourcesPlaced /\ Apart /\ WritesNamed

HistoryKept ==
  /\ Len(wrote) \in Nat /\ Len(wrote) <= Len(wrote')
  /\ \A w \in 1 .. Len(wrote) : wrote'[w] = wrote[w]

LEMMA HistoryIsKept ==
  ASSUME TypeInv, HistoryGrows
  PROVE  HistoryKept /\ Len(wrote') \in Nat
<1>1. wrote \in Seq([name : Names, off : 0 .. MaxLen - 1]) /\ Len(wrote) \in Nat
  BY LenProperties DEF TypeInv, RecordsOK, WroteOK
<1>2. CASE wrote' = wrote
  BY <1>1, <1>2 DEF HistoryKept
<1>3. ASSUME NEW e \in [name : Names, off : 0 .. MaxLen - 1], wrote' = Append(wrote, e)
      PROVE  HistoryKept /\ Len(wrote') \in Nat
  BY <1>1, <1>3 DEF HistoryKept
<1> QED BY <1>2, <1>3 DEF HistoryGrows

\* What was in place is in place when the history has grown.
LEMMA PlacedStays ==
  ASSUME HistoryKept, Len(wrote') \in Nat, NEW bytes, NEW m, Placed(wrote, bytes, m)
  PROVE  Placed(wrote', bytes, m)
BY DEF Placed, HistoryKept

LEMMA AppendPlaced ==
  ASSUME NEW ws, NEW bytes \in Seq(Byte), NEW b \in Byte, NEW m, Placed(ws, bytes, m),
         b # 0 => /\ b \in 1 .. Len(ws)
                  /\ ws[b] = [name |-> m, off |-> Len(bytes)]
  PROVE  Placed(ws, Append(bytes, b), m)
<1>1. Len(bytes) \in Nat /\ DOMAIN bytes = 1 .. Len(bytes)
  BY LenProperties
<1>2. DOMAIN Append(bytes, b) = 1 .. Len(bytes) + 1
  BY <1>1, AppendProperties
<1>3. ASSUME NEW i \in 1 .. Len(bytes) + 1, Append(bytes, b)[i] # 0
      PROVE  /\ Append(bytes, b)[i] \in 1 .. Len(ws)
             /\ ws[Append(bytes, b)[i]] = [name |-> m, off |-> i - 1]
  <2>1. CASE i = Len(bytes) + 1
    <3>1. Append(bytes, b)[i] = b /\ i - 1 = Len(bytes)
      BY <1>1, <2>1
    <3> QED BY <1>3, <3>1
  <2>2. CASE i # Len(bytes) + 1
    <3>1. i \in 1 .. Len(bytes) /\ Append(bytes, b)[i] = bytes[i]
      BY <1>1, <2>2
    <3> QED BY <1>1, <1>3, <3>1 DEF Placed
  <2> QED BY <2>1, <2>2
<1> QED BY <1>2, <1>3 DEF Placed

\* The bytes of a slice, one by one
LEMMA SlicePlaced ==
  ASSUME SourcesPlaced, TypeInv, NEW x \in Slices, NEW i \in 1 .. x.data.len, x.name \in Names,
         heap[x.data.buf][i] # 0
  PROVE  /\ heap[x.data.buf][i] \in 1 .. Len(wrote)
         /\ wrote[heap[x.data.buf][i]] = [name |-> x.name, off |-> i - 1]
<1>1. Bytes(x.data) \in Sources(x.name)
  BY DEF Sources
<1>2. Placed(wrote, Bytes(x.data), x.name)
  BY <1>1 DEF SourcesPlaced
<1>3. DOMAIN Bytes(x.data) = 1 .. x.data.len /\ Bytes(x.data)[i] = heap[x.data.buf][i]
  BY DEF Bytes, BytesIn
<1> QED BY <1>2, <1>3 DEF Placed

\* The byte that goes to a stream next is in place.
LEMMA NextPlaced ==
  ASSUME SourcesPlaced, TypeInv, NEW r, NEW n, NEW m \in Names, r.got \in Seq(Byte),
         Owned(n, m, r.data) \in Slices,
         Len(r.got) < r.data.len, Placed(wrote, r.got, m)
  PROVE  Placed(wrote, Append(r.got, NextByte(r)), m)
<1> DEFINE x == Owned(n, m, r.data)
<1>1. x \in Slices /\ x.name = m /\ x.data = r.data
  BY DEF Owned
<1> HIDE DEF x
<1>2. Fits(heap, r.data)
  BY <1>1 DEF TypeInv
<1>3. Len(r.got) \in Nat /\ r.data.len \in Nat
  BY <1>2, LenProperties, NodusAssumption DEF Fits, SliceType
<1>4. Len(r.got) + 1 \in 1 .. r.data.len /\ (Len(r.got) + 1) - 1 = Len(r.got)
  BY <1>3
<1>5. NextByte(r) # 0 => /\ NextByte(r) \in 1 .. Len(wrote)
                         /\ wrote[NextByte(r)] = [name |-> m, off |-> Len(r.got)]
  BY <1>1, <1>4, SlicePlaced DEF NextByte
<1>6. NextByte(r) \in Byte
  <2>1. r.data.buf \in Bufs /\ r.data.len <= Len(heap[r.data.buf])
    BY <1>2, <1>3, <1>4 DEF Fits
  <2>2. heap[r.data.buf] \in Seq(Byte) /\ Len(heap[r.data.buf]) \in Nat
    BY <2>1, HeapElements DEF TypeInv
  <2> QED BY <1>3, <1>4, <2>1, <2>2 DEF NextByte
<1> QED BY <1>5, <1>6, AppendPlaced

SliceNamed == RecordsOK => \A x \in Slices : x.name \in Names /\ x.node \in Nodes

LEMMA SlicesAreNamed == SliceNamed
<1> SUFFICES ASSUME RecordsOK, NEW x \in Slices PROVE x.name \in Names /\ x.node \in Nodes
  BY DEF SliceNamed
<1>1. CASE x \in CacheSlices
  BY <1>1 DEF CacheSlices, RecordsOK, CachesOK
<1>2. CASE x \in FileSlices
  <2>1. PICK n \in Nodes : \E f \in OpenSlots(n) : x.name = files[n][f].name /\ x.node = n
    BY <1>2 DEF FileSlices
  <2> QED BY <2>1, OpenFile DEF RecordsOK, FileType
<1>3. CASE x \in LookupSlices
  BY <1>3, LookupParts DEF LookupSlices, RecordsOK, ReadingType
<1>4. CASE x \in CastSlices
  BY <1>4 DEF CastSlices, RecordsOK, CastsOK, CastType
<1>5. CASE x \in SendSlices
  BY <1>5 DEF SendSlices, RecordsOK, SendsOK, SendType
<1> QED BY <1>1, <1>2, <1>3, <1>4, <1>5 DEF Slices

LEMMA SlicesAreNamedNext == SliceNamed'
BY SlicesAreNamed, PTL

\* What the streams hold after the step is in place.
LEMMA StreamsStayPlaced ==
  ASSUME TypeInv, PlaceInv, Flow
  PROVE  /\ \A c \in lookups' : c.phase = "reading" => Placed(wrote', c.got, c.name)
         /\ \A s \in sends' : Placed(wrote', s.got, s.name)
<1>1. HistoryKept /\ Len(wrote') \in Nat
  BY HistoryIsKept DEF Flow
<1>2. ASSUME NEW m PROVE Placed(wrote', << >>, m)
  BY DEF Placed
<1>3. ASSUME NEW r, NEW q, NEW n, NEW m \in Names, q.got \in Seq(Byte), q.got \in Sources(m),
             Owned(n, m, q.data) \in Slices, Took(r, q)
      PROVE  Placed(wrote', r.got, m)
  <2>1. Placed(wrote, q.got, m)
    BY <1>3 DEF PlaceInv, SourcesPlaced
  <2>2. Placed(wrote, r.got, m)
    BY <1>3, <2>1, NextPlaced DEF Took, PlaceInv
  <2> QED BY <1>1, <2>2, PlacedStays
<1>4. ASSUME NEW c \in lookups', c.phase = "reading" PROVE Placed(wrote', c.got, c.name)
  <2>1. CASE c.got = << >>
    BY <1>2, <2>1
  <2>2. CASE c.got # << >>
    <3>1. PICK d \in lookups : d.phase = "reading" /\ d.name = c.name /\ Took(c, d)
      BY <1>4, <2>2 DEF Flow, LookupsFlow
    <3>2. d \in ReadingType /\ Owned(d.peer, d.name, d.data) \in Slices
      BY <3>1, LookupParts DEF TypeInv, RecordsOK, Slices
    <3>3. d.got \in Sources(d.name)
      BY <3>1 DEF Sources
    <3> QED BY <1>3, <3>1, <3>2, <3>3 DEF ReadingType
  <2> QED BY <2>1, <2>2
<1>5. ASSUME NEW s \in sends' PROVE Placed(wrote', s.got, s.name)
  <2>1. CASE s.got = << >>
    BY <1>2, <2>1
  <2>2. CASE s.got # << >>
    <3>1. PICK t \in sends : t.name = s.name /\ Took(s, t)
      BY <2>2 DEF Flow, SendsFlow
    <3>2. /\ t.name \in Names /\ t.got \in Seq(Byte) /\ t.got \in Sources(t.name)
          /\ Owned(t.from, t.name, t.data) \in Slices
      BY SendParts
    <3> QED BY <1>3, <3>1, <3>2
  <2> QED BY <2>1, <2>2
<1> QED BY <1>4, <1>5

LEMMA WritesStayNamed ==
  ASSUME TypeInv, PlaceInv, Flow
  PROVE  WritesNamed'
<1>1. HistoryKept /\ Len(wrote') \in Nat
  BY HistoryIsKept DEF Flow
<1> SUFFICES ASSUME NEW n \in Nodes, NEW f \in OpenSlots(n)', files'[n][f].stage # "idle"
             PROVE  LET file == files'[n][f]
                    IN  /\ file.w \in 1 .. Len(wrote')
                        /\ wrote'[file.w] = [name |-> file.name, off |-> file.off]
  BY DEF WritesNamed
<1> DEFINE file == files'[n][f]
<1>2. CASE f \in OpenSlots(n) /\ WriteGoesOn(file, files[n][f])
  <2>1. /\ file.w \in 1 .. Len(wrote)
        /\ wrote[file.w] = [name |-> file.name, off |-> file.off]
    BY <1>2 DEF WriteGoesOn, PlaceInv, WritesNamed
  <2> HIDE DEF file
  <2>2. /\ file.w \in 1 .. Len(wrote')
        /\ wrote'[file.w] = [name |-> file.name, off |-> file.off]
    BY <1>1, <2>1 DEF HistoryKept
  <2> QED BY <2>2 DEF file
<1>3. CASE WriteBegins(file)
  <2>1. wrote \in Seq([name : Names, off : 0 .. MaxLen - 1]) /\ Len(wrote) \in Nat
    BY LenProperties DEF TypeInv, RecordsOK, WroteOK
  <2> DEFINE e == [name |-> file.name, off |-> file.off]
  <2>2. file.w = Len(wrote) + 1 /\ wrote' = Append(wrote, e)
    BY <1>3 DEF WriteBegins
  <2> HIDE DEF e, file
  <2>3. Len(wrote') = Len(wrote) + 1 /\ wrote'[Len(wrote) + 1] = e
    BY <2>1, <2>2
  <2>4. /\ file.w \in 1 .. Len(wrote')
        /\ wrote'[file.w] = [name |-> file.name, off |-> file.off]
    BY <2>1, <2>2, <2>3 DEF e
  <2> QED BY <2>4 DEF file
<1> QED BY <1>2, <1>3 DEF Flow, WritesFlow

\* The bytes of the slices after a step are in place, kind by kind.
LEMMA SlicesStayPlaced ==
  ASSUME TypeInv, PlaceInv, Flow, RecordsOK', Kinds, "coalesce" \notin Allowed
  PROVE  \A x \in Slices' : \A i \in 1 .. x.data.len :
           LET b == heap'[x.data.buf][i]
           IN  b # 0 => /\ b \in 1 .. Len(wrote')
                        /\ wrote'[b] = [name |-> x.name, off |-> i - 1]
<1>0. HistoryKept /\ Len(wrote') \in Nat
  BY HistoryIsKept DEF Flow
<1> DEFINE Good(x, i) ==
             heap'[x.data.buf][i] # 0 =>
               /\ heap'[x.data.buf][i] \in 1 .. Len(wrote')
               /\ wrote'[heap'[x.data.buf][i]] = [name |-> x.name, off |-> i - 1]
\* a part of a slice whose bytes did not change
<1>1. ASSUME NEW x \in Slices', Inside(x), SameBytes(x.data), NEW i \in 1 .. x.data.len
      PROVE  Good(x, i)
  <2>1. x.data # Slice(0, 0)
    BY TheEmptySlice
  <2>2. PICK y \in Slices : /\ y.name = x.name /\ y.data.buf = x.data.buf
                            /\ x.data.len \in 1 .. y.data.len
    BY <1>1, <2>1 DEF Inside
  <2>3. y.data.len \in Nat /\ y.name \in Names
    BY SlicesAreNamed, NodusAssumption DEF TypeInv, SliceNamed, Fits, SliceType
  <2>4. i \in 1 .. y.data.len
    BY <2>2, <2>3
  <2>5. heap[y.data.buf][i] # 0 =>
          /\ heap[y.data.buf][i] \in 1 .. Len(wrote)
          /\ wrote[heap[y.data.buf][i]] = [name |-> x.name, off |-> i - 1]
    BY <2>2, <2>3, <2>4, SlicePlaced DEF PlaceInv
  <2>6. heap'[x.data.buf][i] = heap[y.data.buf][i]
    BY <1>1, <2>2 DEF SameBytes
  <2> QED BY <1>0, <2>5, <2>6 DEF HistoryKept
<1>2. CASE Shares
  <2>1. \A x \in Slices' : Inside(x) /\ SameBytes(x.data)
    BY <1>2, SharesKeeps DEF Shares
  <2> QED BY <1>1, <2>1
<1>3. ASSUME NEW n \in Nodes, NEW m \in Names, NEW b \in Bufs, NEW src \in Seq(Byte),
             NEW k \in 1 .. MaxLen, Fills(n, m, b, src, k),
             NEW x \in Slices', NEW i \in 1 .. x.data.len
      PROVE  Good(x, i)
  <2>1. \/ Inside(x) /\ SameBytes(x.data)
        \/ /\ x = Owned(n, m, Slice(b, k)) /\ x.data.buf = b /\ x.data.len = k
           /\ \A j \in 1 .. k : heap'[b][j] = Resized(src, k)[j]
    BY <1>3, FillsKeeps
  <2>2. CASE Inside(x) /\ SameBytes(x.data)
    BY <1>1, <2>2
  <2>3. CASE /\ x = Owned(n, m, Slice(b, k)) /\ x.data.buf = b /\ x.data.len = k
             /\ \A j \in 1 .. k : heap'[b][j] = Resized(src, k)[j]
    <3>1. x.name = m
      BY <2>3 DEF Owned
    <3>2. src \in Sources(m)
      BY <1>3 DEF Fills
    <3>3. Placed(wrote', src, m)
      BY <1>0, <3>2, PlacedStays DEF PlaceInv, SourcesPlaced
    <3>4. k \in Nat /\ Len(src) \in Nat /\ DOMAIN src = 1 .. Len(src)
      BY LenProperties, NodusAssumption
    <3>5. heap'[x.data.buf][i] = IF i <= Len(src) THEN src[i] ELSE 0
      BY <2>3, <3>4, ResizedBytes
    <3>6. CASE i <= Len(src)
      <4>1. i \in DOMAIN src
        BY <2>3, <3>4, <3>6
      <4> QED BY <3>1, <3>3, <3>5, <3>6, <4>1 DEF Placed
    <3> QED BY <3>5, <3>6
  <2> QED BY <2>1, <2>2, <2>3
<1>4. ASSUME NEW n \in Nodes, NEW f \in OpenSlots(n), PutsByte(n, f),
             NEW x \in Slices', NEW i \in 1 .. x.data.len
      PROVE  Good(x, i)
  <2> DEFINE file == files[n][f]
  <2>1. /\ x \in Slices
        /\ heap'[x.data.buf][i] = IF x.data.buf = file.data.buf /\ i = file.off + 1 THEN file.w
                                  ELSE heap[x.data.buf][i]
    BY <1>4, PutsByteKeeps
  <2>2. wrote' = wrote /\ file.stage = "grown"
    BY <1>4 DEF PutsByte
  <2>3. x.name \in Names
    BY <2>1, SlicesAreNamed DEF TypeInv, SliceNamed
  <2>4. CASE x.data.buf = file.data.buf /\ i = file.off + 1
    <3>1. Owned(n, file.name, file.data) \in Slices
      BY DEF Slices, FileSlices, Owned
    <3>2. x.data.len # 0
      <4>1. x.data \in SliceType
        BY SlicesAreTypedNext DEF SlicesTyped
      <4> QED BY NodusAssumption
    <3>3. x.name = file.name
      <4> DEFINE y == Owned(n, file.name, file.data)
      <4>1. y \in Slices /\ y.data = file.data /\ y.name = file.name
        BY <3>1 DEF Owned
      <4> HIDE DEF y, file
      <4> QED BY <2>1, <2>4, <3>2, <4>1 DEF PlaceInv, Apart
    <3>4. /\ file.w \in 1 .. Len(wrote)
          /\ wrote[file.w] = [name |-> file.name, off |-> file.off]
      BY <2>2 DEF PlaceInv, WritesNamed
    <3>5. file.off = i - 1
      <4>1. file.off \in Nat
        BY OpenFile, NodusAssumption DEF TypeInv, RecordsOK, FileType
      <4> QED BY <2>4, <4>1
    <3> HIDE DEF file
    <3> QED BY <2>1, <2>2, <2>4, <3>3, <3>4, <3>5
  <2>5. CASE ~ (x.data.buf = file.data.buf /\ i = file.off + 1)
    <3>1. heap'[x.data.buf][i] = heap[x.data.buf][i]
      BY <2>1, <2>5
    <3> QED BY <2>1, <2>2, <2>3, <3>1, SlicePlaced DEF PlaceInv
  <2> QED BY <2>4, <2>5
<1> QED BY <1>2, <1>3, <1>4 DEF Kinds, LeavesBytes

LEMMA StaysApart ==
  ASSUME TypeInv, Apart, RecordsOK', Kinds
  PROVE  Apart'
<1> SUFFICES ASSUME NEW x \in Slices', NEW y \in Slices',
                    x.data.len # 0, x.data.buf = y.data.buf
             PROVE  x.node = y.node /\ x.name = y.name
  BY DEF Apart
<1>1. HeapOK(heap') /\ Fits(heap', x.data) /\ Fits(heap', y.data)
  <2>1. CASE Shares
    BY <2>1, SharesKeeps
  <2>2. ASSUME NEW n \in Nodes, NEW m \in Names, NEW b \in Bufs, NEW src \in Seq(Byte),
               NEW k \in 1 .. MaxLen, Fills(n, m, b, src, k)
        PROVE  HeapOK(heap') /\ Fits(heap', x.data) /\ Fits(heap', y.data)
    BY <2>2, FillsKeeps
  <2>3. ASSUME NEW n \in Nodes, NEW f \in OpenSlots(n), PutsByte(n, f)
        PROVE  HeapOK(heap') /\ Fits(heap', x.data) /\ Fits(heap', y.data)
    BY <2>3, PutsByteKeeps
  <2> QED BY <2>1, <2>2, <2>3 DEF Kinds, LeavesBytes
<1>2. x.data.buf # 0 /\ y.data.len # 0
  BY <1>1, NodusAssumption DEF Fits
\* two parts of slices
<1>3. ASSUME NEW z \in {x, y}, Inside(z)
      PROVE  \E s \in Slices : /\ s.node = z.node /\ s.name = z.name
                               /\ s.data.buf = z.data.buf /\ s.data.len # 0
  <2>1. z.data # Slice(0, 0) /\ z.data.len # 0
    BY <1>2, TheEmptySlice
  <2>2. PICK s \in Slices : /\ s.node = z.node /\ s.name = z.name
                            /\ s.data.buf = z.data.buf /\ z.data.len \in 1 .. s.data.len
    BY <1>3, <2>1 DEF Inside
  <2>3. s.data.len # 0
    BY <2>2
  <2> QED BY <2>2, <2>3
<1>4. CASE Inside(x) /\ Inside(y)
  <2>1. PICK s \in Slices : /\ s.node = x.node /\ s.name = x.name
                            /\ s.data.buf = x.data.buf /\ s.data.len # 0
    BY <1>3, <1>4
  <2>2. PICK t \in Slices : /\ t.node = y.node /\ t.name = y.name
                            /\ t.data.buf = y.data.buf /\ t.data.len # 0
    BY <1>3, <1>4
  <2> QED BY <2>1, <2>2 DEF Apart
<1>5. CASE Shares
  BY <1>4, <1>5 DEF Shares
<1>6. ASSUME NEW n \in Nodes, NEW m \in Names, NEW b \in Bufs, NEW src \in Seq(Byte),
             NEW k \in 1 .. MaxLen, Fills(n, m, b, src, k)
      PROVE  x.node = y.node /\ x.name = y.name
  <2>1. \A z \in {x, y} : Inside(z) => z.data.buf # b
    BY <1>3, <1>6 DEF Fills
  <2>2. \A z \in {x, y} : Inside(z) \/ z = Owned(n, m, Slice(b, k))
    BY <1>6 DEF Fills
  <2>3. \A z \in {x, y} : z = Owned(n, m, Slice(b, k)) => z.data.buf = b
    <3>1. k # 0
      BY NodusAssumption
    <3> QED BY <3>1 DEF Owned, Slice
  <2> QED BY <1>4, <2>1, <2>2, <2>3
<1>7. ASSUME NEW n \in Nodes, NEW f \in OpenSlots(n), PutsByte(n, f)
      PROVE  x.node = y.node /\ x.name = y.name
  <2>1. x \in Slices /\ y \in Slices
    BY <1>7 DEF PutsByte
  <2> QED BY <2>1 DEF Apart
<1> QED BY <1>5, <1>6, <1>7 DEF Kinds, LeavesBytes

LEMMA SourcesStayPlaced ==
  ASSUME TypeInv, PlaceInv, Flow, RecordsOK', Kinds, "coalesce" \notin Allowed
  PROVE  SourcesPlaced'
<1>1. ASSUME NEW x \in Slices'
      PROVE  Placed(wrote', Bytes(x.data)', x.name)
  <2>1. \A i \in 1 .. x.data.len : heap'[x.data.buf][i] # 0 =>
          /\ heap'[x.data.buf][i] \in 1 .. Len(wrote')
          /\ wrote'[heap'[x.data.buf][i]] = [name |-> x.name, off |-> i - 1]
    BY SlicesStayPlaced
  <2> DEFINE bytes == [i \in 1 .. x.data.len |-> heap'[x.data.buf][i]]
  <2>2. Bytes(x.data)' = bytes
    BY DEF Bytes, BytesIn
  <2>3. DOMAIN bytes = 1 .. x.data.len /\ \A i \in 1 .. x.data.len : bytes[i] = heap'[x.data.buf][i]
    OBVIOUS
  <2> HIDE DEF bytes
  <2>4. Placed(wrote', bytes, x.name)
    BY <2>1, <2>3 DEF Placed
  <2> QED BY <2>2, <2>4
<1>2. ASSUME NEW m \in Names, NEW bytes \in Sources(m)' PROVE Placed(wrote', bytes, m)
  <2>1. \/ \E x \in Slices' : x.name = m /\ bytes = Bytes(x.data)'
        \/ \E c \in lookups' : c.phase = "reading" /\ c.name = m /\ bytes = c.got
        \/ \E s \in sends' : s.name = m /\ bytes = s.got
    BY DEF Sources
  <2> QED BY <1>1, <2>1, StreamsStayPlaced
<1> QED BY <1>2 DEF SourcesPlaced

LEMMA StepKeepsPlace ==
  ASSUME TypeInv, Roomy, PlaceInv, Next, "coalesce" \notin Allowed
  PROVE  PlaceInv'
<1>1. RecordsOK' /\ Kinds /\ Flow
  BY EveryStepDoes, EveryStepFlows
<1> QED BY <1>1, SourcesStayPlaced, StaysApart, WritesStayNamed DEF PlaceInv

LEMMA StutterKeepsPlace ==
  ASSUME PlaceInv, UNCHANGED vars
  PROVE  PlaceInv'
<1>1. Slices' = Slices
  BY DEF vars, Slices, CacheSlices, FileSlices, LookupSlices, CastSlices, SendSlices, OpenSlots
<1>2. \A m : Sources(m)' = Sources(m)
  BY <1>1 DEF vars, Sources, Bytes, BytesIn
<1>3. WritesNamed'
  BY DEF vars, PlaceInv, WritesNamed, OpenSlots
<1> QED BY <1>1, <1>2, <1>3 DEF vars, PlaceInv, SourcesPlaced, Apart

LEMMA InitIsInPlace ==
  ASSUME NEW ls, StartsWith(ls)
  PROVE  PlaceInv
<1>1. \A n \in Nodes : OpenSlots(n) = {} /\ CachedKeys(cache[n]) = {}
  BY EmptyIsKept DEF StartsWith, OpenSlots
<1>2. lookups = {} /\ casts = {} /\ sends = {}
  BY DEF StartsWith
<1>3. Slices = {}
  BY <1>1, <1>2 DEF Slices, CacheSlices, FileSlices, LookupSlices, CastSlices, SendSlices
<1>4. \A m : Sources(m) = {}
  BY <1>2, <1>3 DEF Sources
<1> QED BY <1>1, <1>3, <1>4 DEF PlaceInv, SourcesPlaced, Apart, WritesNamed

LEMMA PlacedIsInPlace ==
  ASSUME TypeInv, PlaceInv
  PROVE  BytesInPlace
<1> SUFFICES ASSUME NEW n \in Nodes, NEW m \in CachedKeys(cache[n]),
                    NEW i \in DOMAIN Copy(n, m), Copy(n, m)[i] # 0
             PROVE  wrote[Copy(n, m)[i]] = [name |-> m, off |-> i - 1]
  BY DEF BytesInPlace
<1> DEFINE x == Owned(n, m, cache[n].items[m])
<1>1. m \in Names
  BY DEF TypeInv, RecordsOK, CachesOK
<1>2. x \in Slices /\ x.name = m /\ x.data = cache[n].items[m]
  BY CachedSlice DEF Slices, Owned
<1> HIDE DEF x
<1>3. Copy(n, m) = Bytes(x.data) /\ Bytes(x.data) \in Sources(m)
  BY <1>2 DEF Copy, Sources
<1>4. Placed(wrote, Copy(n, m), m)
  BY <1>1, <1>3 DEF PlaceInv, SourcesPlaced
<1> QED BY <1>4 DEF Placed

\* Where the data of a broadcast never comes in one Read with its header, no byte
\* of any cached copy ever turns up in another file or at another offset.
THEOREM BytesStayInPlace ==
  ASSUME Memory, "coalesce" \notin Allowed
  PROVE  Spec => []BytesInPlace
<1> DEFINE I == MemoryInv /\ PlaceInv
<1>1. Init => I
  BY InitMemory, InitIsInPlace DEF Init
<1>2. I /\ [Next]_vars => I'
  <2> SUFFICES ASSUME I, [Next]_vars PROVE I'
    OBVIOUS
  <2>1. MemoryInv'
    BY StepKeepsMemory
  <2>2. CASE Next
    BY <2>1, <2>2, MemoryIsRoomy, StepKeepsPlace
  <2>3. CASE UNCHANGED vars
    BY <2>1, <2>3, StutterKeepsPlace
  <2> QED BY <2>2, <2>3
<1>3. I => BytesInPlace
  BY PlacedIsInPlace DEF MemoryInv
<1> QED BY <1>1, <1>2, <1>3, PTL DEF Spec

-----------------------------------------------------------------------------
(* A Lookup caches a whole file or nothing *)

Goes(c) == \E d \in lookups' : d.node = c.node /\ d.name = c.name

CachesWhole(c) ==
  c.name \in CachedKeys(cache'[c.node]) => cache'[c.node].items[c.name].len = c.data.len

LEMMA BecomesGoes ==
  ASSUME NEW c, NEW d, Becomes(c, d), d.node = c.node, d.name = c.name,
         NEW e \in lookups
  PROVE  Goes(e)
<1>1. CASE e = c
  BY <1>1 DEF Becomes, Goes
<1>2. CASE e # c
  BY <1>2 DEF Becomes, Goes
<1> QED BY <1>1, <1>2

\* A Lookup that reads goes on until it has all, or its node ends.
LEMMA LookupStepGoes ==
  ASSUME RecordsOK, NEW c \in lookups, LookupStep(c) \/ FetchFails(c) \/ Stall(c),
         NEW e \in lookups, e.phase = "reading"
  PROVE  Goes(e) \/ CachesWhole(e)
<1>0. \A todo : Choosing(c, todo).node = c.node /\ Choosing(c, todo).name = c.name
  BY DEF Choosing
<1>1. CASE Ask(c)
  <2>1. PICK p \in c.todo :
           \/ Becomes(c, [node |-> c.node, name |-> c.name, create |-> c.create,
                          phase |-> "asked", todo |-> c.todo \ {p}, peer |-> p])
           \/ Becomes(c, Choosing(c, c.todo \ {p}))
    BY <1>1 DEF Ask
  <2> DEFINE d == [node |-> c.node, name |-> c.name, create |-> c.create,
                   phase |-> "asked", todo |-> c.todo \ {p}, peer |-> p]
  <2>2. d.node = c.node /\ d.name = c.name
    OBVIOUS
  <2>3. Becomes(c, d) \/ Becomes(c, Choosing(c, c.todo \ {p}))
    BY <2>1
  <2> HIDE DEF d
  <2> QED BY <1>0, <2>2, <2>3, BecomesGoes
<1>2. CASE Serve(c)
  <2> DEFINE d == [node |-> c.node, name |-> c.name, create |-> c.create,
                   phase |-> "reading", todo |-> c.todo, peer |-> c.peer,
                   data |-> cache[c.peer].items[c.name], got |-> << >>]
  <2>1. d.node = c.node /\ d.name = c.name
    OBVIOUS
  <2>2. Becomes(c, d) \/ Becomes(c, Choosing(c, c.todo))
    BY <1>2 DEF Serve
  <2> HIDE DEF d
  <2> QED BY <1>0, <2>1, <2>2, BecomesGoes
<1>3. CASE FetchByte(c)
  <2>1. c \in ReadingType
    BY <1>3, LookupParts DEF FetchByte, RecordsOK
  <2>2. PICK d : d = [c EXCEPT !.got = Append(c.got, NextByte(c))]
    OBVIOUS
  <2>3. d.node = c.node /\ d.name = c.name
    BY <2>1, <2>2 DEF ReadingType
  <2>4. Becomes(c, d)
    BY <1>3, <2>2 DEF FetchByte
  <2> QED BY <2>3, <2>4, BecomesGoes
<1>4. CASE FetchDone(c)
  <2>1. CASE c.got = << >>
    <3>1. Becomes(c, Choosing(c, c.todo))
      BY <1>4, <2>1 DEF FetchDone
    <3> QED BY <1>0, <3>1, BecomesGoes
  <2>2. CASE c.got # << >>
    <3>1. CASE e # c
      BY <1>4, <2>2, <3>1 DEF FetchDone, Goes
    <3>2. CASE e = c
      <4> DEFINE d == Slice(NewBuf, Len(c.got))
                 q == CachePut(cache[c.node], c.name, d, Capacity)
      <4>1. c.node \in Nodes /\ c.name \in Names /\ KeptCache(cache[c.node], Names)
        BY LookupParts DEF RecordsOK, CachesOK
      <4>2. q.items[c.name] = d
        BY <4>1, PutKeeps
      <4>3. d.len = c.data.len
        BY <1>4 DEF FetchDone, Slice
      <4>4. cache' = [cache EXCEPT ![c.node] = q]
        BY <1>4, <2>2 DEF FetchDone, Put
      <4> HIDE DEF d, q
      <4>5. cache'[c.node] = q
        BY <4>1, <4>4 DEF RecordsOK, CachesOK
      <4> QED BY <3>2, <4>2, <4>3, <4>5 DEF CachesWhole
    <3> QED BY <3>1, <3>2
  <2> QED BY <2>1, <2>2
<1>5. CASE LookupFails(c)
  <2>1. e # c
    BY <1>5 DEF LookupFails
  <2> QED BY <1>5, <2>1 DEF LookupFails, Goes
<1>6. CASE Create(c)
  <2>1. e # c
    BY <1>6 DEF Create
  <2> QED BY <1>6, <2>1 DEF Create, Goes
<1>7. CASE FetchFails(c)
  BY <1>0, <1>7, BecomesGoes DEF FetchFails
<1>8. CASE Stall(c)
  <2> DEFINE d == [node |-> c.node, name |-> c.name, create |-> c.create,
                   phase |-> "stalled", todo |-> c.todo, peer |-> c.peer]
  <2>1. d.node = c.node /\ d.name = c.name /\ Becomes(c, d)
    BY <1>8 DEF Stall
  <2> HIDE DEF d
  <2> QED BY <2>1, BecomesGoes
<1> QED BY <1>1, <1>2, <1>3, <1>4, <1>5, <1>6, <1>7, <1>8 DEF LookupStep

LEMMA EveryStepGoes ==
  ASSUME RecordsOK, Next, NEW e \in lookups, e.phase = "reading"
  PROVE  Goes(e) \/ CachesWhole(e)
<1>0. ASSUME lookups \subseteq lookups' PROVE Goes(e)
  BY <1>0 DEF Goes
<1>1. ASSUME NEW n \in Nodes, Request(n) PROVE Goes(e)
  <2>1. lookups \subseteq lookups'
    BY <1>1 DEF Request, LookupHit, RemoveFile, LookupMiss, ReadAll, WriteGrow, Flush, Setattr
  <2> QED BY <1>0, <2>1
<1>2. ASSUME NEW n \in Nodes, Restart(n) PROVE Goes(e) \/ CachesWhole(e)
  <2>1. CASE e.node = n
    <3>1. cache' = [cache EXCEPT ![n] = EmptyCache]
      BY <1>2 DEF Restart
    <3>2. cache'[n] = EmptyCache
      BY <3>1 DEF RecordsOK, CachesOK
    <3>3. CachedKeys(EmptyCache) = {}
      BY EmptyIsKept
    <3> QED BY <2>1, <3>2, <3>3 DEF CachesWhole
  <2>2. CASE e.node # n
    <3> DEFINE d == IF e.phase \in {"asked", "reading", "stalled"} /\ e.peer = n
                    THEN Choosing(e, e.todo) ELSE e
    <3>1. d \in lookups'
      BY <1>2, <2>2 DEF Restart
    <3>2. d.node = e.node /\ d.name = e.name
      BY DEF Choosing
    <3> HIDE DEF d
    <3> QED BY <3>1, <3>2 DEF Goes
  <2> QED BY <2>1, <2>2
<1>3. ASSUME NEW n \in Nodes, NEW f \in OpenSlots(n), FileStep(n, f) PROVE Goes(e)
  BY <1>0, <1>3 DEF FileStep, WriteCopy, WritePublish
<1>4. ASSUME NEW b \in casts, Broadcast(b) PROVE Goes(e)
  BY <1>0, <1>4 DEF Broadcast
<1>5. ASSUME NEW s \in sends, SendStep(s) \/ SendFails(s) \/ SendStalls(s) PROVE Goes(e)
  BY <1>0, <1>5 DEF SendStep, SendByte, Deliver, SendFails, SendStalls, Receive
<1>6. ASSUME NEW n \in Nodes, NEW p \in Nodes, Connect(n, p) PROVE Goes(e)
  BY <1>0, <1>6 DEF Connect
<1>7. ASSUME NEW n \in Nodes, NEW p \in Nodes, Disconnect(n, p) PROVE Goes(e)
  <2>1. e \in lookups'
    BY <1>7 DEF Disconnect
  <2> QED BY <2>1 DEF Goes
<1> QED BY <1>1, <1>2, <1>3, <1>4, <1>5, <1>6, <1>7, LookupStepGoes DEF Next

\* What a Lookup caches is as long as the file the answering peer held, whatever
\* breaks, restarts or is cached in the meantime.
THEOREM FetchIsAllOrNothing ==
  ASSUME Memory
  PROVE  Spec => FetchAllOrNothing
<1>1. Init => MemoryInv
  BY InitMemory DEF Init
<1>2. MemoryInv /\ [Next]_vars => MemoryInv'
  BY StepKeepsMemory
<1>3. MemoryInv /\ [Next]_vars =>
        [\A c \in lookups :
           /\ c.phase = "reading"
           /\ \A d \in lookups' : d.node # c.node \/ d.name # c.name
           /\ c.name \in CachedKeys(cache'[c.node])
           => cache'[c.node].items[c.name].len = c.data.len]_vars
  BY EveryStepGoes DEF MemoryInv, TypeInv, Goes, CachesWhole
<1> QED BY <1>1, <1>2, <1>3, PTL DEF Spec, FetchAllOrNothing

-----------------------------------------------------------------------------
(* What Write has written is in the cached file when Write returns *)

\* A node has one File object at a time for each name.
OneFilePerName ==
  \A n \in Nodes : \A f, g \in OpenSlots(n) : files[n][f].name = files[n][g].name => f = g

\* A Lookup that is to create a file has its node's directory for itself, and no
\* other goes on to Create.
CreatesAlone ==
  \A c \in lookups :
    /\ c.phase = "absent" => c.create
    /\ c.create => /\ \A d \in lookups : d.node = c.node => d = c
                   /\ \A f \in OpenSlots(c.node) : files[c.node][f].name # c.name

\* The slice of a Write under way is long enough, and holds the byte once copied,
\* but for the Write calls in D.
FitsUnless(D) ==
  \A n \in Nodes : \A f \in OpenSlots(n) :
    LET file == files[n][f]
    IN  file.w \notin D =>
          /\ file.stage # "idle" => file.off < file.data.len
          /\ file.stage = "copied" => heap[file.data.buf][file.off + 1] = file.w

WritesFit == FitsUnless({})

\* What keeps all Write calls undisturbed when neither reads nor other File objects
\* come in between
WriteInv == OneFilePerName /\ CreatesAlone /\ WritesFit /\ Apart

\* What a step does to the stages of the Files, to their names, and to the Lookups
StagesMove ==
  \A n \in Nodes : \A f \in OpenSlots(n)' :
    LET file == files'[n][f]
        old  == files[n][f]
    IN  \/ file.stage = "idle"
        \/ f \in OpenSlots(n) /\ file = old
        \/ file.stage = "grown" /\ file.off < file.data.len
        \/ /\ f \in OpenSlots(n) /\ WriteCopy(n, f)
           /\ file.data = old.data /\ file.w = old.w /\ file.off = old.off
        \/ f \in OpenSlots(n) /\ ReadUnder(n, f) /\ file.w = old.w

NameKept(n, f) == f \in OpenSlots(n) /\ files'[n][f].name = files[n][f].name

NoneOpens == \A n \in Nodes : \A f \in OpenSlots(n)' : NameKept(n, f)
OneOpens(n, m, f) ==
  /\ \A c \in lookups' : c.node # n \/ ~ c.create
  /\ \A g \in OpenSlots(n) : files[n][g].name # m
  /\ files'[n][f].name = m
  /\ \A k \in Nodes : \A g \in OpenSlots(k)' : (k = n /\ g = f) \/ NameKept(k, g)
NamesMove == NoneOpens \/ \E n \in Nodes, m \in Names, f \in Slots : OneOpens(n, m, f)

Carries(g) ==
  /\ \A d \in lookups' : \E c \in lookups : d = g[c]
  /\ \A c \in lookups :
       /\ g[c].node = c.node /\ g[c].name = c.name /\ g[c].create = c.create
       /\ g[c].phase = "absent" => c.phase = "absent" \/ c.create
LookupsMove ==
  \/ \E g : Carries(g)
  \/ \E n \in Nodes, m \in Names, create \in BOOLEAN : LookupMiss(n, m, create)

Moves == StagesMove /\ NamesMove /\ LookupsMove

LEMMA FewerCarried ==
  ASSUME lookups' \subseteq lookups
  PROVE  LookupsMove
<1> DEFINE g == [c \in lookups |-> c]
<1>1. Carries(g)
  BY DEF Carries
<1> QED BY <1>1 DEF LookupsMove

LEMMA BecomesCarried ==
  ASSUME NEW c \in lookups, NEW d, Becomes(c, d),
         d.node = c.node, d.name = c.name, d.create = c.create,
         d.phase # "absent" \/ c.create
  PROVE  LookupsMove
<1> DEFINE g == [x \in lookups |-> IF x = c THEN d ELSE x]
<1>1. \A e \in lookups' : e = d \/ (e \in lookups /\ e # c)
  BY DEF Becomes
<1>2. Carries(g)
  BY <1>1 DEF Carries
<1> QED BY <1>2 DEF LookupsMove

\* Only the File in one slot has changed, and is none or has the name it had.
LEMMA FileMoves ==
  ASSUME FilesOK, NEW n \in Nodes, NEW f \in OpenSlots(n), NEW file,
         files' = [files EXCEPT ![n][f] = file],
         file = NoFile \/ file.name = files[n][f].name,
         \/ file = NoFile
         \/ file.stage = "idle"
         \/ file = files[n][f]
         \/ file.stage = "grown" /\ file.off < file.data.len
         \/ /\ WriteCopy(n, f)
            /\ file.data = files[n][f].data
            /\ file.w = files[n][f].w /\ file.off = files[n][f].off
         \/ ReadUnder(n, f) /\ file.w = files[n][f].w
  PROVE  StagesMove /\ NamesMove
<1>1. f \in Slots
        /\ \A k \in Nodes, g \in Slots :
             files'[k][g] = IF k = n /\ g = f THEN file ELSE files[k][g]
  BY OpenFile DEF FilesOK
<1>2. ASSUME NEW k \in Nodes, NEW g \in OpenSlots(k)'
      PROVE  /\ NameKept(k, g)
             /\ \/ files'[k][g].stage = "idle"
                \/ g \in OpenSlots(k) /\ files'[k][g] = files[k][g]
                \/ files'[k][g].stage = "grown" /\ files'[k][g].off < files'[k][g].data.len
                \/ /\ g \in OpenSlots(k) /\ WriteCopy(k, g)
                   /\ files'[k][g].data = files[k][g].data
                   /\ files'[k][g].w = files[k][g].w /\ files'[k][g].off = files[k][g].off
                \/ g \in OpenSlots(k) /\ ReadUnder(k, g) /\ files'[k][g].w = files[k][g].w
  <2>1. g \in Slots /\ files'[k][g] # NoFile
    BY DEF OpenSlots
  <2>2. CASE k = n /\ g = f
    <3>1. files'[k][g] = file /\ file # NoFile /\ g \in OpenSlots(k)
      BY <1>1, <2>1, <2>2
    <3> QED BY <2>2, <3>1 DEF NameKept
  <2>3. CASE ~ (k = n /\ g = f)
    <3>1. files'[k][g] = files[k][g] /\ g \in OpenSlots(k)
      BY <1>1, <2>1, <2>3 DEF OpenSlots
    <3> QED BY <3>1 DEF NameKept
  <2> QED BY <2>2, <2>3
<1> QED BY <1>2 DEF StagesMove, NamesMove, NoneOpens

LEMMA SameFilesMove ==
  ASSUME UNCHANGED files
  PROVE  StagesMove /\ NamesMove
BY DEF StagesMove, NamesMove, NoneOpens, NameKept, OpenSlots

\* A File object is made.
LEMMA NewFileStages ==
  ASSUME FilesOK, NEW n \in Nodes, NEW f \in Slots, NEW file,
         files' = [files EXCEPT ![n][f] = file], file.stage = "idle"
  PROVE  StagesMove
<1>1. \A k \in Nodes, g \in Slots :
        files'[k][g] = IF k = n /\ g = f THEN file ELSE files[k][g]
  BY DEF FilesOK
<1>2. ASSUME NEW k \in Nodes, NEW g \in OpenSlots(k)'
      PROVE  \/ files'[k][g].stage = "idle"
             \/ g \in OpenSlots(k) /\ files'[k][g] = files[k][g]
  <2>1. g \in Slots /\ files'[k][g] # NoFile
    BY DEF OpenSlots
  <2> QED BY <1>1, <2>1 DEF OpenSlots
<1> QED BY <1>2 DEF StagesMove

LEMMA KeepStages ==
  ASSUME FilesOK, NEW n \in Nodes, NEW m, NEW d, Keep(n, m, d)
  PROVE  StagesMove
<1>1. CASE UNCHANGED files
  BY <1>1, SameFilesMove
<1>2. CASE ~ UNCHANGED files
  <2> DEFINE file == [name |-> m, data |-> d, stage |-> "idle", w |-> 0, off |-> 0]
  <2>1. PICK f \in Slots : files' = [files EXCEPT ![n][f] = file]
    BY <1>2 DEF Keep
  <2>2. file.stage = "idle"
    OBVIOUS
  <2> HIDE DEF file
  <2> QED BY <2>1, <2>2, NewFileStages
<1> QED BY <1>1, <1>2

\* A File object is made for a name that had none.
LEMMA NewFileMoves ==
  ASSUME FilesOK, NEW n \in Nodes, NEW m \in Names, NEW f \in Slots, NEW file,
         files' = [files EXCEPT ![n][f] = file], file.name = m, file.stage = "idle",
         \A g \in OpenSlots(n) : files[n][g].name # m,
         \A c \in lookups' : c.node # n \/ ~ c.create
  PROVE  StagesMove /\ NamesMove
<1>1. \A k \in Nodes, g \in Slots :
        files'[k][g] = IF k = n /\ g = f THEN file ELSE files[k][g]
  BY DEF FilesOK
<1>2. ASSUME NEW k \in Nodes, NEW g \in OpenSlots(k)'
      PROVE  \/ k = n /\ g = f /\ files'[k][g].stage = "idle"
             \/ NameKept(k, g) /\ files'[k][g] = files[k][g]
  <2>1. g \in Slots /\ files'[k][g] # NoFile
    BY DEF OpenSlots
  <2>2. CASE k = n /\ g = f
    BY <1>1, <2>2
  <2>3. CASE ~ (k = n /\ g = f)
    BY <1>1, <2>1, <2>3 DEF OpenSlots, NameKept
  <2> QED BY <2>2, <2>3
<1>3. StagesMove
  BY NewFileStages
<1>4. OneOpens(n, m, f)
  BY <1>1, <1>2 DEF OneOpens
<1> QED BY <1>3, <1>4 DEF NamesMove

LEMMA KeepMoves ==
  ASSUME FilesOK, NEW n \in Nodes, NEW m \in Names, NEW d, Keep(n, m, d),
         "reopen" \notin Allowed,
         \A c \in lookups' : c.node # n \/ ~ c.create
  PROVE  StagesMove /\ NamesMove
<1>1. CASE UNCHANGED files
  BY <1>1, SameFilesMove
<1>2. CASE ~ UNCHANGED files
  <2> DEFINE file == [name |-> m, data |-> d, stage |-> "idle", w |-> 0, off |-> 0]
  <2>1. PICK f \in Slots : files' = [files EXCEPT ![n][f] = file]
    BY <1>2 DEF Keep
  <2>2. \A g \in OpenSlots(n) : files[n][g].name # m
    BY <1>2 DEF Keep, MayOpen
  <2>3. file.name = m /\ file.stage = "idle"
    OBVIOUS
  <2> HIDE DEF file
  <2> QED BY <2>1, <2>2, <2>3, NewFileMoves
<1> QED BY <1>1, <1>2

LEMMA LookupStepMoves ==
  ASSUME TypeInv, CreatesAlone, "reopen" \notin Allowed,
         NEW c \in lookups, LookupStep(c) \/ FetchFails(c) \/ Stall(c)
  PROVE  Moves
<1>0. /\ c.node \in Nodes /\ c.name \in Names /\ FilesOK
      /\ \A todo : /\ Choosing(c, todo).node = c.node /\ Choosing(c, todo).name = c.name
                   /\ Choosing(c, todo).create = c.create
                   /\ Choosing(c, todo).phase # "absent"
  BY LookupParts DEF Choosing, TypeInv, RecordsOK
<1>1. CASE Ask(c)
  <2>1. PICK p \in c.todo :
           \/ Becomes(c, [node |-> c.node, name |-> c.name, create |-> c.create,
                          phase |-> "asked", todo |-> c.todo \ {p}, peer |-> p])
           \/ Becomes(c, Choosing(c, c.todo \ {p}))
    BY <1>1 DEF Ask
  <2> DEFINE d == [node |-> c.node, name |-> c.name, create |-> c.create,
                   phase |-> "asked", todo |-> c.todo \ {p}, peer |-> p]
  <2>2. d.node = c.node /\ d.name = c.name /\ d.create = c.create /\ d.phase # "absent"
    OBVIOUS
  <2>3. Becomes(c, d) \/ Becomes(c, Choosing(c, c.todo \ {p}))
    BY <2>1
  <2> HIDE DEF d
  <2> QED BY <1>0, <1>1, <2>2, <2>3, BecomesCarried, SameFilesMove DEF Ask, Moves
<1>2. CASE Serve(c)
  <2> DEFINE d == [node |-> c.node, name |-> c.name, create |-> c.create,
                   phase |-> "reading", todo |-> c.todo, peer |-> c.peer,
                   data |-> cache[c.peer].items[c.name], got |-> << >>]
  <2>1. d.node = c.node /\ d.name = c.name /\ d.create = c.create /\ d.phase # "absent"
    OBVIOUS
  <2>2. Becomes(c, d) \/ Becomes(c, Choosing(c, c.todo))
    BY <1>2 DEF Serve
  <2> HIDE DEF d
  <2> QED BY <1>0, <1>2, <2>1, <2>2, BecomesCarried, SameFilesMove DEF Serve, Moves
<1>3. CASE FetchByte(c)
  <2>1. c \in ReadingType
    BY <1>3, LookupParts DEF FetchByte, TypeInv, RecordsOK
  <2>2. PICK d : d = [c EXCEPT !.got = Append(c.got, NextByte(c))]
    OBVIOUS
  <2>3. d.node = c.node /\ d.name = c.name /\ d.create = c.create /\ d.phase # "absent"
    BY <2>1, <2>2 DEF ReadingType
  <2>4. Becomes(c, d)
    BY <1>3, <2>2 DEF FetchByte
  <2> QED BY <1>3, <2>3, <2>4, BecomesCarried, SameFilesMove DEF FetchByte, Moves
<1>4. CASE FetchDone(c)
  <2>1. CASE c.got = << >>
    <3>1. Becomes(c, Choosing(c, c.todo)) /\ UNCHANGED files
      BY <1>4, <2>1 DEF FetchDone
    <3> QED BY <1>0, <3>1, BecomesCarried, SameFilesMove DEF Moves
  <2>2. CASE c.got # << >>
    <3>1. lookups' = lookups \ {c} /\ \E d : Keep(c.node, c.name, d)
      BY <1>4, <2>2 DEF FetchDone
    <3>2. \A e \in lookups' : e.node # c.node \/ ~ e.create
      BY <3>1 DEF CreatesAlone
    <3> QED BY <1>0, <3>1, <3>2, FewerCarried, KeepMoves DEF Moves
  <2> QED BY <2>1, <2>2
<1>5. CASE LookupFails(c)
  <2>1. c \in WaitingType
    BY <1>5, LookupParts DEF LookupFails, TypeInv, RecordsOK
  <2>2. PICK d : d = [c EXCEPT !.phase = "absent"]
    OBVIOUS
  <2>3. d.node = c.node /\ d.name = c.name /\ d.create = c.create
    BY <2>1, <2>2 DEF WaitingType
  <2>4. CASE c.create
    <3>1. Becomes(c, d)
      BY <1>5, <2>2, <2>4 DEF LookupFails, Becomes
    <3> QED BY <1>5, <2>3, <2>4, <3>1, BecomesCarried, SameFilesMove DEF LookupFails, Moves
  <2>5. CASE ~ c.create
    <3>1. lookups' \subseteq lookups
      BY <1>5, <2>5 DEF LookupFails
    <3> QED BY <1>5, <3>1, FewerCarried, SameFilesMove DEF LookupFails, Moves
  <2> QED BY <2>4, <2>5
<1>6. CASE Create(c)
  <2> DEFINE file == [name |-> c.name, data |-> Slice(0, 0),
                      stage |-> "idle", w |-> 0, off |-> 0]
  <2>1. PICK f \in Slots : files' = [files EXCEPT ![c.node][f] = file]
    BY <1>6 DEF Create
  <2>2. file.name = c.name /\ file.stage = "idle"
    OBVIOUS
  <2> HIDE DEF file
  <2>3. lookups' = lookups \ {c} /\ c.phase = "absent"
    BY <1>6 DEF Create
  <2>4. c.create
    BY <2>3 DEF CreatesAlone
  <2>5. /\ \A e \in lookups' : e.node # c.node \/ ~ e.create
        /\ \A g \in OpenSlots(c.node) : files[c.node][g].name # c.name
    BY <2>3, <2>4 DEF CreatesAlone
  <2>6. StagesMove /\ NamesMove
    BY <1>0, <2>1, <2>2, <2>5, NewFileMoves
  <2> QED BY <2>3, <2>6, FewerCarried DEF Moves
<1>7. CASE FetchFails(c)
  BY <1>0, <1>7, BecomesCarried, SameFilesMove DEF FetchFails, Moves
<1>8. CASE Stall(c)
  <2> DEFINE d == [node |-> c.node, name |-> c.name, create |-> c.create,
                   phase |-> "stalled", todo |-> c.todo, peer |-> c.peer]
  <2>1. /\ d.node = c.node /\ d.name = c.name /\ d.create = c.create /\ Becomes(c, d)
        /\ d.phase # "absent"
    BY <1>8 DEF Stall
  <2> HIDE DEF d
  <2> QED BY <1>8, <2>1, BecomesCarried, SameFilesMove DEF Stall, Moves
<1> QED BY <1>1, <1>2, <1>3, <1>4, <1>5, <1>6, <1>7, <1>8 DEF LookupStep

LEMMA FileOpMoves ==
  ASSUME TypeInv, NEW n \in Nodes, NEW f \in OpenSlots(n),
         \/ ReadAll(n, f)
         \/ \E off \in 0 .. MaxLen - 1 : WriteGrow(n, f, off)
         \/ \E last \in BOOLEAN : Flush(n, f, last)
         \/ \E size \in 0 .. MaxLen : Setattr(n, f, size)
         \/ FileStep(n, f)
  PROVE  Moves
<1> DEFINE old == files[n][f]
<1>1. f \in Slots /\ old \in FileType /\ FilesOK
  BY OpenFile DEF TypeInv, RecordsOK
<1>2. LookupsMove
  <2>1. UNCHANGED lookups
    BY DEF ReadAll, WriteGrow, Flush, Setattr, FileStep, WriteCopy, WritePublish
  <2> QED BY <2>1, FewerCarried
<1>3. ASSUME NEW d, files' = [files EXCEPT ![n][f].data = d],
             old.stage = "idle" \/ ReadUnder(n, f)
      PROVE  StagesMove /\ NamesMove
  <2>1. PICK file : file = [old EXCEPT !.data = d]
    OBVIOUS
  <2>2. files' = [files EXCEPT ![n][f] = file]
    BY <1>3, <2>1
  <2>3. file.stage = old.stage /\ file.name = old.name /\ file.w = old.w
    <3> HIDE DEF old
    <3> QED BY <1>1, <2>1 DEF FileType
  <2>4. /\ file.name = files[n][f].name
        /\ file.stage = "idle" \/ (ReadUnder(n, f) /\ file.w = files[n][f].w)
    BY <1>3, <2>3
  <2>5. FilesOK
    BY <1>1
  <2> HIDE DEF old
  <2> QED BY <2>2, <2>4, <2>5, FileMoves
<1>4. CASE ReadAll(n, f)
  <2>1. PICK d : files' = [files EXCEPT ![n][f].data = d]
    BY <1>4 DEF ReadAll
  <2>2. old.stage = "idle" \/ ReadUnder(n, f)
    BY <1>4 DEF ReadUnder, Idle
  <2> QED BY <1>2, <1>3, <2>1, <2>2 DEF Moves
<1>5. ASSUME NEW off \in 0 .. MaxLen - 1, WriteGrow(n, f, off)
      PROVE  StagesMove /\ NamesMove
  <2>1. PICK d : /\ files' = [files EXCEPT ![n][f] =
                      [old EXCEPT !.data = d, !.stage = "grown", !.w = Len(wrote) + 1, !.off = off]]
                 /\ IF off + 1 > old.data.len THEN d = Slice(NewBuf, off + 1) ELSE d = old.data
    BY <1>5 DEF WriteGrow
  <2>2. PICK file :
          file = [old EXCEPT !.data = d, !.stage = "grown", !.w = Len(wrote) + 1, !.off = off]
    OBVIOUS
  <2>3. files' = [files EXCEPT ![n][f] = file]
    BY <2>1, <2>2
  <2>4. file.name = old.name /\ file.stage = "grown" /\ file.off = off /\ file.data = d
    <3> HIDE DEF old
    <3> QED BY <1>1, <2>2 DEF FileType
  <2>5. off < d.len
    <3>1. old.data.len \in Nat /\ off \in Nat
      BY <1>1, NodusAssumption DEF FileType, SliceType
    <3>2. Slice(NewBuf, off + 1).len = off + 1
      BY DEF Slice
    <3> HIDE DEF old
    <3> QED BY <2>1, <3>1, <3>2
  <2> HIDE DEF old
  <2> QED BY <1>1, <2>3, <2>4, <2>5, FileMoves DEF old
<1>6. ASSUME NEW last \in BOOLEAN, Flush(n, f, last)
      PROVE  StagesMove /\ NamesMove
  <2>1. files' = [files EXCEPT ![n][f] = NoFile] \/ UNCHANGED files
    BY <1>6 DEF Flush
  <2> QED BY <1>1, <2>1, SameFilesMove, FileMoves
<1>7. ASSUME NEW size \in 0 .. MaxLen, Setattr(n, f, size)
      PROVE  StagesMove /\ NamesMove
  <2>1. old.stage = "idle" /\ \E d : files' = [files EXCEPT ![n][f].data = d]
    BY <1>7 DEF Setattr, Idle
  <2> QED BY <1>3, <2>1
<1>8. CASE WriteCopy(n, f)
  <2>1. PICK file : file = IF old.off > old.data.len THEN Ended(old)
                           ELSE [old EXCEPT !.stage = "copied"]
    OBVIOUS
  <2>2. files' = [files EXCEPT ![n][f] = file]
    BY <1>8, <2>1 DEF WriteCopy
  <2>3. /\ file.name = old.name /\ file.data = old.data
        /\ file.stage = "idle" \/ (file.w = old.w /\ file.off = old.off)
    <3> HIDE DEF old
    <3> QED BY <1>1, <2>1 DEF FileType, Ended
  <2> QED BY <1>1, <1>2, <1>8, <2>2, <2>3, FileMoves DEF Moves
<1>9. CASE WritePublish(n, f)
  <2>1. PICK file : file = Ended(old)
    OBVIOUS
  <2>2. files' = [files EXCEPT ![n][f] = file]
    BY <1>9, <2>1 DEF WritePublish
  <2>3. file.name = old.name /\ file.stage = "idle"
    <3> HIDE DEF old
    <3> QED BY <1>1, <2>1 DEF FileType, Ended
  <2> QED BY <1>1, <1>2, <2>2, <2>3, FileMoves DEF Moves
<1> QED BY <1>2, <1>4, <1>5, <1>6, <1>7, <1>8, <1>9 DEF FileStep, Moves

LEMMA EveryStepStages ==
  ASSUME TypeInv, Next
  PROVE  StagesMove
<1>0. FilesOK
  BY DEF TypeInv, RecordsOK
<1>1. ASSUME NEW n \in Nodes, NEW m \in Names, LookupHit(n, m) PROVE StagesMove
  <2>1. PICK d : Keep(n, m, d)
    BY <1>1 DEF LookupHit
  <2> QED BY <1>0, <2>1, KeepStages
<1>2. ASSUME UNCHANGED files PROVE StagesMove
  BY <1>2, SameFilesMove
<1>3. ASSUME NEW n \in Nodes, NEW m \in Names,
             RemoveFile(n, m) \/ \E create \in BOOLEAN : LookupMiss(n, m, create)
      PROVE  StagesMove
  BY <1>2, <1>3 DEF RemoveFile, LookupMiss
<1>4. ASSUME NEW n \in Nodes, Restart(n) PROVE StagesMove
  <2>1. files' = [files EXCEPT ![n] = [f \in Slots |-> NoFile]]
    BY <1>4 DEF Restart
  <2>2. \A k \in Nodes : \A f \in OpenSlots(k)' : f \in OpenSlots(k) /\ files'[k][f] = files[k][f]
    BY <1>0, <2>1 DEF OpenSlots, FilesOK
  <2> QED BY <2>2 DEF StagesMove
<1>5. ASSUME NEW c \in lookups, LookupStep(c) \/ FetchFails(c) \/ Stall(c) PROVE StagesMove
  <2>0. c.node \in Nodes
    BY LookupParts DEF TypeInv, RecordsOK
  <2>1. CASE Create(c)
    <3> DEFINE file == [name |-> c.name, data |-> Slice(0, 0),
                        stage |-> "idle", w |-> 0, off |-> 0]
    <3>1. PICK f \in Slots : files' = [files EXCEPT ![c.node][f] = file]
      BY <2>1 DEF Create
    <3>2. file.stage = "idle"
      OBVIOUS
    <3> HIDE DEF file
    <3> QED BY <1>0, <2>0, <3>1, <3>2, NewFileStages
  <2>2. CASE FetchDone(c)
    <3>1. UNCHANGED files \/ \E d : Keep(c.node, c.name, d)
      BY <2>2 DEF FetchDone
    <3>2. ASSUME NEW d, Keep(c.node, c.name, d) PROVE StagesMove
      BY <1>0, <2>0, <3>2, KeepStages
    <3> QED BY <1>2, <3>1, <3>2
  <2>3. CASE ~ Create(c) /\ ~ FetchDone(c)
    <3>1. UNCHANGED files
      BY <1>5, <2>3 DEF LookupStep, Ask, Serve, FetchByte, LookupFails, FetchFails, Stall
    <3> QED BY <1>2, <3>1
  <2> QED BY <2>1, <2>2, <2>3
<1>6. ASSUME NEW b \in casts, Broadcast(b) PROVE StagesMove
  BY <1>2, <1>6 DEF Broadcast
<1>7. ASSUME NEW s \in sends, SendStep(s) \/ SendFails(s) \/ SendStalls(s) PROVE StagesMove
  <2>1. UNCHANGED files
    BY <1>7 DEF SendStep, SendByte, Deliver, SendFails, SendStalls, Receive
  <2> QED BY <1>2, <2>1
<1>8. ASSUME NEW n \in Nodes, NEW p \in Nodes, Connect(n, p) \/ Disconnect(n, p)
      PROVE  StagesMove
  BY <1>2, <1>8 DEF Connect, Disconnect
<1> QED BY <1>1, <1>3, <1>4, <1>5, <1>6, <1>7, <1>8, FileOpMoves DEF Next, Request, Moves

LEMMA EveryStepMoves ==
  ASSUME TypeInv, WriteInv, Next, "overlap" \notin Allowed, "reopen" \notin Allowed
  PROVE  Moves
<1>0. FilesOK
  BY DEF TypeInv, RecordsOK
<1>1. ASSUME NEW n \in Nodes, NEW m \in Names, LookupHit(n, m) PROVE Moves
  <2>1. \E d : Keep(n, m, d)
    BY <1>1 DEF LookupHit
  <2>2. UNCHANGED lookups /\ \A c \in lookups : c.node # n \/ ~ c.create
    BY <1>1 DEF LookupHit, NoCreateOn
  <2> QED BY <1>0, <2>1, <2>2, FewerCarried, KeepMoves DEF Moves
<1>2. ASSUME NEW n \in Nodes, NEW m \in Names, RemoveFile(n, m) PROVE Moves
  BY <1>2, FewerCarried, SameFilesMove DEF RemoveFile, Moves
<1>3. ASSUME NEW n \in Nodes, NEW m \in Names, NEW create \in BOOLEAN, LookupMiss(n, m, create)
      PROVE  Moves
  <2>1. UNCHANGED files
    BY <1>3 DEF LookupMiss
  <2> QED BY <1>3, <2>1, SameFilesMove DEF Moves, LookupsMove
<1>4. ASSUME NEW n \in Nodes, Restart(n) PROVE Moves
  <2> DEFINE g == [c \in lookups |->
                     IF c.phase \in {"asked", "reading", "stalled"} /\ c.peer = n
                     THEN Choosing(c, c.todo) ELSE c]
  <2>1. \A d \in lookups' : \E c \in lookups : d = g[c]
    BY <1>4 DEF Restart
  <2>2. \A c \in lookups :
          /\ g[c].node = c.node /\ g[c].name = c.name /\ g[c].create = c.create
          /\ g[c].phase = "absent" => c.phase = "absent" \/ c.create
    BY DEF Choosing
  <2> HIDE DEF g
  <2>3. LookupsMove
    BY <2>1, <2>2 DEF LookupsMove, Carries
  <2>4. files' = [files EXCEPT ![n] = [f \in Slots |-> NoFile]]
    BY <1>4 DEF Restart
  <2>5. \A k \in Nodes : \A f \in OpenSlots(k)' : f \in OpenSlots(k) /\ files'[k][f] = files[k][f]
    BY <1>0, <2>4 DEF OpenSlots, FilesOK
  <2>6. StagesMove /\ NamesMove
    BY <2>5 DEF StagesMove, NamesMove, NoneOpens, NameKept
  <2> QED BY <2>3, <2>6 DEF Moves
<1>5. ASSUME NEW b \in casts, Broadcast(b) PROVE Moves
  BY <1>5, FewerCarried, SameFilesMove DEF Broadcast, Moves
<1>6. ASSUME NEW s \in sends, SendStep(s) \/ SendFails(s) \/ SendStalls(s) PROVE Moves
  <2>1. UNCHANGED files /\ UNCHANGED lookups
    BY <1>6 DEF SendStep, SendByte, Deliver, SendFails, SendStalls, Receive
  <2> QED BY <2>1, FewerCarried, SameFilesMove DEF Moves
<1>7. ASSUME NEW n \in Nodes, NEW p \in Nodes, Connect(n, p) PROVE Moves
  BY <1>7, FewerCarried, SameFilesMove DEF Connect, Moves
<1>8. ASSUME NEW n \in Nodes, NEW p \in Nodes, Disconnect(n, p) PROVE Moves
  <2> DEFINE g == [c \in lookups |->
                     IF c.phase = "stalled" /\ {c.node, c.peer} = {n, p}
                     THEN Choosing(c, c.todo) ELSE c]
  <2>1. \A d \in lookups' : \E c \in lookups : d = g[c]
    BY <1>8 DEF Disconnect
  <2>2. \A c \in lookups :
          /\ g[c].node = c.node /\ g[c].name = c.name /\ g[c].create = c.create
          /\ g[c].phase = "absent" => c.phase = "absent" \/ c.create
    BY DEF Choosing
  <2> HIDE DEF g
  <2>3. LookupsMove
    BY <2>1, <2>2 DEF LookupsMove, Carries
  <2>4. UNCHANGED files
    BY <1>8 DEF Disconnect
  <2> QED BY <2>3, <2>4, SameFilesMove DEF Moves
<1> QED BY <1>1, <1>2, <1>3, <1>4, <1>5, <1>6, <1>7, <1>8, LookupStepMoves, FileOpMoves
        DEF Next, Request, WriteInv

LEMMA NamesStayApart ==
  ASSUME OneFilePerName, NamesMove
  PROVE  OneFilePerName'
<1> SUFFICES ASSUME NEW n \in Nodes, NEW f \in OpenSlots(n)', NEW g \in OpenSlots(n)',
                    files'[n][f].name = files'[n][g].name
             PROVE  f = g
  BY DEF OneFilePerName
<1>1. CASE NameKept(n, f) /\ NameKept(n, g)
  BY <1>1 DEF NameKept, OneFilePerName
<1>2. CASE NoneOpens
  BY <1>1, <1>2 DEF NoneOpens
<1>3. ASSUME NEW k \in Nodes, NEW m \in Names, NEW h \in Slots, OneOpens(k, m, h)
      PROVE  f = g
  BY <1>1, <1>3 DEF OneOpens, NameKept
<1> QED BY <1>2, <1>3 DEF NamesMove

LEMMA CreatesStayAlone ==
  ASSUME CreatesAlone, NamesMove, LookupsMove, "reopen" \notin Allowed,
         \A c \in lookups' : c.node \in Nodes
  PROVE  CreatesAlone'
<1> SUFFICES ASSUME NEW c \in lookups'
             PROVE  /\ c.phase = "absent" => c.create
                    /\ c.create => /\ \A d \in lookups' : d.node = c.node => d = c
                                   /\ \A f \in OpenSlots(c.node)' : files'[c.node][f].name # c.name
  BY DEF CreatesAlone
<1>1. CASE \E g : Carries(g)
  <2>1. PICK g : Carries(g)
    BY <1>1
  <2>2. PICK b \in lookups : c = g[b]
    BY <2>1 DEF Carries
  <2>3. /\ c.node = b.node /\ c.name = b.name /\ c.create = b.create
        /\ c.phase = "absent" => b.phase = "absent" \/ b.create
    BY <2>1, <2>2 DEF Carries
  <2>4. c.phase = "absent" => c.create
    BY <2>3 DEF CreatesAlone
  <2>5. ASSUME c.create, NEW d \in lookups', d.node = c.node PROVE d = c
    <3>1. PICK a \in lookups : d = g[a]
      BY <2>1 DEF Carries
    <3>2. a.node = b.node
      BY <2>1, <2>3, <2>5, <3>1 DEF Carries
    <3> QED BY <2>2, <2>3, <2>5, <3>1, <3>2 DEF CreatesAlone
  <2>6. ASSUME c.create, NEW f \in OpenSlots(c.node)'
        PROVE  files'[c.node][f].name # c.name
    <3>1. CASE NameKept(c.node, f)
      <4>1. f \in OpenSlots(b.node) /\ files'[c.node][f].name = files[b.node][f].name
        BY <2>3, <3>1 DEF NameKept
      <4>2. b.create
        BY <2>3, <2>6
      <4>3. files[b.node][f].name # b.name
        BY <4>1, <4>2 DEF CreatesAlone
      <4> QED BY <2>3, <4>1, <4>3
    <3>2. CASE NoneOpens
      BY <2>6, <3>1, <3>2 DEF NoneOpens
    <3>3. ASSUME NEW k \in Nodes, NEW m \in Names, NEW h \in Slots, OneOpens(k, m, h)
          PROVE  files'[c.node][f].name # c.name
      BY <2>6, <3>1, <3>3 DEF OneOpens
    <3> QED BY <3>2, <3>3 DEF NamesMove
  <2> QED BY <2>4, <2>5, <2>6
<1>2. ASSUME NEW n \in Nodes, NEW m \in Names, NEW create \in BOOLEAN, LookupMiss(n, m, create)
      PROVE  /\ c.phase = "absent" => c.create
             /\ c.create => /\ \A d \in lookups' : d.node = c.node => d = c
                            /\ \A f \in OpenSlots(c.node)' : files'[c.node][f].name # c.name
  <2> DEFINE new == [node |-> n, name |-> m, create |-> create,
                     phase |-> "choosing", todo |-> ConnectedPeers(n)]
  <2>1. /\ new.node = n /\ new.name = m /\ new.create = create /\ new.phase = "choosing"
        /\ lookups' = lookups \cup {new}
    BY <1>2 DEF LookupMiss
  <2>2. \A k : OpenSlots(k)' = OpenSlots(k) /\ files' = files
    BY <1>2 DEF LookupMiss, OpenSlots
  <2> HIDE DEF new
  <2>3. CASE create
    <3>1. /\ \A d \in lookups : d.node # n
          /\ \A f \in OpenSlots(n) : files[n][f].name # m
      BY <1>2, <2>3 DEF LookupMiss, NoLookupOn, MayOpen
    <3>2. CASE c = new
      BY <2>1, <2>2, <3>1, <3>2
    <3>3. CASE c \in lookups
      BY <2>1, <2>2, <3>1, <3>3 DEF CreatesAlone
    <3> QED BY <2>1, <3>2, <3>3
  <2>4. CASE ~ create
    <3>1. \A d \in lookups : d.node # n \/ ~ d.create
      BY <1>2, <2>4 DEF LookupMiss, NoCreateOn
    <3>2. CASE c = new
      BY <2>1, <2>4, <3>2
    <3>3. CASE c \in lookups
      BY <2>1, <2>2, <3>1, <3>3 DEF CreatesAlone
    <3> QED BY <2>1, <3>2, <3>3
  <2> QED BY <2>3, <2>4
<1> QED BY <1>1, <1>2 DEF LookupsMove

\* What is still seen of an array has the bytes it had, unless a Write put one there.
LEMMA BytesAreLeft ==
  ASSUME TypeInv, RecordsOK', LeavesBytes, NEW x \in Slices', NEW y \in Slices,
         x.data.buf = y.data.buf
  PROVE  SameBytes(x.data)
<1>1. CASE Shares
  BY <1>1, SharesKeeps
<1>2. ASSUME NEW n \in Nodes, NEW m \in Names, NEW b \in Bufs, NEW src \in Seq(Byte),
             NEW k \in 1 .. MaxLen, Fills(n, m, b, src, k)
      PROVE  SameBytes(x.data)
  <2>1. x.data.buf # b
    BY <1>2 DEF Fills
  <2> QED BY <1>2, <2>1, FillsKeeps
<1> QED BY <1>1, <1>2 DEF LeavesBytes

LEMMA OldSliceBytes ==
  ASSUME TypeInv, RecordsOK', Kinds, NEW x \in Slices, x \in Slices'
  PROVE  \/ SameBytes(x.data)
         \/ \E n \in Nodes : \E f \in OpenSlots(n) : PutsByte(n, f)
BY BytesAreLeft DEF Kinds

LEMMA WritesStayFit ==
  ASSUME TypeInv, RecordsOK', Kinds, Apart, StagesMove,
         NEW D, NEW E, D \subseteq E, FitsUnless(D),
         \A n \in Nodes : \A f \in OpenSlots(n) : Disturbs(n, f) => files[n][f].w \in E
  PROVE  FitsUnless(E)'
<1> SUFFICES ASSUME NEW n \in Nodes, NEW f \in OpenSlots(n)', files'[n][f].w \notin E
             PROVE  LET file == files'[n][f]
                    IN  /\ file.stage # "idle" => file.off < file.data.len
                        /\ file.stage = "copied" =>
                             heap'[file.data.buf][file.off + 1] = file.w
  BY DEF FitsUnless
<1> DEFINE file == files'[n][f]
           old  == files[n][f]
           x    == Owned(n, file.name, file.data)
<1>1. file \in FileType /\ x \in Slices' /\ f \in Slots
  BY DEF RecordsOK, FilesOK, OpenSlots, Slices, FileSlices, Owned
<1>2. file.off \in Nat /\ file.data.len \in Nat
  BY <1>1, NodusAssumption DEF FileType, SliceType
<1>3. CASE f \in OpenSlots(n) /\ file = old
  <2>1. /\ file.stage # "idle" => file.off < file.data.len
        /\ file.stage = "copied" => heap[file.data.buf][file.off + 1] = file.w
    BY <1>3 DEF FitsUnless
  <2>2. ASSUME file.stage = "copied"
        PROVE  heap'[file.data.buf][file.off + 1] = file.w
    <3>1. x \in Slices /\ x.data = file.data /\ x.node = n /\ x.name = file.name
      BY <1>3 DEF Slices, FileSlices, Owned
    <3>2. file.off + 1 \in 1 .. file.data.len
      BY <1>2, <2>1, <2>2
    <3>3. CASE SameBytes(x.data)
      BY <2>1, <2>2, <3>1, <3>2, <3>3 DEF SameBytes
    <3>4. ASSUME NEW k \in Nodes, NEW g \in OpenSlots(k), PutsByte(k, g)
          PROVE  heap'[file.data.buf][file.off + 1] = file.w
      <4> DEFINE other == files[k][g]
      <4>1. heap'[x.data.buf][file.off + 1] =
              IF x.data.buf = other.data.buf /\ file.off + 1 = other.off + 1 THEN other.w
              ELSE heap[x.data.buf][file.off + 1]
        BY <1>1, <3>1, <3>2, <3>4, PutsByteKeeps
      <4>2. ~ (x.data.buf = other.data.buf /\ file.off + 1 = other.off + 1)
        <5> SUFFICES ASSUME x.data.buf = other.data.buf, file.off + 1 = other.off + 1
                     PROVE  FALSE
          OBVIOUS
        <5> DEFINE y == Owned(k, other.name, other.data)
        <5>1. y \in Slices /\ y.data = other.data /\ y.node = k /\ y.name = other.name
          BY DEF Slices, FileSlices, Owned
        <5>2. x.data.len # 0 /\ x.data.buf = y.data.buf
          BY <1>2, <2>1, <2>2, <3>1, <5>1
        <5> HIDE DEF x, y
        <5>3. x.node = y.node /\ x.name = y.name
          BY <3>1, <5>1, <5>2 DEF Apart
        <5>4. k = n /\ other.name = old.name
          BY <1>3, <3>1, <5>1, <5>3
        <5>5. g # f
          BY <1>3, <2>2, <3>4, <5>4 DEF PutsByte
        <5>6. other.off = file.off
          <6>1. other \in FileType
            BY <3>4, OpenFile DEF TypeInv, RecordsOK
          <6>2. other.off \in Nat
            BY <6>1, NodusAssumption DEF FileType
          <6> HIDE DEF other, file
          <6> QED BY <1>2, <6>2
        <5>7. OverWritten(n, f)
          BY <1>3, <3>4, <5>4, <5>5, <5>6 DEF OverWritten, PutsByte
        <5> QED BY <1>3, <5>7 DEF Disturbs
      <4> QED BY <2>1, <2>2, <3>1, <4>1, <4>2
    <3> QED BY <3>1, <3>3, <3>4, <1>1, OldSliceBytes
  <2> QED BY <2>1, <2>2
<1>4. CASE /\ f \in OpenSlots(n) /\ WriteCopy(n, f)
           /\ file.data = old.data /\ file.w = old.w /\ file.off = old.off
  <2>1. old.off < old.data.len /\ old.stage = "grown"
    BY <1>4 DEF WriteCopy, FitsUnless
  <2>2. heap' = [heap EXCEPT ![old.data.buf][old.off + 1] = old.w]
    BY <1>4, <2>1 DEF WriteCopy
  <2>3. Fits(heap, old.data)
    <3>1. Owned(n, old.name, old.data) \in Slices
      BY <1>4 DEF Slices, FileSlices, Owned
    <3>2. Fits(heap, Owned(n, old.name, old.data).data)
      BY <3>1 DEF TypeInv
    <3> QED BY <3>2 DEF Owned
  <2>4. old.data.buf \in Bufs /\ old.data.len <= Len(heap[old.data.buf])
    BY <1>2, <1>4, <2>1, <2>3 DEF Fits
  <2>5. heap[old.data.buf] \in Seq(Byte) /\ Len(heap[old.data.buf]) \in Nat
    BY <2>4, HeapElements DEF TypeInv
  <2>6. old.off + 1 \in 1 .. Len(heap[old.data.buf])
    <3> HIDE DEF old, file
    <3> QED BY <1>2, <1>4, <2>1, <2>4, <2>5
  <2>7. heap'[old.data.buf][old.off + 1] = old.w
    <3> HIDE DEF old
    <3> QED BY <2>2, <2>4, <2>5, <2>6 DEF TypeInv, HeapOK
  <2> QED BY <1>4, <2>1, <2>7
<1>5. CASE file.stage = "idle" \/ (file.stage = "grown" /\ file.off < file.data.len)
  BY <1>5
<1>6. CASE f \in OpenSlots(n) /\ ReadUnder(n, f) /\ file.w = old.w
  BY <1>6 DEF Disturbs
<1> QED BY <1>3, <1>4, <1>5, <1>6 DEF StagesMove

LEMMA StepKeepsWrites ==
  ASSUME TypeInv, Roomy, WriteInv, Next, "overlap" \notin Allowed, "reopen" \notin Allowed
  PROVE  WriteInv'
<1>1. RecordsOK' /\ Kinds /\ Moves
  BY EveryStepDoes, EveryStepMoves
<1>2. \A c \in lookups' : c.node \in Nodes
  BY <1>1 DEF RecordsOK, LookupsOK, WaitingType, AskedType, ReadingType
<1>3. OneFilePerName' /\ CreatesAlone'
  BY <1>1, <1>2, NamesStayApart, CreatesStayAlone DEF WriteInv, Moves
<1>4. Apart'
  BY <1>1, StaysApart DEF WriteInv
<1>5. ASSUME NEW n \in Nodes, NEW f \in OpenSlots(n), Disturbs(n, f) PROVE FALSE
  <2>1. ~ ReadUnder(n, f)
    BY DEF ReadUnder, ReadAll
  <2>2. ~ OverWritten(n, f)
    BY DEF OverWritten, WriteInv, OneFilePerName
  <2> QED BY <1>5, <2>1, <2>2 DEF Disturbs
<1>6. WritesFit'
  BY <1>1, <1>5, WritesStayFit DEF Moves, WriteInv, WritesFit
<1> QED BY <1>3, <1>4, <1>6 DEF WriteInv

LEMMA StutterKeepsWrites ==
  ASSUME WriteInv, UNCHANGED vars
  PROVE  WriteInv'
<1>1. Slices' = Slices
  BY DEF vars, Slices, CacheSlices, FileSlices, LookupSlices, CastSlices, SendSlices, OpenSlots
<1> QED BY <1>1 DEF vars, WriteInv, OneFilePerName, CreatesAlone, WritesFit, FitsUnless,
   Apart, OpenSlots

LEMMA InitHasWrites ==
  ASSUME NEW ls, StartsWith(ls)
  PROVE  WriteInv
<1>1. \A n \in Nodes : OpenSlots(n) = {} /\ CachedKeys(cache[n]) = {}
  BY EmptyIsKept DEF StartsWith, OpenSlots
<1>2. lookups = {} /\ casts = {} /\ sends = {}
  BY DEF StartsWith
<1>3. Slices = {}
  BY <1>1, <1>2 DEF Slices, CacheSlices, FileSlices, LookupSlices, CastSlices, SendSlices
<1> QED BY <1>1, <1>2, <1>3
        DEF WriteInv, OneFilePerName, CreatesAlone, WritesFit, FitsUnless, Apart

\* Only the end of a Write starts a broadcast.
LEMMA OnlyPublishCasts ==
  ASSUME Next, ~ (casts' \subseteq casts)
  PROVE  \E n \in Nodes : \E f \in OpenSlots(n) : WritePublish(n, f)
<1>1. ASSUME NEW n \in Nodes, Request(n) \/ Restart(n) PROVE FALSE
  BY <1>1 DEF Request, Restart, LookupHit, RemoveFile, LookupMiss, ReadAll, WriteGrow, Flush, Setattr
<1>2. ASSUME NEW c \in lookups, LookupStep(c) \/ FetchFails(c) \/ Stall(c) PROVE FALSE
  BY <1>2 DEF LookupStep, Ask, Serve, FetchByte, FetchDone, LookupFails, Create, FetchFails, Stall
<1>3. ASSUME NEW b \in casts, Broadcast(b) PROVE FALSE
  BY <1>3 DEF Broadcast
<1>4. ASSUME NEW s \in sends, SendStep(s) \/ SendFails(s) \/ SendStalls(s) PROVE FALSE
  BY <1>4 DEF SendStep, SendByte, Deliver, SendFails, SendStalls, Receive
<1>5. ASSUME NEW n \in Nodes, NEW p \in Nodes, Connect(n, p) \/ Disconnect(n, p) PROVE FALSE
  BY <1>5 DEF Connect, Disconnect
<1>6. ASSUME NEW n \in Nodes, NEW f \in OpenSlots(n), WriteCopy(n, f) PROVE FALSE
  BY <1>6 DEF WriteCopy
<1> QED BY <1>1, <1>2, <1>3, <1>4, <1>5, <1>6 DEF Next, FileStep

LEMMA PublishLands ==
  ASSUME TypeInv, NEW n \in Nodes, NEW f \in OpenSlots(n), WritePublish(n, f),
         files[n][f].off < files[n][f].data.len,
         heap[files[n][f].data.buf][files[n][f].off + 1] = files[n][f].w
  PROVE  LET file  == files[n][f]
             bytes == BytesIn(heap', cache'[n].items[file.name])
         IN  file.off + 1 \in DOMAIN bytes /\ bytes[file.off + 1] = file.w
<1> DEFINE file == files[n][f]
           x == Owned(n, file.name, file.data)
           q == CachePut(cache[n], file.name, file.data, Capacity)
<1>1. file \in FileType /\ x \in Slices /\ x.data = file.data
  BY OpenFile DEF TypeInv, RecordsOK, Slices, FileSlices, Owned
<1>2. KeptCache(cache[n], Names) /\ file.name \in Names
  BY <1>1 DEF TypeInv, RecordsOK, CachesOK, FileType
<1>3. q.items[file.name] = file.data /\ file.name \in CachedKeys(q)
  BY <1>2, PutKeeps
<1>4. cache' = [cache EXCEPT ![n] = q]
  BY DEF WritePublish, Put
<1> HIDE DEF q
<1>5. cache'[n].items[file.name] = file.data /\ file.name \in CachedKeys(cache'[n])
  BY <1>3, <1>4 DEF TypeInv, RecordsOK, CachesOK
<1>6. x \in Slices'
  BY <1>5 DEF Slices, CacheSlices, Owned
<1>7. RecordsOK' /\ Collect(heap) /\ Slices' \subseteq Slices
  BY PublishMakesNone
<1>8. Shares
  <2>1. \A y \in Slices' : Inside(y)
    BY <1>7, SliceIsInside DEF TypeInv
  <2> QED BY <1>7, <2>1 DEF Shares
<1>9. SameBytes(x.data)
  BY <1>6, <1>7, <1>8, SharesKeeps
<1>10. file.off < file.data.len /\ heap[file.data.buf][file.off + 1] = file.w
  OBVIOUS
<1>11. file.off + 1 \in 1 .. file.data.len
  <2>1. file.off \in Nat /\ file.data.len \in Nat
    BY <1>1, NodusAssumption DEF FileType, SliceType
  <2> QED BY <1>10, <2>1
<1>12. heap'[file.data.buf][file.off + 1] = file.w
  BY <1>1, <1>9, <1>10, <1>11 DEF SameBytes
<1> QED BY <1>5, <1>11, <1>12 DEF BytesIn

\* The inductive invariant of WriteLands
LandsInv == MemoryInv /\ Apart /\ FitsUnless(disturbed)

LEMMA InitLands ==
  ASSUME WritesInit
  PROVE  LandsInv
<1>1. Init
  BY DEF WritesInit
<1>2. MemoryInv /\ WriteInv
  BY <1>1, InitMemory, InitHasWrites DEF Init
<1> QED BY <1>2 DEF LandsInv, WriteInv, WritesFit, FitsUnless

LEMMA StepKeepsLands ==
  ASSUME Memory, LandsInv, [WritesNext]_<<vars, disturbed>>
  PROVE  LandsInv'
<1>1. CASE WritesNext
  <2>1. Next /\ TypeInv /\ Roomy /\ Apart
    BY <1>1, MemoryIsRoomy DEF WritesNext, LandsInv
  <2>2. MemoryInv'
    BY <2>1, StepKeepsMemory DEF LandsInv
  <2>3. RecordsOK' /\ Kinds /\ StagesMove
    BY <2>1, EveryStepDoes, EveryStepStages
  <2>4. PICK D : D = disturbed
    OBVIOUS
  <2>5. PICK E : E = disturbed'
    OBVIOUS
  <2>6. /\ D \subseteq E
        /\ \A n \in Nodes : \A f \in OpenSlots(n) : Disturbs(n, f) => files[n][f].w \in E
    BY <1>1, <2>4, <2>5 DEF WritesNext
  <2>7. FitsUnless(D)
    BY <2>4 DEF LandsInv, FitsUnless
  <2>8. FitsUnless(E)'
    BY <2>1, <2>3, <2>6, <2>7, WritesStayFit
  <2>9. FitsUnless(disturbed)'
    BY <2>5, <2>8 DEF FitsUnless
  <2> QED BY <2>1, <2>2, <2>3, <2>9, StaysApart DEF LandsInv
<1>2. CASE UNCHANGED <<vars, disturbed>>
  <2>1. MemoryInv'
    BY <1>2, StepKeepsMemory DEF LandsInv
  <2>2. Slices' = Slices
    BY <1>2 DEF vars, Slices, CacheSlices, FileSlices, LookupSlices, CastSlices, SendSlices, OpenSlots
  <2> QED BY <1>2, <2>1, <2>2 DEF vars, LandsInv, Apart, FitsUnless, OpenSlots
<1> QED BY <1>1, <1>2

\* When Write returns without an error its byte is in the cached file, unless a Read
\* of the same File object or a Write of another one to the same place has come in
\* between: for every number of nodes and descriptors and all of the events, whatever
\* is sent, fetched, truncated, removed, lost or restarted meanwhile.
THEOREM WhatIsWrittenLands ==
  ASSUME Memory
  PROVE  WritesSpec => WriteLands
<1>1. WritesInit => LandsInv
  BY InitLands
<1>2. LandsInv /\ [WritesNext]_<<vars, disturbed>> => LandsInv'
  BY StepKeepsLands
<1>3. ASSUME LandsInv, Next, NEW n \in Nodes, NEW f \in OpenSlots(n),
             ~ (casts' \subseteq casts), files'[n][f] # files[n][f]
      PROVE  WritePublish(n, f)
  <2>1. PICK k \in Nodes : \E g \in OpenSlots(k) : WritePublish(k, g)
    BY <1>3, OnlyPublishCasts
  <2>2. PICK g \in OpenSlots(k) : WritePublish(k, g)
    BY <2>1
  <2>3. FilesOK /\ f \in Slots /\ g \in Slots
    BY <1>3, OpenFile DEF LandsInv, MemoryInv, TypeInv, RecordsOK
  <2>4. files' = [files EXCEPT ![k][g] = Ended(files[k][g])]
    BY <2>2 DEF WritePublish
  <2>5. k = n /\ g = f
    BY <1>3, <2>3, <2>4 DEF FilesOK
  <2> QED BY <2>2, <2>5
<1>4. ASSUME LandsInv, Next, NEW n \in Nodes, NEW f \in OpenSlots(n),
             files[n][f].stage = "copied", files[n][f].w \notin disturbed,
             ~ (casts' \subseteq casts), files'[n][f] # files[n][f]
      PROVE  LET file  == files[n][f]
                 bytes == BytesIn(heap', cache'[n].items[file.name])
             IN  file.off + 1 \in DOMAIN bytes /\ bytes[file.off + 1] = file.w
  <2>1. WritePublish(n, f)
    BY <1>3, <1>4
  <2>2. /\ files[n][f].off < files[n][f].data.len
        /\ heap[files[n][f].data.buf][files[n][f].off + 1] = files[n][f].w
    BY <1>4 DEF LandsInv, FitsUnless
  <2>3. TypeInv
    BY <1>4 DEF LandsInv, MemoryInv
  <2> QED BY <2>1, <2>2, <2>3, PublishLands
<1>5. LandsInv /\ [WritesNext]_<<vars, disturbed>> =>
        [\A n \in Nodes : \A f \in OpenSlots(n) :
           LET file == files[n][f]
           IN  /\ file.stage = "copied" /\ file.w \notin disturbed
               /\ ~ (casts' \subseteq casts) /\ files'[n][f] # file
               => LET bytes == BytesIn(heap', cache'[n].items[file.name])
                  IN  file.off + 1 \in DOMAIN bytes /\ bytes[file.off + 1] = file.w
        ]_<<vars, disturbed>>
  BY <1>4 DEF WritesNext
<1> QED BY <1>1, <1>2, <1>5, PTL DEF WritesSpec, WriteLands

-----------------------------------------------------------------------------
(* Files come from Create *)

SlicesAreFiles == \A m \in Names : Named(m) <=> Extant(m)

LEMMA NamedIsExtant == SlicesAreFiles
<1> SUFFICES ASSUME NEW m \in Names PROVE Named(m) <=> Extant(m)
  BY DEF SlicesAreFiles
<1>1. ASSUME Extant(m) PROVE Named(m)
  <2>1. ASSUME NEW n \in Nodes, Holds(n, m) PROVE Named(m)
    <3>1. Owned(n, m, cache[n].items[m]) \in Slices
      BY <2>1 DEF Slices, CacheSlices, Holds, Owned
    <3> QED BY <3>1 DEF Named, Owned
  <2>2. ASSUME NEW n \in Nodes, NEW f \in OpenSlots(n), files[n][f].name = m PROVE Named(m)
    <3>1. Owned(n, m, files[n][f].data) \in Slices
      BY <2>2 DEF Slices, FileSlices, Owned
    <3> QED BY <3>1 DEF Named, Owned
  <2>3. ASSUME NEW b \in casts, b.name = m PROVE Named(m)
    <3>1. Owned(b.from, m, b.data) \in Slices
      BY <2>3 DEF Slices, CastSlices, Owned
    <3> QED BY <3>1 DEF Named, Owned
  <2> QED BY <1>1, <2>1, <2>2, <2>3, StreamsAreNamed DEF Extant
<1>2. ASSUME NEW y \in Slices, y.name = m PROVE Extant(m)
  <2>1. CASE y \in CacheSlices
    <3>1. PICK n \in Nodes : \E k \in CachedKeys(cache[n]) :
            y = [node |-> n, name |-> k, data |-> cache[n].items[k]]
      BY <2>1 DEF CacheSlices
    <3> QED BY <1>2, <3>1 DEF Extant, Holds
  <2>2. CASE y \in FileSlices
    <3>1. PICK n \in Nodes : \E f \in OpenSlots(n) :
            y = [node |-> n, name |-> files[n][f].name, data |-> files[n][f].data]
      BY <2>2 DEF FileSlices
    <3> QED BY <1>2, <3>1 DEF Extant
  <2>3. CASE y \in LookupSlices
    <3>1. \E c \in lookups : c.phase = "reading" /\ y.name = c.name
      BY <2>3 DEF LookupSlices
    <3> QED BY <1>2, <3>1 DEF Extant
  <2>4. CASE y \in CastSlices \cup SendSlices
    <3>1. \E b \in casts \cup sends : y.name = b.name
      BY <2>4 DEF CastSlices, SendSlices
    <3> QED BY <1>2, <3>1 DEF Extant
  <2> QED BY <2>1, <2>2, <2>3, <2>4 DEF Slices
<1> QED BY <1>1, <1>2 DEF Named

LEMMA NamedIsExtantNext == SlicesAreFiles'
BY NamedIsExtant, PTL

LEMMA NoneComesButByCreate ==
  ASSUME TypeInv, Roomy, Next, NEW m \in Names, ~ Extant(m), Extant(m)'
  PROVE  Creating(m)
<1>1. ~ Named(m) /\ Named(m)'
  BY NamedIsExtant, NamedIsExtantNext DEF SlicesAreFiles
<1>2. PICK x \in Slices' : x.name = m
  BY <1>1 DEF Named
<1>3. CASE Inside(x)
  BY <1>1, <1>2, <1>3 DEF Inside, Named
<1>4. CASE ~ Inside(x)
  <2>1. Kinds
    BY EveryStepDoes
  <2>2. CASE Shares
    BY <1>4, <2>2 DEF Shares
  <2>3. ASSUME NEW n \in Nodes, NEW k \in Names, NEW b \in Bufs, NEW src \in Seq(Byte),
               NEW l \in 1 .. MaxLen, Fills(n, k, b, src, l)
        PROVE  FALSE
    <3>1. Named(k) /\ x = Owned(n, k, Slice(b, l))
      BY <1>4, <2>3 DEF Fills
    <3> QED BY <1>1, <1>2, <3>1 DEF Owned
  <2>4. ASSUME NEW n \in Nodes, NEW f \in OpenSlots(n), PutsByte(n, f) PROVE FALSE
    <3>1. x \in Slices
      BY <2>4 DEF PutsByte
    <3> QED BY <1>1, <1>2, <3>1 DEF Named
  <2> QED BY <2>1, <2>2, <2>3, <2>4 DEF Kinds, LeavesBytes
<1> QED BY <1>3, <1>4

\* A file comes to be in Create and nowhere else, on any number of nodes, with any
\* failures, overlaps and reopenings: a request that finds nothing, an answer
\* without a byte and a broadcast that breaks off make none of a name that no
\* cache, File object, sender or reader has any more (fuse.go:134).
THEOREM NamesComeFromCreate ==
  ASSUME Memory
  PROVE  Spec => FilesComeFromCreate
<1>1. Init => MemoryInv
  BY InitMemory DEF Init
<1>2. MemoryInv /\ [Next]_vars => MemoryInv'
  BY StepKeepsMemory
<1>3. MemoryInv /\ [Next]_vars =>
        [\A m \in Names : ~ Extant(m) /\ Extant(m)' =>
           \E c \in lookups : c.name = m /\ c.phase = "absent" /\ c \notin lookups']_vars
  <2> SUFFICES ASSUME MemoryInv, Next, NEW m \in Names, ~ Extant(m), Extant(m)'
               PROVE  \E c \in lookups : /\ c.name = m /\ c.phase = "absent"
                                         /\ c \notin lookups'
    OBVIOUS
  <2>1. Roomy /\ TypeInv
    BY MemoryIsRoomy DEF MemoryInv
  <2> QED BY <2>1, NoneComesButByCreate DEF Creating
<1> QED BY <1>1, <1>2, <1>3, PTL DEF Spec, FilesComeFromCreate
=============================================================================
