------------------------------ MODULE LRUCache ------------------------------
(***************************************************************************)
(* The LRU cache of a Nodus node (internal/nodus/cache.go), one critical   *)
(* section of Cache.mu after the other.                                    *)
(*                                                                         *)
(* Get, Delete, Clear and the update path of Put do a bounded amount of    *)
(* work under the mutex and are one step.  Put of a new key holds the      *)
(* mutex across a loop, so it takes one step to enter the loop, one per    *)
(* eviction and one to insert; while it holds the mutex no other method    *)
(* runs.  Keys, Size, Count and Capacity only read and have no action.     *)
(***************************************************************************)
EXTENDS CacheOps

CONSTANTS Keys,      \* the strings used as keys
          Data,      \* the []byte values stored: records with a field len
          Capacity   \* Cache.capacity, "max bytes"

ASSUME DataAssumption == \A d \in Data : d.len \in Nat
ASSUME CapacityAssumption == Capacity \in Nat

VARIABLES cache,     \* items, order and used: see CacheOps
          putting    \* {<<key, data>>} of the Put that holds mu in its loop, or {}

vars == <<cache, putting>>

Init == cache = EmptyCache /\ putting = {}

MutexFree == putting = {}

-----------------------------------------------------------------------------

Get(k) ==
  /\ MutexFree
  /\ k \in CachedKeys(cache)
  /\ cache' = Touched(cache, k)
  /\ UNCHANGED putting

PutExisting(k, d) ==
  /\ MutexFree
  /\ k \in CachedKeys(cache)
  /\ cache' = Replaced(cache, k, d)
  /\ UNCHANGED putting

PutNew(k, d) ==
  /\ MutexFree
  /\ k \notin CachedKeys(cache)
  /\ putting' = {<<k, d>>}
  /\ UNCHANGED cache

\* One iteration of the loop of Put
EvictOldest ==
  \E p \in putting :
    /\ ~ HasRoom(cache, p[2], Capacity)
    /\ cache' = Evicted(cache)
    /\ UNCHANGED putting

\* The loop has ended: the new entry goes to the front, and Put returns.
PushNew ==
  \E p \in putting :
    /\ HasRoom(cache, p[2], Capacity)
    /\ cache' = Inserted(cache, p[1], p[2])
    /\ putting' = {}

Delete(k) ==
  /\ MutexFree
  /\ k \in CachedKeys(cache)
  /\ cache' = Deleted(cache, k)
  /\ UNCHANGED putting

\* Mutant of Clear: `used` is not reset.
Clear_TotalKept ==
  /\ MutexFree
  /\ cache' = [EmptyCache EXCEPT !.used = cache.used]
  /\ UNCHANGED putting

Clear ==
  /\ MutexFree
  /\ cache' = EmptyCache
  /\ UNCHANGED putting

Next ==
  \/ \E k \in Keys : Get(k) \/ Delete(k)
  \/ \E k \in Keys, d \in Data : PutExisting(k, d) \/ PutNew(k, d)
  \/ EvictOldest
  \/ PushNew
  \/ Clear

Spec == Init /\ [][Next]_vars

\* A Put that holds the mutex runs on; nobody has to call the cache.
FairSpec == Spec /\ WF_vars(EvictOldest) /\ WF_vars(PushNew)

-----------------------------------------------------------------------------
(* Properties *)

TypeOK ==
  /\ cache = [items |-> cache.items, order |-> cache.order, used |-> cache.used]
  /\ CachedKeys(cache) \subseteq Keys
  /\ cache.items \in [CachedKeys(cache) -> Data]
  /\ cache.order \in Seq(Keys)
  /\ cache.used \in Nat
  /\ putting \subseteq Keys \X Data
  /\ \A p, q \in putting : p = q

\* The index (Cache.items) and the recency list (Cache.order), which every
\* method updates in two separate statements, always hold the same keys, each
\* once; and the key a Put is about to insert is in neither.
Coherent ==
  /\ CoherentCache(cache)
  /\ \A p \in putting : p[1] \notin CachedKeys(cache)

\* The running total Cache.used, adjusted by hand in Put, evictOldest, Delete
\* and Clear, is the number of bytes that the cached entries hold.
Accounting ==
  /\ IsFiniteSet(ResidentBytes(cache))
  /\ cache.used = Cardinality(ResidentBytes(cache))

\* When Put inserts a new entry, either the bytes that the cache then really
\* holds are within the capacity, or the loop has evicted everything else: the
\* entry is alone and larger than the capacity by itself.
InsertFits ==
  putting # {} /\ putting' = {} =>
    \/ Cardinality(ResidentBytes(cache')) <= Capacity
    \/ \E k \in Keys : cache'.order = <<k>> /\ cache'.items[k].len > Capacity

FitsAfterInsert == [][InsertFits]_vars

\* The loop of Put ends and releases the mutex, even for an entry larger than
\* the whole cache.
PutReturns == (putting # {}) ~> (putting = {})

-----------------------------------------------------------------------------
(* The abstract cache this one implements. *)

\* Every pair of keys of a list, the one further back first: used before the other
OlderIn(s) ==
  {<<s[e[2]], s[e[1]]>> :
     e \in {f \in (DOMAIN s) \X (DOMAIN s) : f[1] < f[2]}}

Promised == INSTANCE RecencyCache
  WITH content <- cache.items, older <- OlderIn(cache.order), inserting <- putting

\* Every method of the cache does what RecencyCache promises of it: recency is
\* kept by reads and updates, only the key used longest ago is evicted, and
\* only while the new entry does not fit in the bytes really left.
KeepsPromise == Promised!ASpec
=============================================================================
