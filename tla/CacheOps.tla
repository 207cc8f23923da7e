------------------------------ MODULE CacheOps ------------------------------
(***************************************************************************)
(* The bodies of the LRU cache's methods (internal/nodus/cache.go) as pure *)
(* operators on a cache value.  LRUCache runs them one critical section at *)
(* a time; Nodus runs them, each one atomic under Cache.mu, for every node *)
(* of the network.                                                         *)
(*                                                                         *)
(* A cache value is a record:                                              *)
(*   items  Cache.items together with the data field of the entry each     *)
(*          list element holds: a function from the cached keys to slices  *)
(*   order  Cache.order: the keys of the list elements, front (most        *)
(*          recently used) first                                           *)
(*   used   Cache.used                                                     *)
(* A slice is any record with a field len: all the cache asks of a []byte  *)
(* is its length.                                                          *)
(***************************************************************************)
EXTENDS Integers, SequencesExt

\* The keys that have an entry in Cache.items
CachedKeys(c) == DOMAIN c.items

\* NewCache, and the state Clear leaves
EmptyCache == [items |-> [k \in {} |-> {}], order |-> << >>, used |-> 0]

-----------------------------------------------------------------------------
(* container/list: the two operations that address an element by identity. *)

IndexOf(s, k) == CHOOSE i \in DOMAIN s : s[i] = k

ListRemove(s, k) == RemoveAt(s, IndexOf(s, k))

MoveToFront(s, k) == Cons(k, ListRemove(s, k))

-----------------------------------------------------------------------------
\* Mutant of Touched: Get finds the entry and does not move it to the front.
Touched_NotMoved(c, k) == c

(* Cache.Get of a cached key: the cache it leaves.  (A miss changes        *)
(* nothing.)                                                               *)
Touched(c, k) == [c EXCEPT !.order = MoveToFront(@, k)]

\* Mutant of Replaced: Put subtracts the old size and never adds the new one.
Replaced_TotalNotRaised(c, k, d) ==
  [items |-> [c.items EXCEPT ![k] = d],
   order |-> MoveToFront(c.order, k),
   used  |-> c.used - c.items[k].len]

\* Cache.Put of a key that is cached: nothing is evicted on this path.
Replaced(c, k, d) ==
  [items |-> [c.items EXCEPT ![k] = d],
   order |-> MoveToFront(c.order, k),
   used  |-> c.used - c.items[k].len + d.len]

\* Mutant of HasRoom: the loop compares the bytes in use, without the new entry.
HasRoom_NewEntryForgotten(c, d, capacity) ==
  c.used <= capacity \/ c.order = << >>

\* Mutant of HasRoom: the loop does not stop when the list is empty.
HasRoom_EmptyListForgotten(c, d, capacity) == c.used + d.len <= capacity

\* The condition that ends the eviction loop of Cache.Put
HasRoom(c, d, capacity) == c.used + d.len <= capacity \/ c.order = << >>

\* Mutant of Evicted: the list is emptied from the front.
Evicted_Newest(c) ==
  IF c.order = << >> THEN c
  ELSE LET newest == Head(c.order)
       IN  [items |-> Restrict(c.items, CachedKeys(c) \ {newest}),
            order |-> Tail(c.order),
            used  |-> c.used - c.items[newest].len]

\* Cache.evictOldest
Evicted(c) ==
  IF c.order = << >> THEN c
  ELSE LET oldest == Last(c.order)
       IN  [items |-> Restrict(c.items, CachedKeys(c) \ {oldest}),
            order |-> Front(c.order),
            used  |-> c.used - c.items[oldest].len]

\* The end of Cache.Put for a new key
Inserted(c, k, d) ==
  [items |-> [x \in CachedKeys(c) \cup {k} |-> IF x = k THEN d ELSE c.items[x]],
   order |-> Cons(k, c.order),
   used  |-> c.used + d.len]

\* Mutant of Deleted: the entry leaves the map and stays in the list.
Deleted_FromMapOnly(c, k) ==
  [items |-> Restrict(c.items, CachedKeys(c) \ {k}),
   order |-> c.order,
   used  |-> c.used - c.items[k].len]

\* Cache.Delete of a key that is cached
Deleted(c, k) ==
  [items |-> Restrict(c.items, CachedKeys(c) \ {k}),
   order |-> ListRemove(c.order, k),
   used  |-> c.used - c.items[k].len]

-----------------------------------------------------------------------------
(* Whole calls, for the callers that see each of them as one atomic step.  *)

\* Mutant of RoomMade: `if` in place of `for`.
RoomMade_OneEviction(c, d, capacity) ==
  IF HasRoom(c, d, capacity) THEN c ELSE Evicted(c)

\* The caches that evictOldest leaves, call after call: Evictions(c)[n] after n calls
Evictions(c) ==
  LET after[n \in 0 .. Len(c.order)] ==
        IF n = 0 THEN c ELSE Evicted(after[n - 1])
  IN  after

\* What the eviction loop leaves
RoomMade(c, d, capacity) ==
  LET after == Evictions(c)
  IN  after[Min({n \in DOMAIN after : HasRoom(after[n], d, capacity)})]

CacheGet(c, k) == IF k \in CachedKeys(c) THEN Touched(c, k) ELSE c

CachePut(c, k, d, capacity) ==
  IF k \in CachedKeys(c)
  THEN Replaced(c, k, d)
  ELSE Inserted(RoomMade(c, d, capacity), k, d)

CacheDelete(c, k) == IF k \in CachedKeys(c) THEN Deleted(c, k) ELSE c

-----------------------------------------------------------------------------
(* What a well-kept cache is. *)

\* The map and the list hold the same keys, each of them once.
CoherentCache(c) == IsInjective(c.order) /\ Range(c.order) = CachedKeys(c)

\* One element per byte that the entries of the cache hold
ResidentBytes(c) ==
  UNION {{k} \X (1 .. c.items[k].len) : k \in CachedKeys(c)}
=============================================================================
