----------------------------- MODULE MCLRUCache -----------------------------
(***************************************************************************)
(* A small instance of LRUCache for TLC, with two history variables that   *)
(* the cache itself does not have: the cache a Put found when it took the  *)
(* mutex, and which keys the callers have used since they used a key.      *)
(***************************************************************************)
EXTENDS LRUCache

VARIABLES found,    \* the cache when the Put in progress took the mutex
          since     \* for each key, the keys that Get hit or Put stored since it
                    \* last was one of them

mcvars == <<cache, putting, found, since>>

\* An empty file, two files of the same size, one as large as the cache and
\* one larger.
MCData == {[id |-> 0, len |-> 0], [id |-> 1, len |-> 1], [id |-> 2, len |-> 1],
           [id |-> 3, len |-> 3], [id |-> 4, len |-> 4]}
MCCapacity == 3

MCInit == Init /\ found = cache /\ since = [k \in Keys |-> {}]

\* A Get that hits key k, or a Put that stores it
Uses(k) == since' = [x \in Keys |-> IF x = k THEN {} ELSE since[x] \cup {k}]

MCNext ==
  /\ \/ \E k \in Keys : Get(k) /\ Uses(k)
     \/ \E k \in Keys, d \in Data : PutExisting(k, d) /\ Uses(k)
     \/ PushNew /\ \E p \in putting : Uses(p[1])
     \/ /\ \/ \E k \in Keys : Delete(k)
           \/ \E k \in Keys, d \in Data : PutNew(k, d)
           \/ EvictOldest
           \/ Clear
        /\ UNCHANGED since
  /\ found' = CASE putting' = {} -> EmptyCache
              [] putting = {}  -> cache
              [] OTHER         -> found

MCSpec == MCInit /\ [][MCNext]_mcvars

MCFairSpec == MCSpec /\ WF_mcvars(EvictOldest /\ MCNext) /\ WF_mcvars(PushNew /\ MCNext)

\* The steps that a Put of a new key takes under the mutex add up to the one
\* operator CachePut applied to the cache it found: callers that cannot see
\* inside the critical section may take Put as one atomic step.
LoopIsCachePut ==
  [][\A p \in putting :
       putting' = {} => cache' = CachePut(found, p[1], p[2], Capacity)]_mcvars

\* The loop of Put evicts the one key than which Get and Put have used every
\* other cached key more recently, judged by the calls and not by the cache's
\* own list.
EvictsLeastRecent ==
  [][putting # {} /\ putting' = putting =>
       \E k \in CachedKeys(cache) :
         /\ CachedKeys(cache') = CachedKeys(cache) \ {k}
         /\ CachedKeys(cache') \subseteq since[k]]_mcvars
=============================================================================
