---------------------------- MODULE RecencyCache ----------------------------
(***************************************************************************)
(* What the LRU cache promises, without its list and without its running   *)
(* total: a map from keys to data, and a relation telling which of two     *)
(* keys was used longer ago.  An entry leaves only when it is deleted,     *)
(* when the cache is cleared, or when a new entry does not fit in the      *)
(* bytes that are really left, and then it is the one used longest ago.    *)
(* LRUCache is shown to implement this specification.                      *)
(***************************************************************************)
EXTENDS Integers, FiniteSets

CONSTANTS Keys, Data, Capacity

VARIABLES content,     \* a function from the cached keys to their data
          older,       \* <<a, b>> is here iff cached key a was used before b
          inserting    \* {<<key, data>>} of a Put waiting for room, or {}

avars == <<content, older, inserting>>

Cached == DOMAIN content

\* The bytes the cached data really occupies, one element for each
Bytes == UNION {{k} \X (1 .. content[k].len) : k \in Cached}

\* k becomes the most recently used of the keys S, and no other key moves.
Newest(k, S) ==
  {e \in older : k \notin {e[1], e[2]}} \cup {<<x, k>> : x \in S \ {k}}

\* k leaves.
Without(k) == {e \in older : k \notin {e[1], e[2]}}

OldestOf(k) == k \in Cached /\ \A x \in Cached \ {k} : <<k, x>> \in older

Fits(d) == Cardinality(Bytes) + d.len <= Capacity

AInit ==
  /\ content = [k \in {} |-> {}]
  /\ older = {}
  /\ inserting = {}

Use(k) ==
  /\ inserting = {}
  /\ k \in Cached
  /\ older' = Newest(k, Cached)
  /\ UNCHANGED <<content, inserting>>

Update(k, d) ==
  /\ inserting = {}
  /\ k \in Cached
  /\ content' = [content EXCEPT ![k] = d]
  /\ older' = Newest(k, Cached)
  /\ UNCHANGED inserting

Begin(k, d) ==
  /\ inserting = {}
  /\ k \notin Cached
  /\ inserting' = {<<k, d>>}
  /\ UNCHANGED <<content, older>>

Evict(k) ==
  /\ \E p \in inserting : ~ Fits(p[2])
  /\ OldestOf(k)
  /\ content' = [x \in Cached \ {k} |-> content[x]]
  /\ older' = Without(k)
  /\ UNCHANGED inserting

Insert(k, d) ==
  /\ inserting = {<<k, d>>}
  /\ Fits(d) \/ Cached = {}
  /\ content' = [x \in Cached \cup {k} |-> IF x = k THEN d ELSE content[x]]
  /\ older' = Newest(k, Cached)
  /\ inserting' = {}

Remove(k) ==
  /\ inserting = {}
  /\ k \in Cached
  /\ content' = [x \in Cached \ {k} |-> content[x]]
  /\ older' = Without(k)
  /\ UNCHANGED inserting

RemoveAll ==
  /\ inserting = {}
  /\ content' = [k \in {} |-> {}]
  /\ older' = {}
  /\ UNCHANGED inserting

ANext ==
  \/ \E k \in Keys : Use(k) \/ Evict(k) \/ Remove(k)
  \/ \E k \in Keys, d \in Data : Update(k, d) \/ Begin(k, d) \/ Insert(k, d)
  \/ RemoveAll

ASpec == AInit /\ [][ANext]_avars
=============================================================================
