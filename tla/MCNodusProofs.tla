---------------------------- MODULE MCNodusProofs ---------------------------
(***************************************************************************)
(* Proofs about the two uses of Nodus that are checked with a history      *)
(* variable: a Lookup that asks several peers, and a node that works       *)
(* alone.                                                                  *)
(***************************************************************************)
EXTENDS MCNodusLocal, MCNodusFetch, NodusProofs

-----------------------------------------------------------------------------
(* A Lookup misses no peer that has the file to give, for every number of  *)
(* nodes, names and File objects, as long as streams break only together   *)
(* with their connection.                                                  *)

\* The phases in which a Lookup has one peer taken off its list and not given up
WithPeer == {"asked", "reading", "stalled"}

\* The peers that a Lookup can still get the file from
StillToTry(c) == c.todo \cup (IF c.phase \in WithPeer THEN {c.peer} ELSE {})

GoodLookup(c) ==
  /\ c.node \in Nodes /\ c.name \in Names
  /\ lasting[c.node][c.name] \subseteq StillToTry(c)
  /\ c.phase = "absent" => c.todo = {}
  /\ c.phase = "reading" =>
       /\ {"node", "name", "phase", "todo", "peer", "data", "got"} \subseteq DOMAIN c
       /\ c.peer \in lasting[c.node][c.name] => c.data.len > 0
  /\ c.phase = "choosing" => {"node", "name", "phase", "todo"} \subseteq DOMAIN c

\* The inductive invariant.  FetchFindsCopy speaks of a Lookup that has no peer
\* left; on the way there each peer that has always had the file is still on the
\* list, or is the one that answers, and then its answer is not empty.
FetchInv ==
  /\ \A n \in Nodes, m \in Names : lasting[n][m] \subseteq CanSend(n, m)
  /\ \A c \in lookups : GoodLookup(c)

\* What a step makes of the history: it only shrinks while the Lookup goes on.
LEMMA LastingShrinks ==
  ASSUME FetchNext, NEW n \in Nodes, NEW m \in Names
  PROVE  /\ lasting'[n][m] \subseteq CanSend(n, m)'
         /\ ~ NoLookupOf(n, m) => lasting'[n][m] \subseteq lasting[n][m]
  <1> DEFINE now == IF NoLookupOf(n, m)' THEN {}
                    ELSE CanSend(n, m)' \cap
                           (IF NoLookupOf(n, m) THEN Nodes ELSE lasting[n][m])
  <1>1. lasting'[n][m] = now
    BY DEF FetchNext
  <1> QED BY <1>1

\* A Lookup that a step does not touch stays good.
LEMMA UntouchedStaysGood ==
  ASSUME FetchInv, FetchNext, NEW c \in lookups
  PROVE  /\ c.node \in Nodes /\ c.name \in Names
         /\ lasting'[c.node][c.name] \subseteq lasting[c.node][c.name]
         /\ lasting'[c.node][c.name] \subseteq CanSend(c.node, c.name)'
         /\ GoodLookup(c)'
  <1>1. GoodLookup(c) /\ c.node \in Nodes /\ c.name \in Names
    BY DEF FetchInv, GoodLookup
  <1>2. ~ NoLookupOf(c.node, c.name)
    BY DEF NoLookupOf
  <1>3. /\ lasting'[c.node][c.name] \subseteq lasting[c.node][c.name]
        /\ lasting'[c.node][c.name] \subseteq CanSend(c.node, c.name)'
    BY <1>1, <1>2, LastingShrinks
  <1>4. GoodLookup(c)'
    BY <1>1, <1>3 DEF GoodLookup, StillToTry
  <1> QED BY <1>1, <1>3, <1>4

\* A Lookup that gives up its peer, for good reason, stays good.
LEMMA ChoosingIsGood ==
  ASSUME FetchInv, FetchNext, NEW c \in lookups, NEW todo,
         lasting'[c.node][c.name] \subseteq todo
  PROVE  GoodLookup(Choosing(c, todo))'
  <1>1. c.node \in Nodes /\ c.name \in Names
    BY UntouchedStaysGood
  <1> DEFINE d == Choosing(c, todo)
  <1>2. /\ d.node = c.node /\ d.name = c.name /\ d.phase = "choosing" /\ d.todo = todo
        /\ {"node", "name", "phase", "todo"} \subseteq DOMAIN d
    BY DEF Choosing
  <1> HIDE DEF d
  <1>3. GoodLookup(d)'
    BY <1>1, <1>2 DEF GoodLookup, StillToTry
  <1> QED BY <1>3 DEF d

\* Without a connection in the next state, a peer has not lasted.
LEMMA LostPeerDoesNotLast ==
  ASSUME FetchInv, FetchNext, NEW c \in lookups, NEW p, {c.node, p} \notin links'
  PROVE  p \notin lasting'[c.node][c.name]
  BY UntouchedStaysGood DEF CanSend, ConnectedPeers

\* A step that replaces one Lookup by a good one, and changes no other
LEMMA OneChanges ==
  ASSUME FetchInv, FetchNext, NEW c \in lookups, NEW S,
         lookups' = (lookups \ {c}) \cup S, \A d \in S : GoodLookup(d)'
  PROVE  FetchInv'
  <1>1. \A n \in Nodes, m \in Names : lasting'[n][m] \subseteq CanSend(n, m)'
    BY LastingShrinks
  <1>2. \A d \in lookups' : GoodLookup(d)'
    BY UntouchedStaysGood
  <1> QED BY <1>1, <1>2 DEF FetchInv

\* A step that only takes Lookups away, if any
LEMMA NoneChanges ==
  ASSUME FetchInv, FetchNext, lookups' \subseteq lookups
  PROVE  FetchInv'
  <1>1. \A n \in Nodes, m \in Names : lasting'[n][m] \subseteq CanSend(n, m)'
    BY LastingShrinks
  <1>2. \A d \in lookups' : GoodLookup(d)'
    BY UntouchedStaysGood
  <1> QED BY <1>1, <1>2 DEF FetchInv

-----------------------------------------------------------------------------
(* The steps *)

LEMMA LookupMissKeeps ==
  ASSUME FetchInv, FetchNext,
         NEW n \in Nodes, NEW m \in Names, NEW create \in BOOLEAN, LookupMiss(n, m, create)
  PROVE  FetchInv'
  <1> DEFINE new == [node |-> n, name |-> m, create |-> create,
                     phase |-> "choosing", todo |-> ConnectedPeers(n)]
  <1>1. lookups' = lookups \cup {new} /\ links' = links
    BY DEF LookupMiss
  <1>2. lasting'[n][m] \subseteq ConnectedPeers(n)
    BY <1>1, LastingShrinks DEF CanSend, ConnectedPeers
  <1>3. ASSUME NEW d, d = new PROVE GoodLookup(d)'
    BY <1>2, <1>3 DEF GoodLookup, StillToTry, WithPeer
  <1>4. \A c \in lookups' : GoodLookup(c)'
    BY <1>1, <1>3, UntouchedStaysGood
  <1>5. \A k \in Nodes, l \in Names : lasting'[k][l] \subseteq CanSend(k, l)'
    BY LastingShrinks
  <1> QED BY <1>4, <1>5 DEF FetchInv

LEMMA AskKeeps ==
  ASSUME "reset" \notin Allowed, FetchInv, FetchNext, NEW c \in lookups, Ask(c)
  PROVE  FetchInv'
  <1>1. c.phase = "choosing" /\ links' = links
    BY DEF Ask
  <1>2. /\ c.node \in Nodes /\ c.name \in Names
        /\ lasting'[c.node][c.name] \subseteq c.todo
    BY <1>1, UntouchedStaysGood DEF GoodLookup, StillToTry, FetchInv, WithPeer
  <1>3. PICK p \in c.todo :
          \/ Becomes(c, [node |-> c.node, name |-> c.name, create |-> c.create,
                         phase |-> "asked", todo |-> c.todo \ {p}, peer |-> p])
          \/ StreamBreaks(c.node, p) /\ Becomes(c, Choosing(c, c.todo \ {p}))
    BY DEF Ask
  <1>4. CASE Becomes(c, [node |-> c.node, name |-> c.name, create |-> c.create,
                         phase |-> "asked", todo |-> c.todo \ {p}, peer |-> p])
    <2> DEFINE d == [node |-> c.node, name |-> c.name, create |-> c.create,
                     phase |-> "asked", todo |-> c.todo \ {p}, peer |-> p]
    <2>1. GoodLookup(d)'
      BY <1>2 DEF GoodLookup, StillToTry, WithPeer
    <2> QED BY <1>4, <2>1, OneChanges DEF Becomes
  <1>5. CASE StreamBreaks(c.node, p) /\ Becomes(c, Choosing(c, c.todo \ {p}))
    <2>1. {c.node, p} \notin links'
      BY <1>1, <1>5 DEF StreamBreaks
    <2>2. lasting'[c.node][c.name] \subseteq c.todo \ {p}
      BY <1>2, <2>1, LostPeerDoesNotLast
    <2>3. GoodLookup(Choosing(c, c.todo \ {p}))'
      BY <2>2, ChoosingIsGood
    <2> QED BY <1>5, <2>3, OneChanges DEF Becomes
  <1> QED BY <1>3, <1>4, <1>5

LEMMA ServeKeeps ==
  ASSUME FetchInv, FetchNext, NEW c \in lookups, Serve(c)
  PROVE  FetchInv'
  <1>1. c.phase = "asked"
    BY DEF Serve
  <1>2. /\ c.node \in Nodes /\ c.name \in Names
        /\ lasting[c.node][c.name] \subseteq CanSend(c.node, c.name)
        /\ lasting'[c.node][c.name] \subseteq lasting[c.node][c.name]
        /\ lasting[c.node][c.name] \subseteq c.todo \cup {c.peer}
    BY <1>1, UntouchedStaysGood DEF FetchInv, GoodLookup, StillToTry, WithPeer
  <1>3. CASE Holds(c.peer, c.name)
    <2> DEFINE e == [node |-> c.node, name |-> c.name, create |-> c.create,
                     phase |-> "reading", todo |-> c.todo, peer |-> c.peer,
                     data |-> cache[c.peer].items[c.name], got |-> << >>]
    <2>1. c.peer \in lasting'[c.node][c.name] => cache[c.peer].items[c.name].len > 0
      BY <1>2 DEF CanSend
    <2>2. ASSUME NEW d, d = e PROVE GoodLookup(d)'
      BY <1>2, <2>1, <2>2 DEF GoodLookup, StillToTry, WithPeer
    <2>3. lookups' = (lookups \ {c}) \cup {e}
      BY <1>3 DEF Becomes, Serve
    <2> QED BY <2>2, <2>3, OneChanges
  <1>4. CASE ~ Holds(c.peer, c.name)
    <2>1. lasting'[c.node][c.name] \subseteq c.todo
      BY <1>2, <1>4 DEF CanSend
    <2>2. GoodLookup(Choosing(c, c.todo))'
      BY <2>1, ChoosingIsGood
    <2> QED BY <1>4, <2>2, OneChanges DEF Becomes, Serve
  <1> QED BY <1>3, <1>4

LEMMA FetchByteKeeps ==
  ASSUME FetchInv, FetchNext, NEW c \in lookups, FetchByte(c)
  PROVE  FetchInv'
  <1> DEFINE e == [c EXCEPT !.got = Append(@, NextByte(c))]
  <1>1. c.phase = "reading" /\ lookups' = (lookups \ {c}) \cup {e}
    BY DEF FetchByte, Becomes
  <1>2. GoodLookup(c)' /\ GoodLookup(c)
    BY UntouchedStaysGood DEF FetchInv
  <1>3. {"node", "name", "phase", "todo", "peer", "data", "got"} \subseteq DOMAIN c
    BY <1>1, <1>2 DEF GoodLookup
  <1>4. ASSUME NEW d, d = e PROVE GoodLookup(d)'
    <2>1. /\ d.node = c.node /\ d.name = c.name /\ d.phase = "reading"
          /\ d.todo = c.todo /\ d.peer = c.peer /\ d.data = c.data
          /\ DOMAIN d = DOMAIN c
      BY <1>1, <1>3, <1>4
    <2> QED BY <1>1, <1>2, <2>1 DEF GoodLookup, StillToTry
  <1> QED BY <1>1, <1>4, OneChanges

LEMMA StallKeeps ==
  ASSUME FetchInv, FetchNext, NEW c \in lookups, Stall(c)
  PROVE  FetchInv'
  <1> DEFINE d == [node |-> c.node, name |-> c.name, create |-> c.create,
                   phase |-> "stalled", todo |-> c.todo, peer |-> c.peer]
  <1>1. c.phase \in {"asked", "reading"} /\ lookups' = (lookups \ {c}) \cup {d}
    BY DEF Stall, Becomes
  <1>2. GoodLookup(c)'
    BY UntouchedStaysGood
  <1>3. GoodLookup(d)'
    BY <1>1, <1>2 DEF GoodLookup, StillToTry, WithPeer
  <1> QED BY <1>1, <1>3, OneChanges

LEMMA FetchFailsKeeps ==
  ASSUME "reset" \notin Allowed, FetchInv, FetchNext, NEW c \in lookups, FetchFails(c)
  PROVE  FetchInv'
  <1>1. /\ c.phase \in WithPeer
        /\ {c.node, c.peer} \notin links'
        /\ lookups' = (lookups \ {c}) \cup {Choosing(c, c.todo)}
    BY DEF FetchFails, StreamBreaks, Becomes, WithPeer
  <1>2. lasting'[c.node][c.name] \subseteq c.todo \cup {c.peer}
    BY <1>1, UntouchedStaysGood DEF GoodLookup, StillToTry
  <1>3. lasting'[c.node][c.name] \subseteq c.todo
    BY <1>1, <1>2, LostPeerDoesNotLast
  <1> QED BY <1>1, <1>3, ChoosingIsGood, OneChanges

LEMMA FetchDoneKeeps ==
  ASSUME FetchInv, FetchNext, NEW c \in lookups, FetchDone(c)
  PROVE  FetchInv'
  <1>1. c.phase = "reading" /\ Len(c.got) = c.data.len
    BY DEF FetchDone
  <1>2. CASE c.got = << >>
    <2>1. c.data.len = 0
      BY <1>1, <1>2
    <2>2. lasting'[c.node][c.name] \subseteq c.todo
      BY <1>1, <2>1, UntouchedStaysGood DEF FetchInv, GoodLookup, StillToTry
    <2> QED BY <1>2, <2>2, ChoosingIsGood, OneChanges DEF FetchDone, Becomes
  <1>3. CASE c.got # << >>
    BY <1>3, NoneChanges DEF FetchDone
  <1> QED BY <1>2, <1>3

LEMMA LookupFailsKeeps ==
  ASSUME FetchInv, FetchNext, NEW c \in lookups, LookupFails(c)
  PROVE  FetchInv'
  <1> DEFINE e == [c EXCEPT !.phase = "absent"]
  <1>1. c.phase = "choosing" /\ c.todo = {}
    BY DEF LookupFails
  <1>2. GoodLookup(c)'
    BY UntouchedStaysGood
  <1>3. ASSUME NEW d, d = e PROVE GoodLookup(d)'
    <2>1. /\ d.node = c.node /\ d.name = c.name /\ d.phase = "absent" /\ d.todo = {}
      BY <1>1, <1>2, <1>3 DEF GoodLookup
    <2> QED BY <1>1, <1>2, <2>1 DEF GoodLookup, StillToTry, WithPeer
  <1>4. CASE c.create
    BY <1>3, <1>4, OneChanges DEF LookupFails
  <1>5. CASE ~ c.create
    BY <1>5, NoneChanges DEF LookupFails
  <1> QED BY <1>4, <1>5

\* Whoever was stalled on the connection goes on to the next peer.
LEMMA DisconnectKeeps ==
  ASSUME FetchInv, FetchNext, NEW n \in Nodes, NEW p \in Nodes, Disconnect(n, p)
  PROVE  FetchInv'
  <1>1. ASSUME NEW c \in lookups, c.phase = "stalled", {c.node, c.peer} = {n, p}
        PROVE  GoodLookup(Choosing(c, c.todo))'
    <2>1. {c.node, c.peer} \notin links'
      BY <1>1 DEF Disconnect
    <2>2. lasting'[c.node][c.name] \subseteq c.todo
      BY <1>1, <2>1, LostPeerDoesNotLast, UntouchedStaysGood DEF GoodLookup, StillToTry
    <2> QED BY <2>2, ChoosingIsGood
  <1>2. \A d \in lookups' : GoodLookup(d)'
    BY <1>1, UntouchedStaysGood DEF Disconnect
  <1>3. \A k \in Nodes, m \in Names : lasting'[k][m] \subseteq CanSend(k, m)'
    BY LastingShrinks
  <1> QED BY <1>2, <1>3 DEF FetchInv

\* Whoever had asked the node that restarts goes on to the next peer.
LEMMA RestartKeeps ==
  ASSUME FetchInv, FetchNext, NEW n \in Nodes, Restart(n)
  PROVE  FetchInv'
  <1>1. ASSUME NEW c \in lookups, c.phase \in WithPeer, c.peer = n
        PROVE  GoodLookup(Choosing(c, c.todo))'
    <2>1. {c.node, c.peer} \notin links'
      BY <1>1 DEF Restart
    <2>2. lasting'[c.node][c.name] \subseteq c.todo
      BY <1>1, <2>1, LostPeerDoesNotLast, UntouchedStaysGood DEF GoodLookup, StillToTry
    <2> QED BY <2>2, ChoosingIsGood
  <1>2. \A d \in lookups' : GoodLookup(d)'
    BY <1>1, UntouchedStaysGood DEF Restart, WithPeer
  <1>3. \A k \in Nodes, m \in Names : lasting'[k][m] \subseteq CanSend(k, m)'
    BY LastingShrinks
  <1> QED BY <1>2, <1>3 DEF FetchInv

\* Requests of the kernel that do not go to the network
LEMMA RequestKeeps ==
  ASSUME FetchInv, FetchNext, NEW n \in Nodes, Request(n)
  PROVE  FetchInv'
  <1>1. CASE \E m \in Names, create \in BOOLEAN : LookupMiss(n, m, create)
    BY <1>1, LookupMissKeeps
  <1>2. CASE ~ \E m \in Names, create \in BOOLEAN : LookupMiss(n, m, create)
    <2>1. lookups' = lookups
      BY <1>2 DEF Request, LookupHit, RemoveFile, ReadAll, WriteGrow, Flush, Setattr
    <2> QED BY <2>1, NoneChanges
  <1> QED BY <1>1, <1>2

LEMMA StepKeeps ==
  ASSUME "reset" \notin Allowed, FetchInv, [FetchNext]_<<vars, lasting>>
  PROVE  FetchInv'
  <1>1. CASE UNCHANGED <<vars, lasting>>
    BY <1>1 DEF FetchInv, GoodLookup, StillToTry, CanSend, ConnectedPeers, Holds, vars
  <1>2. CASE FetchNext
    <2> USE <1>2
    <2>1. ASSUME NEW n \in Nodes, Request(n) PROVE FetchInv'
      BY <2>1, RequestKeeps
    <2>2. ASSUME NEW n \in Nodes, Restart(n) PROVE FetchInv'
      BY <2>2, RestartKeeps
    <2>3. ASSUME NEW n \in Nodes, NEW f \in OpenSlots(n), FileStep(n, f) PROVE FetchInv'
      BY <2>3, NoneChanges DEF FileStep, WriteCopy, WritePublish
    <2>4. ASSUME NEW c \in lookups, LookupStep(c) PROVE FetchInv'
      <3>1. CASE Create(c)
        BY <3>1, NoneChanges DEF Create
      <3> QED BY <2>4, <3>1, AskKeeps, ServeKeeps, FetchByteKeeps, FetchDoneKeeps,
                 LookupFailsKeeps DEF LookupStep
    <2>5. ASSUME NEW c \in lookups, FetchFails(c) PROVE FetchInv'
      BY <2>5, FetchFailsKeeps
    <2>6. ASSUME NEW c \in lookups, Stall(c) PROVE FetchInv'
      BY <2>6, StallKeeps
    <2>7. ASSUME NEW b \in casts, Broadcast(b) PROVE FetchInv'
      BY <2>7, NoneChanges DEF Broadcast
    <2>8. ASSUME NEW s \in sends, SendStep(s) \/ SendFails(s) \/ SendStalls(s) PROVE FetchInv'
      BY <2>8, NoneChanges DEF SendStep, SendByte, Deliver, SendFails, SendStalls, Receive
    <2>9. ASSUME NEW n \in Nodes, NEW p \in Nodes, Connect(n, p) PROVE FetchInv'
      BY <2>9, NoneChanges DEF Connect
    <2>10. ASSUME NEW n \in Nodes, NEW p \in Nodes, Disconnect(n, p) PROVE FetchInv'
      BY <2>10, DisconnectKeeps
    <2> QED BY <1>2, <2>1, <2>2, <2>3, <2>4, <2>5, <2>6, <2>7, <2>8, <2>9, <2>10
            DEF FetchNext, Next
  <1> QED BY <1>1, <1>2

\* "file not found on any peer" (node.go:121) is said only if no peer has had the
\* file to give all the time: for any nodes, names, slots and events but the break
\* of a stream whose connection lives, after which the peer is not asked again.
THEOREM LookupMissesNoCopy ==
  ASSUME "reset" \notin Allowed
  PROVE  FetchSpec => []FetchFindsCopy
  <1>1. FetchInit => FetchInv
    BY DEF FetchInit, Init, StartsWith, FetchInv
  <1>2. FetchInv /\ [FetchNext]_<<vars, lasting>> => FetchInv'
    BY StepKeeps
  <1>3. FetchInv => FetchFindsCopy
    BY DEF FetchInv, GoodLookup, StillToTry, WithPeer, FetchFindsCopy
  <1> QED BY <1>1, <1>2, <1>3, PTL DEF FetchSpec

-----------------------------------------------------------------------------
(* A node that works alone, for every number of names, File objects,       *)
(* arrays and Write calls: which names it can bring back.                  *)

\* The names that are cached, and those that an open File puts back at its next
\* Write, Flush or Setattr
OpenNames == {files[TheNode][f].name : f \in OpenSlots(TheNode)}
Known == CachedKeys(cache[TheNode]) \cup OpenNames

WholeFile(file) ==
  /\ file = [name |-> file.name, data |-> file.data, stage |-> file.stage,
             w |-> file.w, off |-> file.off]
  /\ file.name \in Names

CacheShape ==
  /\ cache = [n \in Nodes |-> cache[n]]
  /\ KeptCache(cache[TheNode], Names)

FilesShape ==
  /\ files = [n \in Nodes |-> [f \in Slots |-> files[n][f]]]
  /\ \A f \in OpenSlots(TheNode) : WholeFile(files[TheNode][f])

\* There is nobody to ask: a Lookup is about to fail, or has failed and goes on to
\* Create.
LoneLookup(c) ==
  /\ c = [node |-> TheNode, name |-> c.name, create |-> c.create,
          phase |-> c.phase, todo |-> {}]
  /\ c.name \in Names
  /\ \/ c.phase = "choosing"
     \/ c.phase = "absent" /\ c.create

NobodyElse ==
  /\ links = {} /\ sends = {}
  /\ \A c \in lookups : LoneLookup(c)

LocalInv == CacheShape /\ FilesShape /\ NobodyElse

-----------------------------------------------------------------------------
(* What the parts of a step do *)

\* A File object with some fields changed, the name not among them
LEMMA ChangedFileIsWhole ==
  ASSUME NEW file, WholeFile(file), NEW g, g = [x \in DOMAIN file |-> g[x]],
         g.name = file.name
  PROVE  WholeFile(g)
<1>1. DOMAIN file = {"name", "data", "stage", "w", "off"}
  BY DEF WholeFile
<1> QED BY <1>1 DEF WholeFile

\* A step that gives the node another cache
LEMMA CacheSet ==
  ASSUME Nodes = {TheNode}, CacheShape, NEW c, KeptCache(c, Names),
         cache' = [cache EXCEPT ![TheNode] = c]
  PROVE  CacheShape' /\ cache'[TheNode] = c
<1>1. cache' = [n \in Nodes |-> cache'[n]] /\ cache'[TheNode] = c
  BY DEF CacheShape
<1> QED BY <1>1 DEF CacheShape

LEMMA PutStep ==
  ASSUME Nodes = {TheNode}, CacheShape, NEW m \in Names, NEW d, Put(TheNode, m, d)
  PROVE  CacheShape' /\ CachedKeys(cache'[TheNode]) \subseteq CachedKeys(cache[TheNode]) \cup {m}
<1> DEFINE c == CachePut(cache[TheNode], m, d, Capacity)
<1>1. KeptCache(c, Names) /\ CachedKeys(c) \subseteq CachedKeys(cache[TheNode]) \cup {m}
  BY PutKeeps DEF CacheShape
<1>2. cache' = [cache EXCEPT ![TheNode] = c]
  BY DEF Put
<1> HIDE DEF c
<1>3. CacheShape' /\ cache'[TheNode] = c
  BY <1>1, <1>2, CacheSet
<1> QED BY <1>1, <1>3

LEMMA GetStep ==
  ASSUME Nodes = {TheNode}, CacheShape, NEW m, Get(TheNode, m)
  PROVE  CacheShape' /\ CachedKeys(cache'[TheNode]) = CachedKeys(cache[TheNode])
<1> DEFINE c == CacheGet(cache[TheNode], m)
<1>1. KeptCache(c, Names) /\ CachedKeys(c) = CachedKeys(cache[TheNode])
  BY GetKeeps DEF CacheShape, CachedKeys
<1>2. cache' = [cache EXCEPT ![TheNode] = c]
  BY DEF Get
<1> HIDE DEF c
<1>3. CacheShape' /\ cache'[TheNode] = c
  BY <1>1, <1>2, CacheSet
<1> QED BY <1>1, <1>3

LEMMA SameCache ==
  ASSUME CacheShape, UNCHANGED cache
  PROVE  CacheShape' /\ CachedKeys(cache'[TheNode]) = CachedKeys(cache[TheNode])
BY DEF CacheShape

\* A step that puts a File object, new or changed, into one slot
LEMMA FileSet ==
  ASSUME Nodes = {TheNode}, FilesShape, NEW f \in Slots, NEW file, WholeFile(file),
         files' = [files EXCEPT ![TheNode][f] = file]
  PROVE  FilesShape' /\ OpenNames' \subseteq OpenNames \cup {file.name}
<1>1. files' = [n \in Nodes |-> [g \in Slots |-> files'[n][g]]]
  BY DEF FilesShape
<1>2. \A g \in Slots : files'[TheNode][g] = IF g = f THEN file ELSE files[TheNode][g]
  BY DEF FilesShape
<1>3. \A g \in OpenSlots(TheNode)' :
        g \in Slots /\ (g = f \/ (g # f /\ g \in OpenSlots(TheNode)))
  BY <1>2 DEF OpenSlots
<1>4. ASSUME NEW g \in OpenSlots(TheNode)'
      PROVE  /\ WholeFile(files[TheNode][g])'
             /\ files'[TheNode][g].name \in OpenNames \cup {file.name}
  <2>1. CASE g = f
    <3>1. files'[TheNode][g] = file
      BY <2>1, <1>2
    <3> QED BY <3>1 DEF WholeFile
  <2>2. CASE g # f /\ g \in OpenSlots(TheNode)
    <3>1. files'[TheNode][g] = files[TheNode][g]
      BY <2>2, <1>2, <1>3
    <3>2. WholeFile(files[TheNode][g])
      BY <2>2 DEF FilesShape
    <3> QED BY <3>1, <3>2, <2>2 DEF WholeFile, OpenNames
  <2> QED BY <2>1, <2>2, <1>3
<1>5. FilesShape'
  BY <1>1, <1>4 DEF FilesShape
<1>6. OpenNames' \subseteq OpenNames \cup {file.name}
  BY <1>4 DEF OpenNames
<1> QED BY <1>5, <1>6

LEMMA SameOpenFiles ==
  ASSUME FilesShape, UNCHANGED files
  PROVE  FilesShape' /\ OpenNames' = OpenNames
BY DEF FilesShape, OpenNames, OpenSlots, WholeFile

\* The kernel keeps the File of a Lookup, or forgets it.
LEMMA KeepStep ==
  ASSUME Nodes = {TheNode}, FilesShape, NEW m \in Names, NEW d, Keep(TheNode, m, d)
  PROVE  FilesShape' /\ OpenNames' \subseteq OpenNames \cup {m}
<1>1. CASE UNCHANGED files
  BY <1>1, SameOpenFiles
<1>2. CASE \E f \in Slots \ OpenSlots(TheNode) :
             files' = [files EXCEPT ![TheNode][f] =
                         [name |-> m, data |-> d, stage |-> "idle", w |-> 0, off |-> 0]]
  <2>1. PICK f \in Slots :
          files' = [files EXCEPT ![TheNode][f] =
                      [name |-> m, data |-> d, stage |-> "idle", w |-> 0, off |-> 0]]
    BY <1>2
  <2> DEFINE file == [name |-> m, data |-> d, stage |-> "idle", w |-> 0, off |-> 0]
  <2>2. WholeFile(file) /\ file.name = m
    BY DEF WholeFile
  <2>3. files' = [files EXCEPT ![TheNode][f] = file]
    BY <2>1
  <2> HIDE DEF file
  <2> QED BY <2>2, <2>3, FileSet
<1> QED BY <1>1, <1>2 DEF Keep

\* A step that changes an open File and leaves it its name
LEMMA FileChanges ==
  ASSUME Nodes = {TheNode}, FilesShape, NEW f \in OpenSlots(TheNode), NEW file,
         WholeFile(file), file.name = files[TheNode][f].name,
         files' = [files EXCEPT ![TheNode][f] = file]
  PROVE  FilesShape' /\ OpenNames' \subseteq OpenNames
<1>1. f \in Slots /\ file.name \in OpenNames
  BY DEF OpenSlots, OpenNames
<1> QED BY <1>1, FileSet

\* The broadcasts and the Lookups of a node without peers
LEMMA SameLookups ==
  ASSUME NobodyElse, lookups' \subseteq lookups, UNCHANGED <<sends, links>>
  PROVE  NobodyElse'
BY DEF NobodyElse, LoneLookup

-----------------------------------------------------------------------------
(* The steps *)

\* What every step but Create comes to
KnowsNoMore == LocalInv' /\ Known' \subseteq Known

\* The cache and the Files of the node may change, and nothing else of interest.
LEMMA OnNode ==
  ASSUME LocalInv, CacheShape', FilesShape', UNCHANGED <<lookups, sends, links>>,
         CachedKeys(cache'[TheNode]) \cup OpenNames' \subseteq Known
  PROVE  KnowsNoMore
<1>1. NobodyElse'
  BY SameLookups DEF LocalInv
<1> QED BY <1>1 DEF LocalInv, KnowsNoMore, Known

LEMMA LookupHitStep ==
  ASSUME Nodes = {TheNode}, LocalInv, NEW m \in Names, LookupHit(TheNode, m)
  PROVE  KnowsNoMore
<1>1. m \in Known
  BY DEF LookupHit, Holds, Known
<1>2. CacheShape' /\ CachedKeys(cache'[TheNode]) = CachedKeys(cache[TheNode])
  BY GetStep DEF LookupHit, LocalInv
<1>3. FilesShape' /\ OpenNames' \subseteq OpenNames \cup {m}
  BY KeepStep DEF LookupHit, LocalInv
<1>4. UNCHANGED <<lookups, sends, links>>
  BY DEF LookupHit
<1> QED BY <1>1, <1>2, <1>3, <1>4, OnNode DEF Known

LEMMA LookupMissStep ==
  ASSUME Nodes = {TheNode}, LocalInv, NEW m \in Names, NEW create \in BOOLEAN,
         LookupMiss(TheNode, m, create)
  PROVE  KnowsNoMore
<1>1. ConnectedPeers(TheNode) = {}
  BY DEF ConnectedPeers
<1> DEFINE new == [node |-> TheNode, name |-> m, create |-> create,
                   phase |-> "choosing", todo |-> {}]
<1>2. lookups' = lookups \cup {new} /\ UNCHANGED <<cache, files, sends, links>>
  BY <1>1 DEF LookupMiss
<1>3. LoneLookup(new)
  BY DEF LoneLookup
<1> HIDE DEF new
<1>4. NobodyElse'
  BY <1>2, <1>3 DEF NobodyElse, LocalInv, LoneLookup
<1>5. CacheShape' /\ CachedKeys(cache'[TheNode]) = CachedKeys(cache[TheNode])
  BY <1>2, SameCache DEF LocalInv
<1>6. FilesShape' /\ OpenNames' = OpenNames
  BY <1>2, SameOpenFiles DEF LocalInv
<1> QED BY <1>4, <1>5, <1>6 DEF KnowsNoMore, LocalInv, Known

LEMMA ReadAllStep ==
  ASSUME Nodes = {TheNode}, LocalInv, NEW f \in OpenSlots(TheNode), ReadAll(TheNode, f)
  PROVE  KnowsNoMore
<1> DEFINE d    == cache[TheNode].items[files[TheNode][f].name]
           file == [files[TheNode][f] EXCEPT !.data = d]
<1>1. CacheShape' /\ CachedKeys(cache'[TheNode]) = CachedKeys(cache[TheNode])
  BY GetStep DEF ReadAll, LocalInv
<1>2. WholeFile(files[TheNode][f])
  BY DEF LocalInv, FilesShape
<1>3. WholeFile(file) /\ file.name = files[TheNode][f].name
  BY <1>2 DEF WholeFile
<1>4. files' = [files EXCEPT ![TheNode][f] = file]
  BY DEF ReadAll
<1> HIDE DEF file
<1>5. FilesShape' /\ OpenNames' \subseteq OpenNames
  BY <1>3, <1>4, FileChanges DEF LocalInv
<1>6. UNCHANGED <<lookups, sends, links>>
  BY DEF ReadAll
<1> QED BY <1>1, <1>5, <1>6, OnNode DEF Known

LEMMA WriteGrowStep ==
  ASSUME Nodes = {TheNode}, LocalInv, NEW f \in OpenSlots(TheNode), NEW off \in Nat,
         WriteGrow(TheNode, f, off)
  PROVE  KnowsNoMore
<1> DEFINE begun(d) == [files[TheNode][f] EXCEPT !.data = d, !.stage = "grown",
                          !.w = Len(wrote) + 1, !.off = off]
<1>1. \E d : files' = [files EXCEPT ![TheNode][f] = begun(d)]
  BY DEF WriteGrow
<1>2. PICK d : files' = [files EXCEPT ![TheNode][f] = begun(d)]
  BY <1>1
<1>3. WholeFile(files[TheNode][f])
  BY DEF LocalInv, FilesShape
<1>4. WholeFile(begun(d)) /\ begun(d).name = files[TheNode][f].name
  <2> DEFINE old == files[TheNode][f]
  <2>1. begun(d) = [x \in DOMAIN old |-> begun(d)[x]] /\ begun(d).name = old.name
    BY <1>3 DEF WholeFile
  <2> HIDE DEF begun, old
  <2>2. WholeFile(old)
    BY <1>3 DEF old
  <2>3. WholeFile(begun(d))
    BY <2>1, <2>2, ChangedFileIsWhole
  <2> QED BY <2>1, <2>3 DEF old
<1> HIDE DEF begun
<1>5. FilesShape' /\ OpenNames' \subseteq OpenNames
  BY <1>2, <1>4, FileChanges DEF LocalInv
<1>6. UNCHANGED <<cache, lookups, sends, links>>
  BY DEF WriteGrow
<1>7. CacheShape' /\ CachedKeys(cache'[TheNode]) = CachedKeys(cache[TheNode])
  BY <1>6, SameCache DEF LocalInv
<1> QED BY <1>5, <1>6, <1>7, OnNode DEF Known

LEMMA WriteCopyStep ==
  ASSUME Nodes = {TheNode}, LocalInv, NEW f \in OpenSlots(TheNode), WriteCopy(TheNode, f)
  PROVE  KnowsNoMore
<1> DEFINE old  == files[TheNode][f]
           file == IF old.off > old.data.len THEN Ended(old) ELSE [old EXCEPT !.stage = "copied"]
<1>1. files' = [files EXCEPT ![TheNode][f] = file]
  BY DEF WriteCopy
<1>2. WholeFile(old)
  BY DEF LocalInv, FilesShape
<1>3. WholeFile(file) /\ file.name = old.name
  <2> HIDE DEF old
  <2>1. WholeFile(Ended(old)) /\ Ended(old).name = old.name
    <3>1. Ended(old) = [x \in DOMAIN old |-> Ended(old)[x]] /\ Ended(old).name = old.name
      BY <1>2 DEF WholeFile, Ended
    <3> QED BY <1>2, <3>1, ChangedFileIsWhole
  <2>2. WholeFile([old EXCEPT !.stage = "copied"]) /\ [old EXCEPT !.stage = "copied"].name = old.name
    BY <1>2 DEF WholeFile
  <2> QED BY <2>1, <2>2
<1> HIDE DEF file
<1>5. FilesShape' /\ OpenNames' \subseteq OpenNames
  BY <1>1, <1>3, FileChanges DEF LocalInv
<1>6. UNCHANGED <<cache, lookups, sends, links>>
  BY DEF WriteCopy
<1>7. CacheShape' /\ CachedKeys(cache'[TheNode]) = CachedKeys(cache[TheNode])
  BY <1>6, SameCache DEF LocalInv
<1> QED BY <1>5, <1>6, <1>7, OnNode DEF Known

\* The name of an open File is known, and putting its slice into the cache adds none.
LEMMA PutOfOpenFile ==
  ASSUME Nodes = {TheNode}, LocalInv, NEW f \in OpenSlots(TheNode), NEW d,
         Put(TheNode, files[TheNode][f].name, d)
  PROVE  /\ CacheShape'
         /\ CachedKeys(cache'[TheNode]) \subseteq Known
<1> DEFINE m == files[TheNode][f].name
<1>1. m \in Names /\ m \in OpenNames
  BY DEF LocalInv, FilesShape, WholeFile, OpenNames
<1> HIDE DEF m
<1>2. CacheShape' /\ CachedKeys(cache'[TheNode]) \subseteq CachedKeys(cache[TheNode]) \cup {m}
  BY <1>1, PutStep DEF LocalInv, m
<1> QED BY <1>1, <1>2 DEF Known

LEMMA WritePublishStep ==
  ASSUME Nodes = {TheNode}, LocalInv, NEW f \in OpenSlots(TheNode), WritePublish(TheNode, f)
  PROVE  KnowsNoMore
<1> DEFINE old == files[TheNode][f]
<1>1. files' = [files EXCEPT ![TheNode][f] = Ended(old)]
  BY DEF WritePublish
<1>2. WholeFile(old)
  BY DEF LocalInv, FilesShape
<1>3. WholeFile(Ended(old)) /\ Ended(old).name = old.name
  <2> HIDE DEF old
  <2>1. Ended(old) = [x \in DOMAIN old |-> Ended(old)[x]] /\ Ended(old).name = old.name
    BY <1>2 DEF WholeFile, Ended
  <2> QED BY <1>2, <2>1, ChangedFileIsWhole
<1>4. FilesShape' /\ OpenNames' \subseteq OpenNames
  BY <1>1, <1>3, FileChanges DEF LocalInv
<1>5. CacheShape' /\ CachedKeys(cache'[TheNode]) \subseteq Known
  BY PutOfOpenFile DEF WritePublish
<1>6. UNCHANGED <<lookups, sends, links>>
  BY DEF WritePublish
<1> QED BY <1>4, <1>5, <1>6, OnNode DEF Known

LEMMA FlushStep ==
  ASSUME Nodes = {TheNode}, LocalInv, NEW f \in OpenSlots(TheNode), NEW last \in BOOLEAN,
         Flush(TheNode, f, last)
  PROVE  KnowsNoMore
<1>1. CacheShape' /\ CachedKeys(cache'[TheNode]) \subseteq Known
  BY PutOfOpenFile DEF Flush
<1>2. UNCHANGED <<lookups, sends, links>>
  BY DEF Flush
<1>3. FilesShape' /\ OpenNames' \subseteq OpenNames
  <2>1. CASE last
    <3>1. files' = [files EXCEPT ![TheNode][f] = NoFile]
      BY <2>1 DEF Flush
    <3>2. files' = [n \in Nodes |-> [g \in Slots |-> files'[n][g]]]
      BY <3>1 DEF LocalInv, FilesShape
    <3>3. \A g \in Slots : files'[TheNode][g] = IF g = f THEN NoFile ELSE files[TheNode][g]
      BY <3>1 DEF LocalInv, FilesShape
    <3>4. \A g \in OpenSlots(TheNode)' :
            g \in OpenSlots(TheNode) /\ files'[TheNode][g] = files[TheNode][g]
      BY <3>3 DEF OpenSlots
    <3>5. \A g \in OpenSlots(TheNode)' : WholeFile(files[TheNode][g])'
      BY <3>4 DEF LocalInv, FilesShape, WholeFile
    <3>6. OpenNames' \subseteq OpenNames
      BY <3>4 DEF OpenNames
    <3> QED BY <3>2, <3>5, <3>6 DEF FilesShape
  <2>2. CASE ~ last
    BY <2>2, SameOpenFiles DEF Flush, LocalInv
  <2> QED BY <2>1, <2>2
<1> QED BY <1>1, <1>2, <1>3, OnNode DEF Known

LEMMA SetattrStep ==
  ASSUME Nodes = {TheNode}, LocalInv, NEW f \in OpenSlots(TheNode), NEW size,
         Setattr(TheNode, f, size)
  PROVE  KnowsNoMore
<1> DEFINE old == files[TheNode][f]
<1>1. \E d : /\ files' = [files EXCEPT ![TheNode][f].data = d]
             /\ Put(TheNode, old.name, d)
  BY DEF Setattr
<1>2. PICK d : /\ files' = [files EXCEPT ![TheNode][f].data = d]
              /\ Put(TheNode, old.name, d)
  BY <1>1
<1> DEFINE file == [old EXCEPT !.data = d]
<1>3. WholeFile(old)
  BY DEF LocalInv, FilesShape
<1>4. WholeFile(file) /\ file.name = old.name
  BY <1>3 DEF WholeFile
<1>5. files' = [files EXCEPT ![TheNode][f] = file]
  BY <1>2
<1> HIDE DEF file
<1>6. FilesShape' /\ OpenNames' \subseteq OpenNames
  BY <1>4, <1>5, FileChanges DEF LocalInv
<1>7. CacheShape' /\ CachedKeys(cache'[TheNode]) \subseteq Known
  BY <1>2, PutOfOpenFile
<1>8. UNCHANGED <<lookups, sends, links>>
  BY DEF Setattr
<1> QED BY <1>6, <1>7, <1>8, OnNode DEF Known

LEMMA RemoveFileStep ==
  ASSUME Nodes = {TheNode}, LocalInv, NEW m \in Names, RemoveFile(TheNode, m)
  PROVE  /\ KnowsNoMore
         /\ "unlink_open" \notin Allowed => m \notin Known'
<1> DEFINE c == CacheDelete(cache[TheNode], m)
<1>1. KeptCache(c, Names) /\ CachedKeys(c) = CachedKeys(cache[TheNode]) \ {m}
  BY DeleteKeeps DEF LocalInv, CacheShape
<1>2. cache' = [cache EXCEPT ![TheNode] = c]
  BY DEF RemoveFile
<1> HIDE DEF c
<1>3. CacheShape' /\ CachedKeys(cache'[TheNode]) = CachedKeys(cache[TheNode]) \ {m}
  BY <1>1, <1>2, CacheSet DEF LocalInv
<1>4. FilesShape' /\ OpenNames' = OpenNames
  BY SameOpenFiles DEF RemoveFile, LocalInv
<1>5. UNCHANGED <<lookups, sends, links>>
  BY DEF RemoveFile
<1>6. KnowsNoMore
  BY <1>3, <1>4, <1>5, OnNode DEF Known
<1>7. "unlink_open" \notin Allowed => m \notin OpenNames
  BY DEF RemoveFile, OpenNames
<1> QED BY <1>3, <1>4, <1>6, <1>7 DEF Known

LEMMA LookupFailsStep ==
  ASSUME Nodes = {TheNode}, LocalInv, NEW c \in lookups, LookupFails(c)
  PROVE  KnowsNoMore
<1>1. LoneLookup(c)
  BY DEF LocalInv, NobodyElse
<1> DEFINE absent == [c EXCEPT !.phase = "absent"]
<1>2. \A d \in lookups' : d \in lookups \/ (c.create /\ d = absent)
  BY DEF LookupFails
<1>3. c.create => LoneLookup(absent)
  BY <1>1 DEF LoneLookup
<1> HIDE DEF absent
<1>4. UNCHANGED <<cache, files, sends, links>>
  BY DEF LookupFails
<1>5. NobodyElse'
  BY <1>2, <1>3, <1>4 DEF NobodyElse, LocalInv, LoneLookup
<1>6. CacheShape' /\ CachedKeys(cache'[TheNode]) = CachedKeys(cache[TheNode])
  BY <1>4, SameCache DEF LocalInv
<1>7. FilesShape' /\ OpenNames' = OpenNames
  BY <1>4, SameOpenFiles DEF LocalInv
<1> QED BY <1>5, <1>6, <1>7 DEF KnowsNoMore, LocalInv, Known

\* The one step that makes a name known
LEMMA CreateStep ==
  ASSUME Nodes = {TheNode}, LocalInv, NEW c \in lookups, Create(c)
  PROVE  LocalInv' /\ Known' \subseteq Known \cup {c.name}
<1>1. c.node = TheNode /\ c.name \in Names
  BY DEF LocalInv, NobodyElse, LoneLookup
<1> DEFINE file == [name |-> c.name, data |-> Slice(0, 0), stage |-> "idle", w |-> 0, off |-> 0]
<1>2. PICK f \in Slots : files' = [files EXCEPT ![TheNode][f] = file]
  BY <1>1 DEF Create
<1>3. WholeFile(file) /\ file.name = c.name
  BY <1>1 DEF WholeFile
<1> HIDE DEF file
<1>4. FilesShape' /\ OpenNames' \subseteq OpenNames \cup {c.name}
  BY <1>2, <1>3, FileSet DEF LocalInv
<1>5. CacheShape' /\ CachedKeys(cache'[TheNode]) \subseteq CachedKeys(cache[TheNode]) \cup {c.name}
  BY <1>1, PutStep DEF Create, LocalInv
<1>6. NobodyElse'
  BY SameLookups DEF Create, LocalInv
<1> QED BY <1>4, <1>5, <1>6 DEF LocalInv, Known

LEMMA BroadcastStep ==
  ASSUME Nodes = {TheNode}, LocalInv, NEW b \in casts, Broadcast(b)
  PROVE  KnowsNoMore
<1>1. ConnectedPeers(b.from) = {}
  BY DEF ConnectedPeers, LocalInv, NobodyElse
<1>2. sends' = sends /\ UNCHANGED <<cache, files, lookups, links>>
  BY <1>1 DEF Broadcast
<1>3. CacheShape' /\ CachedKeys(cache'[TheNode]) = CachedKeys(cache[TheNode])
  BY <1>2, SameCache DEF LocalInv
<1>4. FilesShape' /\ OpenNames' = OpenNames
  BY <1>2, SameOpenFiles DEF LocalInv
<1> QED BY <1>2, <1>3, <1>4, OnNode DEF Known

LEMMA DisconnectStep ==
  ASSUME Nodes = {TheNode}, LocalInv, NEW n \in Nodes, NEW p \in Nodes, Disconnect(n, p)
  PROVE  KnowsNoMore
<1>1. \A c \in lookups : c.phase # "stalled"
  BY DEF LocalInv, NobodyElse, LoneLookup
<1>2. lookups' = lookups /\ links' = {} /\ links = {}
  BY <1>1 DEF Disconnect, LocalInv, NobodyElse
<1>3. UNCHANGED <<cache, files>> /\ sends' = sends
  BY DEF Disconnect, LocalInv, NobodyElse
<1>4. CacheShape' /\ CachedKeys(cache'[TheNode]) = CachedKeys(cache[TheNode])
  BY <1>3, SameCache DEF LocalInv
<1>5. FilesShape' /\ OpenNames' = OpenNames
  BY <1>3, SameOpenFiles DEF LocalInv
<1> QED BY <1>2, <1>3, <1>4, <1>5, OnNode DEF Known

LEMMA RestartStep ==
  ASSUME Nodes = {TheNode}, LocalInv, Restart(TheNode)
  PROVE  KnowsNoMore
<1>1. CacheShape' /\ cache'[TheNode] = EmptyCache
  <2>1. cache' = [cache EXCEPT ![TheNode] = EmptyCache]
    BY DEF Restart
  <2> QED BY <2>1, EmptyIsKept, CacheSet DEF LocalInv
<1>2. CachedKeys(cache'[TheNode]) = {}
  BY <1>1, EmptyIsKept
<1>3. files' = [n \in Nodes |-> [f \in Slots |-> NoFile]]
  BY DEF Restart, LocalInv, FilesShape
<1>4. OpenSlots(TheNode)' = {}
  BY <1>3 DEF OpenSlots
<1>5. FilesShape' /\ OpenNames' = {}
  BY <1>3, <1>4 DEF FilesShape, OpenNames
<1>6. lookups' = {} /\ sends' = {} /\ links' = {}
  BY DEF Restart, LocalInv, NobodyElse, LoneLookup
<1>7. NobodyElse'
  BY <1>6 DEF NobodyElse
<1> QED BY <1>1, <1>2, <1>5, <1>7 DEF KnowsNoMore, LocalInv, Known

\* The steps, by what they do to the Lookups and to the known names
StepKinds ==
  \/ KnowsNoMore /\ lookups' \subseteq lookups
  \/ /\ KnowsNoMore
     /\ \E m \in Names, create \in BOOLEAN : LookupMiss(TheNode, m, create)
  \/ KnowsNoMore /\ \E c \in lookups : LookupFails(c)
  \/ \E c \in lookups : Create(c)

LEMMA RequestKinds ==
  ASSUME Nodes = {TheNode}, LocalInv, Request(TheNode)
  PROVE  StepKinds
<1>1. MaxLen \in Nat
  BY NodusAssumption
<1>2. ASSUME NEW m \in Names, LookupHit(TheNode, m) PROVE StepKinds
  BY <1>2, LookupHitStep DEF StepKinds, LookupHit
<1>3. ASSUME NEW m \in Names, RemoveFile(TheNode, m) PROVE StepKinds
  BY <1>3, RemoveFileStep DEF StepKinds, RemoveFile
<1>4. ASSUME NEW m \in Names, NEW create \in BOOLEAN, LookupMiss(TheNode, m, create)
      PROVE  StepKinds
  BY <1>4, LookupMissStep DEF StepKinds
<1>5. ASSUME NEW f \in OpenSlots(TheNode), ReadAll(TheNode, f) PROVE StepKinds
  BY <1>5, ReadAllStep DEF StepKinds, ReadAll
<1>6. ASSUME NEW f \in OpenSlots(TheNode), NEW off \in 0 .. MaxLen - 1, WriteGrow(TheNode, f, off)
      PROVE  StepKinds
  <2>1. off \in Nat
    BY <1>1
  <2> QED BY <1>6, <2>1, WriteGrowStep DEF StepKinds, WriteGrow
<1>7. ASSUME NEW f \in OpenSlots(TheNode), NEW last \in BOOLEAN, Flush(TheNode, f, last)
      PROVE  StepKinds
  BY <1>7, FlushStep DEF StepKinds, Flush
<1>8. ASSUME NEW f \in OpenSlots(TheNode), NEW size \in 0 .. MaxLen, Setattr(TheNode, f, size)
      PROVE  StepKinds
  BY <1>8, SetattrStep DEF StepKinds, Setattr
<1> QED BY <1>2, <1>3, <1>4, <1>5, <1>6, <1>7, <1>8 DEF Request

LEMMA LookupKinds ==
  ASSUME Nodes = {TheNode}, LocalInv, NEW c \in lookups,
         LookupStep(c) \/ FetchFails(c) \/ Stall(c)
  PROVE  StepKinds
<1>1. c.phase \in {"choosing", "absent"} /\ c.todo = {}
  BY DEF LocalInv, NobodyElse, LoneLookup
<1>2. LookupFails(c) \/ Create(c)
  BY <1>1 DEF LookupStep, Ask, Serve, FetchByte, FetchDone, FetchFails, Stall
<1> QED BY <1>2, LookupFailsStep DEF StepKinds

LEMMA AllKinds ==
  ASSUME Nodes = {TheNode}, LocalInv, Next
  PROVE  StepKinds
<1>1. ASSUME Request(TheNode) PROVE StepKinds
  BY <1>1, RequestKinds
<1>2. ASSUME Restart(TheNode) PROVE StepKinds
  <2>1. KnowsNoMore
    BY <1>2, RestartStep
  <2>2. lookups' \subseteq lookups
    BY <1>2 DEF Restart, LocalInv, NobodyElse, LoneLookup
  <2> QED BY <2>1, <2>2 DEF StepKinds
<1>3. ASSUME NEW f \in OpenSlots(TheNode), FileStep(TheNode, f) PROVE StepKinds
  BY <1>3, WriteCopyStep, WritePublishStep DEF StepKinds, FileStep, WriteCopy, WritePublish
<1>4. ASSUME NEW c \in lookups, LookupStep(c) \/ FetchFails(c) \/ Stall(c) PROVE StepKinds
  BY <1>4, LookupKinds
<1>5. ASSUME NEW b \in casts, Broadcast(b) PROVE StepKinds
  BY <1>5, BroadcastStep DEF StepKinds, Broadcast
<1>6. sends = {}
  BY DEF LocalInv, NobodyElse
<1>7. ASSUME NEW n \in Nodes, NEW p \in Nodes, Connect(n, p) \/ Disconnect(n, p)
      PROVE  StepKinds
  <2>1. Disconnect(n, p)
    BY <1>7 DEF Connect
  <2>2. KnowsNoMore
    BY <2>1, DisconnectStep
  <2>3. lookups' = lookups
    BY <2>1 DEF Disconnect, LocalInv, NobodyElse, LoneLookup
  <2> QED BY <2>2, <2>3 DEF StepKinds
<1> QED BY <1>1, <1>2, <1>3, <1>4, <1>5, <1>6, <1>7 DEF Next

LEMMA LocalInvKept ==
  ASSUME Nodes = {TheNode}, LocalInv, [Next]_vars
  PROVE  LocalInv'
<1>1. CASE Next
  BY <1>1, AllKinds, CreateStep DEF StepKinds, KnowsNoMore
<1>2. CASE UNCHANGED vars
  <2>1. CacheShape' /\ FilesShape' /\ NobodyElse'
    BY <1>2, SameCache, SameOpenFiles, SameLookups DEF LocalInv, vars
  <2> QED BY <2>1 DEF LocalInv
<1> QED BY <1>1, <1>2

LEMMA LocalInvInitially ==
  ASSUME Nodes = {TheNode}, Init
  PROVE  LocalInv /\ Known = {} /\ lookups = {}
<1>1. CacheShape /\ CachedKeys(cache[TheNode]) = {}
  BY EmptyIsKept DEF Init, StartsWith, CacheShape
<1>2. OpenSlots(TheNode) = {}
  BY DEF Init, StartsWith, OpenSlots
<1>3. FilesShape /\ OpenNames = {}
  BY <1>2 DEF FilesShape, OpenNames, Init, StartsWith
<1>4. NobodyElse
  BY DEF NobodyElse, Init, StartsWith
<1> QED BY <1>1, <1>3, <1>4 DEF LocalInv, Known, Init, StartsWith

\* While a name is being created nothing else is looked up, and the node has no
\* trace of the name.
CreateInv ==
  /\ LocalInv
  /\ \A c \in lookups : c.create => lookups = {c} /\ c.name \notin Known

LEMMA CreateInvKept ==
  ASSUME Nodes = {TheNode}, "reopen" \notin Allowed, CreateInv, [Next]_vars
  PROVE  CreateInv'
<1>1. LocalInv /\ LocalInv'
  BY LocalInvKept DEF CreateInv
<1>2. CASE KnowsNoMore /\ lookups' \subseteq lookups
  BY <1>1, <1>2 DEF CreateInv, KnowsNoMore
<1>3. CASE /\ KnowsNoMore
           /\ \E m \in Names, create \in BOOLEAN : LookupMiss(TheNode, m, create)
  <2>1. PICK m \in Names, create \in BOOLEAN : LookupMiss(TheNode, m, create)
    BY <1>3
  <2> DEFINE new == [node |-> TheNode, name |-> m, create |-> create,
                     phase |-> "choosing", todo |-> ConnectedPeers(TheNode)]
  <2>2. /\ lookups' = lookups \cup {new}
        /\ new.create = create /\ new.name = m
    BY <2>1 DEF LookupMiss
  <2> HIDE DEF new
  <2>3. \A c \in lookups : c.node = TheNode
    BY <1>1 DEF LocalInv, NobodyElse, LoneLookup
  <2>4. CASE create
    <3>1. lookups = {}
      BY <2>1, <2>3, <2>4 DEF LookupMiss, NoLookupOn
    <3>2. m \notin Known
      BY <2>1, <2>4 DEF LookupMiss, MayOpen, Holds, Known, OpenNames
    <3> QED BY <1>1, <1>3, <2>2, <3>1, <3>2 DEF CreateInv, KnowsNoMore
  <2>5. CASE ~ create
    <3>1. \A c \in lookups' : ~ c.create
      BY <2>1, <2>2, <2>3, <2>5 DEF LookupMiss, NoCreateOn
    <3> QED BY <1>1, <3>1 DEF CreateInv
  <2> QED BY <2>4, <2>5
<1>4. CASE KnowsNoMore /\ \E c \in lookups : LookupFails(c)
  <2>1. PICK c \in lookups : LookupFails(c)
    BY <1>4
  <2>2. LoneLookup(c)
    BY <1>1 DEF LocalInv, NobodyElse
  <2> DEFINE absent == [c EXCEPT !.phase = "absent"]
  <2>3. absent.name = c.name
    BY <2>2 DEF LoneLookup
  <2>4. lookups' = (lookups \ {c}) \cup (IF c.create THEN {absent} ELSE {})
    BY <2>1 DEF LookupFails
  <2> HIDE DEF absent
  <2>5. CASE c.create
    <3>1. lookups' = {absent} /\ c.name \notin Known
      BY <2>4, <2>5 DEF CreateInv
    <3> QED BY <1>1, <1>4, <2>3, <3>1 DEF CreateInv, KnowsNoMore
  <2>6. CASE ~ c.create
    <3>1. lookups' \subseteq lookups
      BY <2>4, <2>6
    <3> QED BY <1>1, <1>4, <3>1 DEF CreateInv, KnowsNoMore
  <2> QED BY <2>5, <2>6
<1>5. CASE \E c \in lookups : Create(c)
  <2>1. PICK c \in lookups : Create(c)
    BY <1>5
  <2>2. c.create
    BY <1>1, <2>1 DEF LocalInv, NobodyElse, LoneLookup, Create
  <2>3. lookups' = {}
    BY <2>1, <2>2 DEF CreateInv, Create
  <2> QED BY <1>1, <2>3 DEF CreateInv
<1>6. CASE Next
  BY <1>1, <1>2, <1>3, <1>4, <1>5, <1>6, AllKinds DEF StepKinds
<1>7. CASE UNCHANGED vars
  <2>1. Known' = Known /\ lookups' = lookups
    BY <1>1, <1>7, SameOpenFiles DEF Known, vars, LocalInv
  <2> QED BY <1>1, <2>1 DEF CreateInv
<1> QED BY <1>6, <1>7

-----------------------------------------------------------------------------
(* A node that works alone behaves as files.                               *)
(*                                                                         *)
(* The cache is the files, and an open File is a view of one of them: the  *)
(* File shares the cached slice, or is about to replace it by a longer one *)
(* that starts with the same bytes.                                        *)

\* The cache has room for the bytes of every name.
RoomForNames == IsFiniteSet(Names) /\ Cardinality(Names \X (1 .. MaxLen)) <= Capacity

Content == [m \in CachedKeys(cache[TheNode]) |-> Copy(TheNode, m)]

Cached(m) == cache[TheNode].items[m]

\* The array that a Write has grown: the bytes of the cached slice and zeros, up to
\* the place of the byte that is written.
GrownFrom(h, file, d) ==
  /\ file.stage # "idle"
  /\ file.data.len = file.off + 1 /\ d.len <= file.off
  /\ file.data.buf # d.buf
  /\ \A i \in 1 .. file.off :
       h[file.data.buf][i] = IF i <= d.len THEN h[d.buf][i] ELSE 0

FileShows(f) ==
  LET file == files[TheNode][f]
  IN  /\ file.name \in CachedKeys(cache[TheNode])
      /\ file.data = Cached(file.name) \/ GrownFrom(heap, file, Cached(file.name))
      /\ file.stage # "idle" => file.w # 0

FilesShow == \A f \in OpenSlots(TheNode) : FileShows(f)

AloneInv ==
  /\ MemoryInv /\ WriteInv /\ CreateInv
  /\ Counted(cache[TheNode])
  /\ FilesShow

\* What a step is to come to
ActsOnFiles ==
  /\ FilesShow' /\ Counted(cache'[TheNode])
  /\ Content' = Content \/ ExpectedFiles!FNext

-----------------------------------------------------------------------------
(* The cache *)

SameEntries ==
  /\ CachedKeys(cache'[TheNode]) = CachedKeys(cache[TheNode])
  /\ \A m \in CachedKeys(cache[TheNode]) : Cached(m)' = Cached(m)

OneEntry(m, d) ==
  /\ CachedKeys(cache'[TheNode]) = CachedKeys(cache[TheNode]) \cup {m}
  /\ Cached(m)' = d
  /\ \A x \in CachedKeys(cache[TheNode]) \ {m} : Cached(x)' = Cached(x)

LEMMA CachedIsSlice ==
  ASSUME Nodes = {TheNode}, TypeInv, NEW m \in CachedKeys(cache[TheNode])
  PROVE  /\ m \in Names /\ Fits(heap, Cached(m))
         /\ Cached(m).len \in 0 .. MaxLen /\ Cached(m).len \in Nat
         /\ Owned(TheNode, m, Cached(m)) \in Slices
<1>1. Owned(TheNode, m, Cached(m)) \in Slices /\ m \in Names
  BY CachedSlice DEF Slices, Cached, TypeInv, RecordsOK, CachesOK
<1>2. Fits(heap, Owned(TheNode, m, Cached(m)).data)
  BY <1>1 DEF TypeInv
<1>3. Fits(heap, Cached(m))
  BY <1>2 DEF Owned
<1>4. Cached(m).len \in 0 .. MaxLen
  BY <1>3 DEF Fits, SliceType
<1> QED BY <1>1, <1>3, <1>4, NodusAssumption

LEMMA CachedIsSliceNext ==
  ASSUME Nodes = {TheNode}, NEW m \in CachedKeys(cache'[TheNode])
  PROVE  Owned(TheNode, m, Cached(m)') \in Slices'
BY DEF Slices, CacheSlices, Owned, Cached

LEMMA AloneGets ==
  ASSUME Nodes = {TheNode}, TypeInv, Counted(cache[TheNode]), NEW m, Get(TheNode, m)
  PROVE  SameEntries /\ Counted(cache'[TheNode])
<1> DEFINE c == CacheGet(cache[TheNode], m)
<1>1. KeptCache(cache[TheNode], Names)
  BY DEF TypeInv, RecordsOK, CachesOK
<1>2. c.items = cache[TheNode].items /\ Counted(c)
  BY <1>1, GetKeeps, GetCounts
<1>3. cache' = [cache EXCEPT ![TheNode] = c]
  BY DEF Get
<1> HIDE DEF c
<1>4. cache'[TheNode] = c
  BY <1>3 DEF TypeInv, RecordsOK, CachesOK
<1> QED BY <1>2, <1>4 DEF SameEntries, Cached, CachedKeys

LEMMA AlonePuts ==
  ASSUME Nodes = {TheNode}, RoomForNames, TypeInv, Counted(cache[TheNode]),
         NEW m \in Names, NEW d \in SliceType, Put(TheNode, m, d)
  PROVE  OneEntry(m, d) /\ Counted(cache'[TheNode])
<1> DEFINE old == cache[TheNode]
           c == CachePut(old, m, d, Capacity)
<1>1. KeptCache(old, Names)
  BY DEF TypeInv, RecordsOK, CachesOK
<1>2. d.len \in 0 .. MaxLen /\ d.len \in Nat /\ MaxLen \in Nat /\ Capacity \in Nat
  BY NodusAssumption DEF SliceType
<1>3. m \in CachedKeys(old) \/ HasRoom(old, d, Capacity)
  <2>1. \A x \in CachedKeys(old) : x \in Names /\ old.items[x].len <= MaxLen
    BY CachedIsSlice DEF Cached
  <2>2. CachedKeys(old) \subseteq Names
    BY <2>1
  <2> HIDE DEF old
  <2>3. Counted(old) /\ IsFiniteSet(Names) /\ Cardinality(Names \X (1 .. MaxLen)) <= Capacity
    BY DEF RoomForNames, old
  <2> QED BY <1>2, <2>1, <2>2, <2>3, RoomForAll
<1> HIDE DEF old
<1>4. Counted(old)
  BY DEF old
<1>5. /\ Counted(c) /\ CachedKeys(c) = CachedKeys(old) \cup {m}
      /\ c.items[m] = d
      /\ \A x \in CachedKeys(c) \ {m} : c.items[x] = old.items[x]
  BY <1>1, <1>2, <1>3, <1>4, PutKeeps, PutCounts
<1>6. cache' = [cache EXCEPT ![TheNode] = c]
  BY DEF Put, old
<1> HIDE DEF c
<1>7. cache'[TheNode] = c
  BY <1>6 DEF TypeInv, RecordsOK, CachesOK
<1> QED BY <1>5, <1>7 DEF OneEntry, Cached, old

LEMMA AloneDeletes ==
  ASSUME Nodes = {TheNode}, TypeInv, Counted(cache[TheNode]), NEW m,
         cache' = [cache EXCEPT ![TheNode] = CacheDelete(@, m)]
  PROVE  /\ CachedKeys(cache'[TheNode]) = CachedKeys(cache[TheNode]) \ {m}
         /\ \A x \in CachedKeys(cache'[TheNode]) : Cached(x)' = Cached(x)
         /\ Counted(cache'[TheNode])
<1> DEFINE c == CacheDelete(cache[TheNode], m)
<1>1. KeptCache(cache[TheNode], Names)
  BY DEF TypeInv, RecordsOK, CachesOK
<1>2. /\ CachedKeys(c) = CachedKeys(cache[TheNode]) \ {m} /\ Counted(c)
      /\ \A x \in CachedKeys(c) : c.items[x] = cache[TheNode].items[x]
  BY <1>1, DeleteKeeps, DeleteCounts
<1>3. cache' = [cache EXCEPT ![TheNode] = c]
  OBVIOUS
<1> HIDE DEF c
<1>4. cache'[TheNode] = c
  BY <1>3 DEF TypeInv, RecordsOK, CachesOK
<1> QED BY <1>2, <1>4 DEF Cached

-----------------------------------------------------------------------------
(* The bytes *)

\* A cached slice that stays keeps its bytes.
LEMMA CopyStays ==
  ASSUME Nodes = {TheNode}, TypeInv, RecordsOK', LeavesBytes,
         NEW m \in CachedKeys(cache[TheNode]), m \in CachedKeys(cache'[TheNode]),
         Cached(m)' = Cached(m)
  PROVE  SameBytes(Cached(m)) /\ Copy(TheNode, m)' = Copy(TheNode, m)
<1> DEFINE x == Owned(TheNode, m, Cached(m))
<1>1. x \in Slices /\ x.data = Cached(m)
  BY CachedIsSlice DEF Owned
<1>2. x \in Slices'
  <2>1. Owned(TheNode, m, Cached(m)') \in Slices'
    BY CachedIsSliceNext
  <2> QED BY <2>1
<1> HIDE DEF x
<1>3. SameBytes(Cached(m))
  <2>1. SameBytes(x.data)
    BY <1>1, <1>2, BytesAreLeft
  <2> QED BY <1>1, <2>1
<1> QED BY <1>3 DEF SameBytes, Copy, Bytes, BytesIn, Cached

LEMMA ContentStays ==
  ASSUME Nodes = {TheNode}, TypeInv, RecordsOK', LeavesBytes, SameEntries
  PROVE  Content' = Content
<1>1. \A m \in CachedKeys(cache[TheNode]) : Copy(TheNode, m)' = Copy(TheNode, m)
  BY CopyStays DEF SameEntries
<1> QED BY <1>1 DEF SameEntries, Content

\* An open File that stays keeps on showing the file, if the cached slice stays.
LEMMA StillShows ==
  ASSUME Nodes = {TheNode}, TypeInv, RecordsOK', LeavesBytes, FilesShow,
         NEW f \in OpenSlots(TheNode), f \in OpenSlots(TheNode)',
         NEW file, files[TheNode][f] = file, files'[TheNode][f] = file,
         file.name \in CachedKeys(cache'[TheNode]), Cached(file.name)' = Cached(file.name)
  PROVE  FileShows(f)'
<1> DEFINE m == file.name
           y == Owned(TheNode, m, file.data)
<1>1. /\ m \in CachedKeys(cache[TheNode])
      /\ file.data = Cached(m) \/ GrownFrom(heap, file, Cached(m))
      /\ file.stage # "idle" => file.w # 0
  BY DEF FilesShow, FileShows
<1>2. file \in FileType /\ y \in Slices /\ y.data = file.data
  BY OpenFile DEF TypeInv, RecordsOK, Slices, FileSlices, Owned
<1>3. y \in Slices'
  BY DEF Slices, FileSlices, Owned
<1>4. SameBytes(file.data)
  <2> HIDE DEF y
  <2>1. SameBytes(y.data)
    BY <1>2, <1>3, BytesAreLeft
  <2> QED BY <1>2, <2>1
<1>6. SameBytes(Cached(m)) /\ Cached(m).len \in Nat
  BY <1>1, CopyStays, CachedIsSlice
<1>7. file.off \in Nat
  BY <1>2, NodusAssumption DEF FileType
<1>8. GrownFrom(heap, file, Cached(m)) => GrownFrom(heap', file, Cached(m))
  BY <1>4, <1>6, <1>7 DEF GrownFrom, SameBytes
<1> QED BY <1>1, <1>8 DEF FileShows

\* The cached slice of m is still there.
Stays(m) ==
  /\ m \in CachedKeys(cache'[TheNode])
  /\ cache'[TheNode].items[m] = cache[TheNode].items[m]

LEMMA SameEntriesStay ==
  ASSUME SameEntries, NEW m \in CachedKeys(cache[TheNode])
  PROVE  Stays(m)
BY DEF SameEntries, Stays, Cached

LEMMA OtherEntriesStay ==
  ASSUME NEW k, NEW d, OneEntry(k, d), NEW m \in CachedKeys(cache[TheNode]), m # k
  PROVE  Stays(m)
BY DEF OneEntry, Stays, Cached

\* A step that changes no entry and no File object
LEMMA QuietStep ==
  ASSUME Nodes = {TheNode}, TypeInv, FilesShow, RecordsOK', LeavesBytes, SameEntries,
         Counted(cache'[TheNode]), UNCHANGED files
  PROVE  ActsOnFiles
<1>1. ASSUME NEW f \in OpenSlots(TheNode)' PROVE FileShows(f)'
  <2>1. PICK file : files[TheNode][f] = file
    OBVIOUS
  <2>2. f \in OpenSlots(TheNode) /\ files'[TheNode][f] = file
    BY <1>1, <2>1 DEF OpenSlots
  <2>3. file.name \in CachedKeys(cache[TheNode])
    BY <2>1, <2>2 DEF FilesShow, FileShows
  <2>4. file.name \in CachedKeys(cache'[TheNode]) /\ Cached(file.name)' = Cached(file.name)
    BY <2>3 DEF SameEntries
  <2> QED BY <1>1, <2>1, <2>2, <2>4, StillShows
<1>2. FilesShow'
  BY <1>1 DEF FilesShow
<1> QED BY <1>2, ContentStays DEF ActsOnFiles

\* A step that puts a File object, new or changed, into one slot
LEMMA SlotChanges ==
  ASSUME Nodes = {TheNode}, TypeInv, FilesShow, RecordsOK', LeavesBytes,
         NEW f \in Slots, NEW file, files' = [files EXCEPT ![TheNode][f] = file],
         \A g \in OpenSlots(TheNode) \ {f} : Stays(files[TheNode][g].name),
         file # NoFile =>
           /\ file.name \in CachedKeys(cache'[TheNode])
           /\ \/ file.data = cache'[TheNode].items[file.name]
              \/ GrownFrom(heap', file, cache'[TheNode].items[file.name])
           /\ file.stage # "idle" => file.w # 0
  PROVE  FilesShow'
<1>1. \A g \in Slots : files'[TheNode][g] = IF g = f THEN file ELSE files[TheNode][g]
  BY DEF TypeInv, RecordsOK, FilesOK
<1>2. ASSUME NEW g \in OpenSlots(TheNode)', g # f PROVE FileShows(g)'
  <2>1. PICK other : files[TheNode][g] = other
    OBVIOUS
  <2>2. g \in OpenSlots(TheNode) /\ files'[TheNode][g] = other
    BY <1>1, <1>2, <2>1 DEF OpenSlots
  <2>3. Stays(other.name)
    BY <1>2, <2>1, <2>2
  <2>4. other.name \in CachedKeys(cache'[TheNode]) /\ Cached(other.name)' = Cached(other.name)
    BY <2>3 DEF Stays, Cached
  <2> QED BY <1>2, <2>1, <2>2, <2>4, StillShows
<1>3. ASSUME f \in OpenSlots(TheNode)' PROVE FileShows(f)'
  <2>1. files'[TheNode][f] = file /\ file # NoFile
    BY <1>1, <1>3 DEF OpenSlots
  <2> QED BY <2>1 DEF FileShows, Cached
<1> QED BY <1>2, <1>3 DEF FilesShow

LEMMA OpenNameIsCached ==
  ASSUME FilesShow, NEW f \in OpenSlots(TheNode)
  PROVE  files[TheNode][f].name \in CachedKeys(cache[TheNode])
BY DEF FilesShow, FileShows

-----------------------------------------------------------------------------
(* The steps *)

LEMMA AloneLookupHit ==
  ASSUME Nodes = {TheNode}, AloneInv, NEW m \in Names, LookupHit(TheNode, m)
  PROVE  ActsOnFiles
<1>0. TypeInv /\ FilesShow /\ Counted(cache[TheNode])
  BY DEF AloneInv, MemoryInv
<1>1. RecordsOK' /\ LeavesBytes
  BY <1>0, LookupHitDoes
<1>2. SameEntries /\ Counted(cache'[TheNode])
  BY <1>0, AloneGets DEF LookupHit
<1>3. m \in CachedKeys(cache[TheNode]) /\ Keep(TheNode, m, Cached(m))
  BY DEF LookupHit, Holds, Cached
<1>4. CASE UNCHANGED files
  BY <1>0, <1>1, <1>2, <1>4, QuietStep
<1>5. CASE ~ UNCHANGED files
  <2> DEFINE file == [name |-> m, data |-> Cached(m), stage |-> "idle", w |-> 0, off |-> 0]
  <2>1. PICK f \in Slots : files' = [files EXCEPT ![TheNode][f] = file]
    BY <1>3, <1>5 DEF Keep
  <2>2. file.name = m /\ file.data = Cached(m) /\ file.stage = "idle"
    OBVIOUS
  <2> HIDE DEF file
  <2>3. m \in CachedKeys(cache'[TheNode]) /\ file.data = cache'[TheNode].items[m]
    BY <1>2, <1>3, <2>2, SameEntriesStay DEF Stays, Cached
  <2>4. \A g \in OpenSlots(TheNode) : Stays(files[TheNode][g].name)
    BY <1>0, <1>2, SameEntriesStay, OpenNameIsCached
  <2>5. FilesShow'
    BY <1>0, <1>1, <2>1, <2>2, <2>3, <2>4, SlotChanges
  <2> QED BY <1>0, <1>1, <1>2, <2>5, ContentStays DEF ActsOnFiles
<1> QED BY <1>4, <1>5

\* The steps that leave cache and File objects alone
LEMMA AloneElsewhere ==
  ASSUME Nodes = {TheNode}, AloneInv, RecordsOK', LeavesBytes, UNCHANGED <<cache, files>>
  PROVE  ActsOnFiles
<1>1. SameEntries /\ Counted(cache'[TheNode])
  BY DEF SameEntries, Cached, AloneInv
<1> QED BY <1>1, QuietStep DEF AloneInv, MemoryInv

LEMMA AloneReadAll ==
  ASSUME Nodes = {TheNode}, AloneInv, NEW f \in OpenSlots(TheNode), ReadAll(TheNode, f)
  PROVE  ActsOnFiles
<1>0. TypeInv /\ FilesShow /\ Counted(cache[TheNode])
  BY DEF AloneInv, MemoryInv
<1> DEFINE old == files[TheNode][f]
<1>1. RecordsOK' /\ LeavesBytes
  BY <1>0, ReadAllDoes
<1>2. SameEntries /\ Counted(cache'[TheNode])
  BY <1>0, AloneGets DEF ReadAll
<1>3. PICK file : file = [old EXCEPT !.data = Cached(old.name)]
  OBVIOUS
<1>4. files' = [files EXCEPT ![TheNode][f] = file]
  BY <1>3 DEF ReadAll, Cached
<1>5. f \in Slots /\ old \in FileType
  BY <1>0, OpenFile DEF TypeInv, RecordsOK
<1>6. /\ file.name = old.name /\ file.data = Cached(old.name)
      /\ file.stage # "idle" => file.w # 0
  <2>1. old.stage # "idle" => old.w # 0
    BY <1>0 DEF FilesShow, FileShows
  <2> HIDE DEF old
  <2> QED BY <1>3, <1>5, <2>1 DEF FileType
<1>7. \A g \in OpenSlots(TheNode) : Stays(files[TheNode][g].name)
  BY <1>0, <1>2, SameEntriesStay, OpenNameIsCached
<1>8. file.name \in CachedKeys(cache'[TheNode]) /\ file.data = cache'[TheNode].items[file.name]
  BY <1>6, <1>7 DEF Stays, Cached
<1>9. FilesShow'
  <2> HIDE DEF old
  <2> QED BY <1>0, <1>1, <1>4, <1>5, <1>6, <1>7, <1>8, SlotChanges
<1> QED BY <1>0, <1>1, <1>2, <1>9, ContentStays DEF ActsOnFiles

LEMMA IdleShowsCached ==
  ASSUME FilesShow, NEW f \in OpenSlots(TheNode), Idle(files[TheNode][f])
  PROVE  files[TheNode][f].data = Cached(files[TheNode][f].name)
BY DEF FilesShow, FileShows, GrownFrom, Idle

LEMMA AloneFlush ==
  ASSUME Nodes = {TheNode}, RoomForNames, "overlap" \notin Allowed, AloneInv,
         NEW f \in OpenSlots(TheNode), NEW last \in BOOLEAN, Flush(TheNode, f, last)
  PROVE  ActsOnFiles
<1>0. TypeInv /\ FilesShow /\ Counted(cache[TheNode])
  BY DEF AloneInv, MemoryInv
<1>file. PICK m, d : m = files[TheNode][f].name /\ d = files[TheNode][f].data
  OBVIOUS
<1>1. RecordsOK' /\ LeavesBytes
  BY <1>0, FlushDoes
<1>2. f \in Slots /\ m \in Names /\ d \in SliceType /\ d = Cached(m)
      /\ m \in CachedKeys(cache[TheNode])
  BY <1>0, <1>file, FilesSlice, IdleShowsCached, OpenNameIsCached DEF Flush, Fits
<1>3. Put(TheNode, m, d)
  BY <1>file DEF Flush
<1>4. OneEntry(m, d) /\ Counted(cache'[TheNode])
  BY <1>0, <1>2, <1>3, AlonePuts
<1>5. SameEntries
  BY <1>2, <1>4 DEF OneEntry, SameEntries, Cached
<1>6. CASE ~ last
  BY <1>0, <1>1, <1>4, <1>5, <1>6, QuietStep DEF Flush
<1>7. CASE last
  <2>1. files' = [files EXCEPT ![TheNode][f] = NoFile]
    BY <1>7 DEF Flush
  <2>2. \A g \in OpenSlots(TheNode) : Stays(files[TheNode][g].name)
    BY <1>0, <1>5, SameEntriesStay, OpenNameIsCached
  <2>3. FilesShow'
    BY <1>0, <1>1, <1>2, <2>1, <2>2, SlotChanges
  <2> QED BY <1>0, <1>1, <1>4, <1>5, <2>3, ContentStays DEF ActsOnFiles
<1> QED BY <1>6, <1>7

\* A new array holds the bytes of the slice it was made from, and zeros.
LEMMA ArrayIsFilled ==
  ASSUME Nodes = {TheNode}, TypeInv, Roomy, RecordsOK', NEW m \in Names, NEW d, Fits(heap, d),
         NEW k \in 1 .. MaxLen, Fills(TheNode, m, NewBuf, Bytes(d), k),
         NEW e, e.buf = NewBuf, Owned(TheNode, m, e) \in Slices'
  PROVE  \A i \in 1 .. k : heap'[NewBuf][i] = IF i <= d.len THEN heap[d.buf][i] ELSE 0
<1> DEFINE src == Bytes(d)
           x == Owned(TheNode, m, e)
<1>1. /\ src \in Seq(Byte) /\ Len(src) = d.len /\ d.len \in Nat
      /\ \A i \in 1 .. d.len : src[i] = heap[d.buf][i]
  BY SliceBytes DEF TypeInv, Bytes, BytesIn
<1>2. Fills(TheNode, m, NewBuf, src, k) /\ x.data.buf = NewBuf /\ x \in Slices'
  BY DEF Owned
<1>3. NewBuf \in Bufs \ {0} /\ \A y \in Slices : y.data.buf # NewBuf
  BY NewBufIsFree
<1> HIDE DEF src, x
<1>4. ~ Inside(x)
  <2>1. x.data # Slice(0, 0)
    BY <1>2, <1>3, TheEmptySlice
  <2> QED BY <1>2, <1>3, <2>1 DEF Inside
<1>5. \A i \in 1 .. k : heap'[NewBuf][i] = Resized(src, k)[i]
  BY <1>1, <1>2, <1>3, <1>4, FillsKeeps
<1> QED BY <1>1, <1>5 DEF Resized

LEMMA AloneWriteGrow ==
  ASSUME Nodes = {TheNode}, Roomy, AloneInv, NEW f \in OpenSlots(TheNode),
         NEW off \in 0 .. MaxLen - 1, WriteGrow(TheNode, f, off)
  PROVE  ActsOnFiles
<1>0. TypeInv /\ FilesShow /\ Counted(cache[TheNode])
  BY DEF AloneInv, MemoryInv
<1>old. PICK old, m, w : /\ old = files[TheNode][f] /\ m = old.name
                         /\ w = Len(wrote) + 1
  OBVIOUS
<1> DEFINE d == Cached(m)
<1>1. /\ RecordsOK' /\ LeavesBytes
      /\ off + 1 > old.data.len => Fills(TheNode, m, NewBuf, Bytes(old.data), off + 1)
  BY <1>0, <1>old, WriteGrowDoes
<1>2. SameEntries /\ Counted(cache'[TheNode]) /\ Cached(m)' = Cached(m)
  BY <1>0 DEF WriteGrow, SameEntries, Cached
<1>3. /\ f \in Slots /\ old \in FileType /\ m \in Names
      /\ m \in CachedKeys(cache[TheNode]) /\ old.data = d
  BY <1>0, <1>old, FilesSlice, IdleShowsCached, OpenNameIsCached DEF WriteGrow
<1>dom. DOMAIN old = {"name", "data", "stage", "w", "off"} /\ DOMAIN NoFile = {"name"}
  BY <1>3 DEF FileType, NoFile
<1>4. \A g \in OpenSlots(TheNode) : Stays(files[TheNode][g].name)
  BY <1>0, <1>2, SameEntriesStay, OpenNameIsCached
<1>5. /\ m \in CachedKeys(cache'[TheNode]) /\ cache'[TheNode].items[m] = d
      /\ d.len \in Nat /\ off \in Nat /\ Fits(heap, d)
      /\ Owned(TheNode, m, d) \in Slices /\ d = Owned(TheNode, m, d).data
  BY <1>0, <1>2, <1>3, CachedIsSlice, NodusAssumption DEF SameEntries, Cached, Owned
<1>w. w # 0
  BY <1>0, <1>old, LenProperties DEF TypeInv, RecordsOK, WroteOK
<1>6. CASE off + 1 > old.data.len
  <2> DEFINE new == Slice(NewBuf, off + 1)
  <2>1. PICK file : file = [old EXCEPT !.data = new, !.stage = "grown",
                                       !.w = w, !.off = off]
    OBVIOUS
  <2>2. files' = [files EXCEPT ![TheNode][f] = file]
    BY <1>6, <1>old, <2>1 DEF WriteGrow
  <2>3. NewBuf \in Bufs /\ d.buf # NewBuf
    BY <1>5, NewBufIsFree
  <2>4. new.buf = NewBuf /\ new.len = off + 1 /\ off + 1 \in 1 .. MaxLen
    BY <1>5, NodusAssumption DEF Slice
  <2> HIDE DEF new
  <2>5. /\ file.name = m /\ file.data = new /\ file.stage = "grown"
        /\ file.off = off /\ file.w = w /\ file # NoFile
    <3>1. DOMAIN file = DOMAIN old
      BY <2>1
    <3> QED BY <1>old, <1>dom, <2>1, <3>1
  <2>7. Owned(TheNode, m, new) \in Slices'
    <3>1. files'[TheNode][f] = file
      BY <1>0, <1>3, <2>2 DEF TypeInv, RecordsOK, FilesOK
    <3> QED BY <1>3, <2>5, <3>1 DEF Slices, FileSlices, OpenSlots, Owned
  <2>8. \A i \in 1 .. off + 1 :
          heap'[NewBuf][i] = IF i <= d.len THEN heap[d.buf][i] ELSE 0
    BY <1>0, <1>1, <1>3, <1>5, <1>6, <2>4, <2>7, ArrayIsFilled DEF Slice
  <2>9. SameBytes(d)
    BY <1>0, <1>1, <1>2, <1>3, <1>5, CopyStays DEF Cached
  <2>10. \A i \in 1 .. off :
           heap'[NewBuf][i] = IF i <= d.len THEN heap'[d.buf][i] ELSE 0
    BY <1>5, <2>8, <2>9 DEF SameBytes
  <2>11. GrownFrom(heap', file, d)
    BY <1>3, <1>5, <1>6, <2>3, <2>4, <2>5, <2>10 DEF GrownFrom
  <2>12. FilesShow'
    BY <1>0, <1>1, <1>3, <1>4, <1>5, <1>w, <2>2, <2>5, <2>11, SlotChanges
  <2> QED BY <1>0, <1>1, <1>2, <2>12, ContentStays DEF ActsOnFiles
<1>7. CASE ~ (off + 1 > old.data.len)
  <2>1. PICK file : file = [old EXCEPT !.data = old.data, !.stage = "grown",
                                       !.w = w, !.off = off]
    OBVIOUS
  <2>2. files' = [files EXCEPT ![TheNode][f] = file]
    BY <1>7, <1>old, <2>1 DEF WriteGrow
  <2>3. file.name = m /\ file.data = d /\ file.w = w
    BY <1>3, <1>old, <1>dom, <2>1
  <2>4. FilesShow'
    BY <1>0, <1>1, <1>3, <1>4, <1>5, <1>w, <2>2, <2>3, SlotChanges
  <2> QED BY <1>0, <1>1, <1>2, <2>4, ContentStays DEF ActsOnFiles
<1> QED BY <1>6, <1>7

\* A byte is written: content' is what pwrite makes of content.
LEMMA ByteIsWritten ==
  ASSUME Nodes = {TheNode}, TypeInv, NEW m \in CachedKeys(cache[TheNode]),
         CachedKeys(cache'[TheNode]) = CachedKeys(cache[TheNode]),
         \A x \in CachedKeys(cache[TheNode]) \ {m} : Copy(TheNode, x)' = Copy(TheNode, x),
         NEW off \in 0 .. MaxLen - 1, NEW w \in 1 .. MaxWrites, NEW n \in Nat,
         n = IF Cached(m).len > off + 1 THEN Cached(m).len ELSE off + 1,
         Copy(TheNode, m)' =
           [i \in 1 .. n |-> IF i = off + 1 THEN w
                             ELSE IF i <= Cached(m).len THEN Copy(TheNode, m)[i] ELSE 0]
  PROVE  ExpectedFiles!FNext
<1> DEFINE b == Copy(TheNode, m)
           g == ExpectedFiles!Fit(b, n)
<1>1. Len(b) = Cached(m).len /\ m \in Names
  BY CachedIsSlice, SliceBytes DEF Copy, Cached, TypeInv
<1>2. g = [i \in 1 .. n |-> IF i <= Cached(m).len THEN b[i] ELSE 0]
  BY <1>1 DEF ExpectedFiles!Fit
<1> DEFINE new == [g EXCEPT ![off + 1] = w]
<1>3. Copy(TheNode, m)' = new
  <2> HIDE DEF b, g
  <2>1. new = [i \in 1 .. n |-> IF i = off + 1 THEN w ELSE g[i]]
    BY <1>2
  <2>2. \A i \in 1 .. n : g[i] = IF i <= Cached(m).len THEN b[i] ELSE 0
    BY <1>2
  <2>3. Copy(TheNode, m)' =
           [i \in 1 .. n |-> IF i = off + 1 THEN w
                             ELSE IF i <= Cached(m).len THEN b[i] ELSE 0]
    BY DEF b
  <2> HIDE DEF new
  <2> QED BY <2>1, <2>2, <2>3
<1>4. n = ExpectedFiles!Longer(Len(b), off + 1)
  BY <1>1 DEF ExpectedFiles!Longer
<1>5. new = [ExpectedFiles!Fit(b, ExpectedFiles!Longer(Len(b), off + 1)) EXCEPT ![off + 1] = w]
  BY <1>4
<1> HIDE DEF new, b
<1>6. Content' = [Content EXCEPT ![m] = new]
  <2>1. \A x \in CachedKeys(cache[TheNode]) :
          Copy(TheNode, x)' = IF x = m THEN new ELSE Copy(TheNode, x)
    BY <1>3
  <2> QED BY <2>1 DEF Content
<1>7. Content[m] = b /\ m \in DOMAIN Content
  BY DEF Content, b
<1>8. ExpectedFiles!Pwrite(m, off, w)
  BY <1>5, <1>6, <1>7 DEF ExpectedFiles!Pwrite, ExpectedFiles!Files, Content
<1> QED BY <1>1, <1>8 DEF ExpectedFiles!FNext

\* The slices of different files have no byte in common.
LEMMA OtherArray ==
  ASSUME Nodes = {TheNode}, AloneInv, NEW x \in Slices, NEW f \in OpenSlots(TheNode),
         x.data.buf = files[TheNode][f].data.buf, x.data.len # 0
  PROVE  x.name = files[TheNode][f].name
<1> DEFINE y == Owned(TheNode, files[TheNode][f].name, files[TheNode][f].data)
<1>1. y \in Slices /\ y.data = files[TheNode][f].data /\ y.name = files[TheNode][f].name
  BY DEF Slices, FileSlices, Owned
<1> HIDE DEF y
<1> QED BY <1>1 DEF AloneInv, WriteInv, Apart

LEMMA AloneWriteCopy ==
  ASSUME Nodes = {TheNode}, AloneInv, NEW f \in OpenSlots(TheNode), WriteCopy(TheNode, f)
  PROVE  ActsOnFiles
<1>0. TypeInv /\ FilesShow /\ Counted(cache[TheNode])
  BY DEF AloneInv, MemoryInv
<1>old. PICK old, m : old = files[TheNode][f] /\ m = old.name
  OBVIOUS
<1> DEFINE d == Cached(m)
           k == old.off + 1
           w == old.w
<1>1. /\ f \in Slots /\ old \in FileType /\ m \in Names
      /\ m \in CachedKeys(cache[TheNode])
      /\ old.data = d \/ GrownFrom(heap, old, d)
      /\ w # 0 /\ old.stage = "grown" /\ old.off < old.data.len
  <2>1. old.stage = "grown"
    BY <1>old DEF WriteCopy
  <2>2. old.off < old.data.len
    BY <1>old, <2>1 DEF AloneInv, WriteInv, WritesFit, FitsUnless
  <2>3. f \in Slots /\ old \in FileType /\ m \in Names
    BY <1>0, <1>old, FilesSlice
  <2>4. /\ m \in CachedKeys(cache[TheNode])
        /\ old.data = d \/ GrownFrom(heap, old, d)
        /\ w # 0
    BY <1>0, <1>old, <2>1 DEF FilesShow, FileShows
  <2> QED BY <2>1, <2>2, <2>3, <2>4
<1>2. /\ old.off \in Nat /\ old.data.len \in 0 .. MaxLen /\ MaxLen \in Nat
      /\ old.off \in 0 .. MaxLen - 1 /\ w \in 1 .. MaxWrites
      /\ d.len \in 0 .. MaxLen
  BY <1>0, <1>1, CachedIsSlice, NodusAssumption DEF FileType, SliceType, Byte
<1>3. RecordsOK' /\ PutsByte(TheNode, f)
  BY <1>0, <1>1, <1>old, WriteCopyDoes
<1>4. UNCHANGED cache
  BY DEF WriteCopy
<1>5. PICK file : /\ file = [old EXCEPT !.stage = "copied"]
                  /\ files' = [files EXCEPT ![TheNode][f] = file]
  <2>1. PICK file : /\ file = IF old.off > old.data.len THEN Ended(old)
                             ELSE [old EXCEPT !.stage = "copied"]
                    /\ files' = [files EXCEPT ![TheNode][f] = file]
    BY <1>old DEF WriteCopy
  <2>2. ~ (old.off > old.data.len)
    BY <1>1, <1>2
  <2> QED BY <2>1, <2>2
<1>6. /\ file.name = m /\ file.data = old.data /\ file.stage = "copied"
      /\ file.off = old.off /\ file.w = w
  BY <1>old, <1>1, <1>5 DEF FileType
<1>7. ASSUME NEW x \in Slices'
      PROVE  /\ x \in Slices
             /\ \A i \in 1 .. x.data.len :
                  heap'[x.data.buf][i] =
                    IF x.data.buf = old.data.buf /\ i = k THEN w
                    ELSE heap[x.data.buf][i]
  BY <1>0, <1>3, <1>old, PutsByteKeeps
<1>8. ASSUME NEW x \in Slices', x.name # m PROVE SameBytes(x.data)
  <2>1. x \in Slices /\ (x.data.len # 0 => x.data.buf # old.data.buf)
    BY <1>7, <1>8, <1>old, OtherArray
  <2>2. x.data.len \in Nat
    BY <1>0, <2>1, NodusAssumption DEF TypeInv, Fits, SliceType
  <2> QED BY <1>7, <2>1, <2>2 DEF SameBytes
<1>9. ASSUME NEW x \in CachedKeys(cache[TheNode])
      PROVE  /\ Owned(TheNode, x, Cached(x)) \in Slices'
             /\ Owned(TheNode, x, Cached(x)).data = Cached(x)
             /\ Owned(TheNode, x, Cached(x)).name = x
             /\ Cached(x)' = Cached(x) /\ Cached(x).len \in Nat
  BY <1>0, <1>4, CachedIsSlice, CachedIsSliceNext DEF Owned, Cached
<1>10. ASSUME NEW x \in CachedKeys(cache[TheNode]), x # m
       PROVE  SameBytes(Cached(x)) /\ Copy(TheNode, x)' = Copy(TheNode, x)
  <2>1. SameBytes(Cached(x))
    BY <1>8, <1>9, <1>10
  <2> QED BY <1>4, <2>1 DEF SameBytes, Copy, Bytes, BytesIn, Cached
<1>11. ASSUME NEW g \in OpenSlots(TheNode)', g # f PROVE FileShows(g)'
  <2>1. PICK other, q : other = files[TheNode][g] /\ q = other.name
    OBVIOUS
  <2>2. g \in OpenSlots(TheNode) /\ files'[TheNode][g] = other
    BY <1>0, <1>1, <1>5, <1>11, <2>1 DEF OpenSlots, TypeInv, RecordsOK, FilesOK
  <2>3. /\ q # m /\ q \in CachedKeys(cache[TheNode])
        /\ other.data = Cached(q) \/ GrownFrom(heap, other, Cached(q))
        /\ other.stage # "idle" => other.w # 0
        /\ other \in FileType
    BY <1>0, <1>11, <1>old, <2>1, <2>2, OpenFile
       DEF AloneInv, WriteInv, OneFilePerName, FilesShow, FileShows, TypeInv, RecordsOK
  <2>4. SameBytes(Cached(q)) /\ Cached(q).len \in Nat /\ other.off \in Nat
    BY <1>9, <1>10, <2>3, NodusAssumption DEF FileType
  <2>5. SameBytes(other.data)
    <3> DEFINE x == Owned(TheNode, q, other.data)
    <3>1. x \in Slices' /\ x.name = q /\ x.data = other.data
      BY <1>11, <2>1, <2>2 DEF Slices, FileSlices, Owned
    <3> HIDE DEF x
    <3>2. SameBytes(x.data)
      BY <1>8, <2>3, <3>1
    <3> QED BY <3>1, <3>2
  <2>6. GrownFrom(heap, other, Cached(q)) => GrownFrom(heap', other, Cached(q))
    BY <2>4, <2>5 DEF GrownFrom, SameBytes
  <2>7. Cached(q)' = Cached(q) /\ q \in CachedKeys(cache'[TheNode])
    BY <1>4, <2>3 DEF Cached
  <2> QED BY <2>1, <2>2, <2>3, <2>6, <2>7 DEF FileShows
<1>12. \A i \in 1 .. d.len :
         heap'[d.buf][i] = IF d.buf = old.data.buf /\ i = k THEN w ELSE heap[d.buf][i]
  BY <1>1, <1>7, <1>9
<1>13. f \in OpenSlots(TheNode)' => FileShows(f)'
  <2> SUFFICES ASSUME f \in OpenSlots(TheNode)' PROVE FileShows(f)'
    OBVIOUS
  <2>1. files'[TheNode][f] = file
    BY <1>0, <1>1, <1>5 DEF TypeInv, RecordsOK, FilesOK
  <2>2. Cached(m)' = Cached(m) /\ m \in CachedKeys(cache'[TheNode])
    BY <1>1, <1>4 DEF Cached
  <2>3. ASSUME GrownFrom(heap, old, d) PROVE GrownFrom(heap', file, d)
    <3> DEFINE x == Owned(TheNode, m, old.data)
    <3>1. x \in Slices' /\ x.data = old.data
      BY <1>6, <2>1 DEF Slices, FileSlices, Owned
    <3> HIDE DEF x
    <3>2. \A i \in 1 .. old.data.len :
            heap'[old.data.buf][i] = IF i = k THEN w ELSE heap[old.data.buf][i]
      BY <1>7, <3>1
    <3>3. \A i \in 1 .. d.len : heap'[d.buf][i] = heap[d.buf][i]
      BY <1>12, <2>3 DEF GrownFrom
    <3> HIDE DEF d, w
    <3> QED BY <1>2, <1>6, <2>3, <3>2, <3>3 DEF GrownFrom
  <2> QED BY <1>1, <1>6, <2>1, <2>2, <2>3 DEF FileShows
<1>14. FilesShow'
  BY <1>11, <1>13 DEF FilesShow
<1>15. CachedKeys(cache'[TheNode]) = CachedKeys(cache[TheNode]) /\ Cached(m)' = d
  BY <1>4 DEF Cached
<1>16. CASE GrownFrom(heap, old, d)
  <2>1. SameBytes(d)
    BY <1>12, <1>16 DEF GrownFrom, SameBytes
  <2>2. Copy(TheNode, m)' = Copy(TheNode, m)
    BY <1>4, <2>1 DEF SameBytes, Copy, Bytes, BytesIn, Cached
  <2>3. Content' = Content
    BY <1>10, <1>15, <2>2 DEF Content
  <2> QED BY <1>0, <1>4, <1>14, <2>3 DEF ActsOnFiles
<1>17. CASE old.data = d
  <2>1. d.len > old.off /\ d.len \in Nat
    BY <1>1, <1>2, <1>17
  <2>2. Copy(TheNode, m) = [i \in 1 .. d.len |-> heap[d.buf][i]]
    BY DEF Copy, Bytes, BytesIn, Cached
  <2>3. Copy(TheNode, m)' = [i \in 1 .. d.len |-> heap'[d.buf][i]]
    BY <1>4 DEF Copy, Bytes, BytesIn, Cached
  <2>4. \A i \in 1 .. d.len :
          heap'[d.buf][i] = IF i = old.off + 1 THEN w
                            ELSE IF i <= d.len THEN Copy(TheNode, m)[i] ELSE 0
    BY <1>12, <1>17, <2>2
  <2>5. Copy(TheNode, m)' =
          [i \in 1 .. d.len |-> IF i = old.off + 1 THEN w
                                ELSE IF i <= d.len THEN Copy(TheNode, m)[i] ELSE 0]
    BY <2>3, <2>4
  <2>6. d.len = IF Cached(m).len > old.off + 1 THEN Cached(m).len ELSE old.off + 1
    BY <1>2, <2>1
  <2>7. ExpectedFiles!FNext
    BY <1>0, <1>1, <1>2, <1>10, <1>15, <2>1, <2>5, <2>6, ByteIsWritten
  <2> QED BY <1>0, <1>4, <1>14, <2>7 DEF ActsOnFiles
<1> QED BY <1>1, <1>16, <1>17

\* A step that puts the slice e into the cache, and in place of the File object that
\* is open for the name an idle one that holds e.
LEMMA EntryAndSlot ==
  ASSUME Nodes = {TheNode}, AloneInv, RecordsOK', LeavesBytes,
         NEW f \in OpenSlots(TheNode), NEW m, m = files[TheNode][f].name,
         NEW e, OneEntry(m, e),
         NEW file, files' = [files EXCEPT ![TheNode][f] = file],
         file.name = m, file.data = e, file.stage = "idle"
  PROVE  /\ FilesShow'
         /\ \A x \in CachedKeys(cache[TheNode]) \ {m} : Copy(TheNode, x)' = Copy(TheNode, x)
<1>0. TypeInv /\ FilesShow
  BY DEF AloneInv, MemoryInv
<1>1. \A g \in OpenSlots(TheNode) \ {f} : Stays(files[TheNode][g].name)
  <2> SUFFICES ASSUME NEW g \in OpenSlots(TheNode) \ {f}
               PROVE  Stays(files[TheNode][g].name)
    OBVIOUS
  <2>1. files[TheNode][g].name # m
    BY DEF AloneInv, WriteInv, OneFilePerName
  <2> QED BY <1>0, <2>1, OpenNameIsCached, OtherEntriesStay
<1>2. /\ f \in Slots
      /\ m \in CachedKeys(cache'[TheNode]) /\ cache'[TheNode].items[m] = e
  BY DEF OpenSlots, OneEntry, Cached
<1>3. FilesShow'
  BY <1>0, <1>1, <1>2, SlotChanges
<1>4. ASSUME NEW x \in CachedKeys(cache[TheNode]) \ {m}
      PROVE  Copy(TheNode, x)' = Copy(TheNode, x)
  <2>1. x \in CachedKeys(cache'[TheNode]) /\ Cached(x)' = Cached(x)
    BY DEF OneEntry
  <2> QED BY <1>0, <2>1, CopyStays
<1> QED BY <1>3, <1>4

LEMMA AloneWritePublish ==
  ASSUME Nodes = {TheNode}, RoomForNames, AloneInv, NEW f \in OpenSlots(TheNode),
         WritePublish(TheNode, f)
  PROVE  ActsOnFiles
<1>0. TypeInv /\ FilesShow /\ Counted(cache[TheNode])
  BY DEF AloneInv, MemoryInv
<1>old. PICK old, m, e : old = files[TheNode][f] /\ m = old.name /\ e = old.data
  OBVIOUS
<1> DEFINE d == Cached(m)
           w == old.w
<1>1. /\ old \in FileType /\ m \in Names /\ m \in CachedKeys(cache[TheNode])
      /\ e = d \/ GrownFrom(heap, old, d)
      /\ w # 0 /\ old.stage = "copied" /\ e \in SliceType
      /\ Owned(TheNode, m, e) \in Slices
  <2>1. old.stage = "copied"
    BY <1>old DEF WritePublish
  <2>2. old \in FileType /\ m \in Names /\ e \in SliceType /\ Owned(TheNode, m, e) \in Slices
    BY <1>0, <1>old, FilesSlice DEF Fits
  <2>3. /\ m \in CachedKeys(cache[TheNode])
        /\ e = d \/ GrownFrom(heap, old, d)
        /\ w # 0
    BY <1>0, <1>old, <2>1 DEF FilesShow, FileShows
  <2> QED BY <2>1, <2>2, <2>3
<1>2. RecordsOK' /\ LeavesBytes
  BY <1>0, WritePublishDoes
<1>3. Put(TheNode, m, e)
  BY <1>old DEF WritePublish
<1>4. OneEntry(m, e) /\ Counted(cache'[TheNode])
  BY <1>0, <1>1, <1>3, AlonePuts
<1>5. PICK file : file = Ended(old) /\ files' = [files EXCEPT ![TheNode][f] = file]
  BY <1>old DEF WritePublish
<1>6. file.name = m /\ file.data = e /\ file.stage = "idle"
  BY <1>old, <1>1, <1>5, EndedFile
<1>7. /\ FilesShow'
      /\ \A x \in CachedKeys(cache[TheNode]) \ {m} : Copy(TheNode, x)' = Copy(TheNode, x)
  BY <1>2, <1>4, <1>old, <1>5, <1>6, EntryAndSlot
<1>8. CASE e = d
  <2>1. SameEntries
    BY <1>1, <1>4, <1>8 DEF OneEntry, SameEntries, Cached
  <2> QED BY <1>0, <1>2, <1>4, <1>7, <2>1, ContentStays DEF ActsOnFiles
<1>9. CASE GrownFrom(heap, old, d)
  <2>1. /\ old.off \in Nat /\ MaxLen \in Nat /\ e.len = old.off + 1
        /\ d.len \in 0 .. MaxLen /\ d.len <= old.off
        /\ old.off \in 0 .. MaxLen - 1 /\ w \in 1 .. MaxWrites
    <3>1. /\ old.off \in Nat /\ e.len \in 0 .. MaxLen /\ MaxLen \in Nat
          /\ w \in 1 .. MaxWrites /\ d.len \in 0 .. MaxLen
      BY <1>0, <1>1, CachedIsSlice, NodusAssumption DEF FileType, SliceType, Byte
    <3>2. e.len = old.off + 1 /\ d.len <= old.off
      BY <1>old, <1>9 DEF GrownFrom
    <3> QED BY <3>1, <3>2
  <2>2. heap[e.buf][old.off + 1] = w
    BY <1>old, <1>1 DEF AloneInv, WriteInv, WritesFit, FitsUnless
  <2>3. \A i \in 1 .. old.off : heap[e.buf][i] = IF i <= d.len THEN heap[d.buf][i] ELSE 0
    BY <1>old, <1>9 DEF GrownFrom
  <2>4. /\ m \in CachedKeys(cache'[TheNode])
        /\ CachedKeys(cache'[TheNode]) = CachedKeys(cache[TheNode]) /\ Cached(m)' = e
    BY <1>1, <1>4 DEF OneEntry
  <2>5. SameBytes(e)
    <3> DEFINE x == Owned(TheNode, m, e)
    <3>1. Owned(TheNode, m, Cached(m)') \in Slices'
      BY <2>4, CachedIsSliceNext
    <3>2. x \in Slices' /\ x \in Slices /\ x.data = e
      BY <1>1, <2>4, <3>1 DEF Owned
    <3> HIDE DEF x
    <3>3. SameBytes(x.data)
      BY <1>0, <1>2, <3>2, BytesAreLeft
    <3> QED BY <3>2, <3>3
  <2>6. Copy(TheNode, m) = [i \in 1 .. d.len |-> heap[d.buf][i]]
    BY DEF Copy, Bytes, BytesIn, Cached
  <2>7. Copy(TheNode, m)' = [i \in 1 .. e.len |-> heap'[e.buf][i]]
    BY <2>4 DEF Copy, Bytes, BytesIn, Cached
  <2>8. \A i \in 1 .. e.len :
          heap'[e.buf][i] = IF i = old.off + 1 THEN w
                            ELSE IF i <= d.len THEN Copy(TheNode, m)[i] ELSE 0
    <3> HIDE DEF d, w
    <3> QED BY <2>1, <2>2, <2>3, <2>5, <2>6 DEF SameBytes
  <2>9. Copy(TheNode, m)' =
          [i \in 1 .. e.len |-> IF i = old.off + 1 THEN w
                                ELSE IF i <= d.len THEN Copy(TheNode, m)[i] ELSE 0]
    BY <2>7, <2>8
  <2>10. e.len = (IF Cached(m).len > old.off + 1 THEN Cached(m).len ELSE old.off + 1)
         /\ e.len \in Nat
    BY <2>1
  <2>11. ExpectedFiles!FNext
    <3>1. PICK k \in Nat, off \in 0 .. MaxLen - 1, b \in 1 .. MaxWrites :
            k = e.len /\ off = old.off /\ b = w
      BY <2>1, <2>10
    <3>2. /\ k = IF Cached(m).len > off + 1 THEN Cached(m).len ELSE off + 1
          /\ Copy(TheNode, m)' =
               [i \in 1 .. k |-> IF i = off + 1 THEN b
                                ELSE IF i <= Cached(m).len THEN Copy(TheNode, m)[i] ELSE 0]
      BY <2>9, <2>10, <3>1
    <3> QED BY <1>0, <1>1, <1>7, <2>4, <3>2, ByteIsWritten
  <2> QED BY <1>4, <1>7, <2>11 DEF ActsOnFiles
<1> QED BY <1>1, <1>8, <1>9

\* A file is cut or extended: content' is what truncate makes of content.
LEMMA FileIsResized ==
  ASSUME Nodes = {TheNode}, TypeInv, NEW m \in CachedKeys(cache[TheNode]),
         CachedKeys(cache'[TheNode]) = CachedKeys(cache[TheNode]),
         \A x \in CachedKeys(cache[TheNode]) \ {m} : Copy(TheNode, x)' = Copy(TheNode, x),
         NEW size \in 0 .. MaxLen,
         Copy(TheNode, m)' =
           [i \in 1 .. size |-> IF i <= Cached(m).len THEN Copy(TheNode, m)[i] ELSE 0]
  PROVE  ExpectedFiles!FNext
<1> DEFINE b == Copy(TheNode, m)
           new == ExpectedFiles!Fit(b, size)
<1>1. Len(b) = Cached(m).len /\ m \in Names
  BY CachedIsSlice, SliceBytes DEF Copy, Cached, TypeInv
<1>2. Copy(TheNode, m)' = new
  BY <1>1 DEF ExpectedFiles!Fit
<1> HIDE DEF new
<1>3. Content' = [Content EXCEPT ![m] = new]
  <2>1. \A x \in CachedKeys(cache[TheNode]) :
          Copy(TheNode, x)' = IF x = m THEN new ELSE Copy(TheNode, x)
    BY <1>2
  <2> QED BY <2>1 DEF Content
<1>4. Content[m] = b /\ m \in DOMAIN Content
  BY DEF Content
<1>5. ExpectedFiles!Truncate(m, size)
  BY <1>3, <1>4 DEF ExpectedFiles!Truncate, ExpectedFiles!Files, Content, new
<1> QED BY <1>1, <1>5 DEF ExpectedFiles!FNext

LEMMA AloneSetattr ==
  ASSUME Nodes = {TheNode}, RoomForNames, Roomy, AloneInv, NEW f \in OpenSlots(TheNode),
         NEW size \in 0 .. MaxLen, Setattr(TheNode, f, size)
  PROVE  ActsOnFiles
<1>0. TypeInv /\ FilesShow /\ Counted(cache[TheNode])
  BY DEF AloneInv, MemoryInv
<1>old. PICK old, m : old = files[TheNode][f] /\ m = old.name
  OBVIOUS
<1> DEFINE d == Cached(m)
<1>1. /\ old \in FileType /\ m \in Names /\ m \in CachedKeys(cache[TheNode])
      /\ old.data = d /\ old.stage = "idle" /\ Fits(heap, d)
      /\ Owned(TheNode, m, d) \in Slices
  BY <1>0, <1>old, FilesSlice, IdleShowsCached, OpenNameIsCached DEF Setattr, Idle
<1>2. d.len \in Nat /\ d.len \in 0 .. MaxLen /\ size \in Nat
  BY <1>0, <1>1, CachedIsSlice, NodusAssumption
<1>3. PICK e : /\ e = CASE size < old.data.len -> Slice(old.data.buf, size)
                        [] size > old.data.len -> Slice(NewBuf, size)
                        [] OTHER -> old.data
               /\ files' = [files EXCEPT ![TheNode][f].data = e]
               /\ Put(TheNode, old.name, e)
  <2> DEFINE e == CASE size < old.data.len -> Slice(old.data.buf, size)
                    [] size > old.data.len -> Slice(NewBuf, size)
                    [] OTHER -> old.data
  <2>1. /\ files' = [files EXCEPT ![TheNode][f].data = e]
        /\ Put(TheNode, old.name, e)
    BY <1>old DEF Setattr
  <2> QED BY <2>1
<1>4. /\ files' = [files EXCEPT ![TheNode][f].data = e]
      /\ Put(TheNode, m, e)
  BY <1>old, <1>3
<1>5. /\ RecordsOK' /\ LeavesBytes
      /\ size > d.len => Fills(TheNode, m, NewBuf, Bytes(d), size)
  BY <1>0, <1>old, <1>1, SetattrDoes
<1>6. /\ size < d.len => e = Slice(d.buf, size)
      /\ size > d.len => e = Slice(NewBuf, size)
      /\ size = d.len => e = d
      /\ NewBuf \in Bufs
  BY <1>1, <1>2, <1>3, NewBufIsFree
<1>7. e \in SliceType /\ e.len = size
  <2> HIDE DEF d
  <2>1. CASE size < d.len
    BY <1>1, <1>2, <1>6, <2>1 DEF Fits, SliceType, Slice
  <2>2. CASE size > d.len
    BY <1>6, <2>2 DEF SliceType, Slice
  <2>3. CASE size = d.len
    BY <1>1, <1>6, <2>3 DEF Fits
  <2> QED BY <1>2, <2>1, <2>2, <2>3
<1>8. OneEntry(m, e) /\ Counted(cache'[TheNode])
  BY <1>0, <1>1, <1>4, <1>7, AlonePuts
<1>9. PICK file : file = [old EXCEPT !.data = e] /\ files' = [files EXCEPT ![TheNode][f] = file]
  BY <1>old, <1>4
<1>10. file.name = m /\ file.data = e /\ file.stage = "idle"
  BY <1>old, <1>1, <1>9 DEF FileType
<1>11. /\ FilesShow'
       /\ \A x \in CachedKeys(cache[TheNode]) \ {m} : Copy(TheNode, x)' = Copy(TheNode, x)
  BY <1>5, <1>8, <1>old, <1>9, <1>10, EntryAndSlot
<1>12. /\ m \in CachedKeys(cache'[TheNode])
       /\ CachedKeys(cache'[TheNode]) = CachedKeys(cache[TheNode]) /\ Cached(m)' = e
  BY <1>1, <1>8 DEF OneEntry
<1>13. Owned(TheNode, m, e) \in Slices'
  <2>1. Owned(TheNode, m, Cached(m)') \in Slices'
    BY <1>12, CachedIsSliceNext
  <2> QED BY <1>12, <2>1
<1>14. \A i \in 1 .. size : heap'[e.buf][i] = IF i <= d.len THEN heap[d.buf][i] ELSE 0
  <2>1. CASE size > d.len
    <3>1. size \in 1 .. MaxLen /\ e.buf = NewBuf
      BY <1>2, <1>6, <2>1 DEF Slice
    <3> QED BY <1>0, <1>1, <1>5, <1>13, <2>1, <3>1, ArrayIsFilled
  <2>2. CASE size <= d.len /\ size # 0
    <3> DEFINE x == Owned(TheNode, m, e)
               y == Owned(TheNode, m, d)
    <3>1. e.buf = d.buf
      BY <1>2, <1>6, <2>2 DEF Slice
    <3>2. x \in Slices' /\ y \in Slices /\ x.data = e /\ y.data = d
      BY <1>1, <1>13 DEF Owned
    <3> HIDE DEF x, y
    <3>3. SameBytes(x.data)
      BY <1>0, <1>5, <3>1, <3>2, BytesAreLeft
    <3> QED BY <1>2, <1>7, <2>2, <3>1, <3>2, <3>3 DEF SameBytes
  <2> QED BY <1>2, <2>1, <2>2
<1>15. Copy(TheNode, m) = [i \in 1 .. d.len |-> heap[d.buf][i]]
  BY DEF Copy, Bytes, BytesIn, Cached
<1>16. Copy(TheNode, m)' = [i \in 1 .. size |-> heap'[e.buf][i]]
  BY <1>7, <1>12 DEF Copy, Bytes, BytesIn, Cached
<1>17. Copy(TheNode, m)' =
         [i \in 1 .. size |-> IF i <= d.len THEN Copy(TheNode, m)[i] ELSE 0]
  <2> HIDE DEF d
  <2>1. \A i \in 1 .. size :
          heap'[e.buf][i] = IF i <= d.len THEN Copy(TheNode, m)[i] ELSE 0
    BY <1>2, <1>14, <1>15
  <2> QED BY <1>16, <2>1
<1>18. ExpectedFiles!FNext
  BY <1>0, <1>1, <1>11, <1>12, <1>17, FileIsResized
<1> QED BY <1>8, <1>11, <1>18 DEF ActsOnFiles

LEMMA AloneRemoveFile ==
  ASSUME Nodes = {TheNode}, "unlink_open" \notin Allowed, AloneInv, NEW m \in Names,
         RemoveFile(TheNode, m)
  PROVE  ActsOnFiles
<1>0. TypeInv /\ FilesShow /\ Counted(cache[TheNode])
  BY DEF AloneInv, MemoryInv
<1>1. RecordsOK' /\ LeavesBytes
  BY <1>0, RemoveFileDoes
<1>2. /\ CachedKeys(cache'[TheNode]) = CachedKeys(cache[TheNode]) \ {m}
      /\ \A x \in CachedKeys(cache'[TheNode]) : Cached(x)' = Cached(x)
      /\ Counted(cache'[TheNode])
  BY <1>0, AloneDeletes DEF RemoveFile
<1>3. UNCHANGED files /\ m \in CachedKeys(cache[TheNode])
  BY DEF RemoveFile, Holds
<1>4. ASSUME NEW f \in OpenSlots(TheNode)' PROVE FileShows(f)'
  <2>1. PICK file : files[TheNode][f] = file
    OBVIOUS
  <2>2. f \in OpenSlots(TheNode) /\ files'[TheNode][f] = file
    BY <1>3, <2>1 DEF OpenSlots
  <2>3. file.name \in CachedKeys(cache[TheNode]) /\ file.name # m
    BY <1>0, <2>1, <2>2, OpenNameIsCached DEF RemoveFile
  <2>4. file.name \in CachedKeys(cache'[TheNode]) /\ Cached(file.name)' = Cached(file.name)
    BY <1>2, <2>3
  <2> QED BY <1>0, <1>1, <2>1, <2>2, <2>4, StillShows
<1>5. FilesShow'
  BY <1>4 DEF FilesShow
<1>6. \A x \in CachedKeys(cache'[TheNode]) : Copy(TheNode, x)' = Copy(TheNode, x)
  BY <1>0, <1>1, <1>2, CopyStays
<1>7. Content' = [x \in CachedKeys(cache[TheNode]) \ {m} |-> Content[x]]
  BY <1>2, <1>6 DEF Content
<1>8. ExpectedFiles!Unlink(m)
  BY <1>3, <1>7 DEF ExpectedFiles!Unlink, ExpectedFiles!Files, Content
<1> QED BY <1>2, <1>5, <1>8 DEF ActsOnFiles, ExpectedFiles!FNext

LEMMA AloneCreate ==
  ASSUME Nodes = {TheNode}, RoomForNames, AloneInv, NEW c \in lookups, Create(c)
  PROVE  ActsOnFiles
<1>0. TypeInv /\ FilesShow /\ Counted(cache[TheNode])
  BY DEF AloneInv, MemoryInv
<1>m. PICK m, d : m = c.name /\ d = Slice(0, 0)
  OBVIOUS
<1>1. /\ c.node = TheNode /\ m \in Names
      /\ m \notin CachedKeys(cache[TheNode]) /\ m \notin OpenNames
  <2>1. LoneLookup(c) /\ c.phase = "absent"
    BY DEF Create, AloneInv, CreateInv, LocalInv, NobodyElse
  <2> QED BY <1>m, <2>1 DEF LoneLookup, AloneInv, CreateInv, Known
<1>2. RecordsOK' /\ LeavesBytes
  BY <1>0, CreateDoes
<1>3. OneEntry(m, d) /\ Counted(cache'[TheNode])
  <2>1. Put(TheNode, m, d)
    BY <1>m, <1>1 DEF Create
  <2> QED BY <1>0, <1>m, <1>1, <2>1, AlonePuts, TheEmptySlice
<1> DEFINE file == [name |-> m, data |-> d, stage |-> "idle", w |-> 0, off |-> 0]
<1>4. PICK f \in Slots : files' = [files EXCEPT ![TheNode][f] = file]
  BY <1>m, <1>1 DEF Create
<1>5. file.name = m /\ file.data = d /\ file.stage = "idle"
  OBVIOUS
<1> HIDE DEF file
<1>6. \A g \in OpenSlots(TheNode) : Stays(files[TheNode][g].name)
  <2> SUFFICES ASSUME NEW g \in OpenSlots(TheNode) PROVE Stays(files[TheNode][g].name)
    OBVIOUS
  <2>1. files[TheNode][g].name # m
    BY <1>1 DEF OpenNames
  <2> QED BY <1>0, <1>3, <2>1, OpenNameIsCached, OtherEntriesStay
<1>7. /\ CachedKeys(cache'[TheNode]) = CachedKeys(cache[TheNode]) \cup {m}
      /\ m \in CachedKeys(cache'[TheNode]) /\ cache'[TheNode].items[m] = d
      /\ \A x \in CachedKeys(cache[TheNode]) : Cached(x)' = Cached(x)
  BY <1>1, <1>3 DEF OneEntry, Cached
<1>8. FilesShow'
  BY <1>0, <1>2, <1>4, <1>5, <1>6, <1>7, SlotChanges
<1>9. \A x \in CachedKeys(cache[TheNode]) : Copy(TheNode, x)' = Copy(TheNode, x)
  BY <1>0, <1>2, <1>7, CopyStays
<1>10. Copy(TheNode, m)' = << >>
  <2>1. d.len = 0
    BY <1>m, TheEmptySlice
  <2>2. Copy(TheNode, m)' = [i \in 1 .. 0 |-> heap'[d.buf][i]]
    BY <1>7, <2>1 DEF Copy, Bytes, BytesIn
  <2> QED BY <2>2
<1>11. Content' = [x \in CachedKeys(cache[TheNode]) \cup {m} |->
                     IF x = m THEN << >> ELSE Content[x]]
  BY <1>1, <1>7, <1>9, <1>10 DEF Content
<1>12. ExpectedFiles!Creat(m)
  BY <1>1, <1>11 DEF ExpectedFiles!Creat, ExpectedFiles!Files, Content
<1> QED BY <1>1, <1>3, <1>8, <1>12 DEF ActsOnFiles, ExpectedFiles!FNext

-----------------------------------------------------------------------------
(* The node *)

LEMMA AloneActs ==
  ASSUME Memory, RoomForNames, Nodes = {TheNode},
         "overlap" \notin Allowed, "unlink_open" \notin Allowed, "restart" \notin Allowed,
         AloneInv, Next
  PROVE  ActsOnFiles
<1>0. TypeInv /\ Roomy /\ LocalInv
  BY MemoryIsRoomy DEF AloneInv, CreateInv
<1>1. ASSUME NEW m \in Names, LookupHit(TheNode, m) \/ RemoveFile(TheNode, m)
      PROVE  ActsOnFiles
  BY <1>1, AloneLookupHit, AloneRemoveFile
<1>2. ASSUME NEW m \in Names, NEW create \in BOOLEAN, LookupMiss(TheNode, m, create)
      PROVE  ActsOnFiles
  BY <1>0, <1>2, LookupMissDoes, AloneElsewhere DEF LookupMiss
<1>3. ASSUME NEW f \in OpenSlots(TheNode), ReadAll(TheNode, f) PROVE ActsOnFiles
  BY <1>3, AloneReadAll
<1>4. ASSUME NEW f \in OpenSlots(TheNode), NEW off \in 0 .. MaxLen - 1,
             WriteGrow(TheNode, f, off)
      PROVE  ActsOnFiles
  BY <1>0, <1>4, AloneWriteGrow
<1>5. ASSUME NEW f \in OpenSlots(TheNode), NEW last \in BOOLEAN, Flush(TheNode, f, last)
      PROVE  ActsOnFiles
  BY <1>5, AloneFlush
<1>6. ASSUME NEW f \in OpenSlots(TheNode), NEW size \in 0 .. MaxLen,
             Setattr(TheNode, f, size)
      PROVE  ActsOnFiles
  BY <1>0, <1>6, AloneSetattr
<1>7. ASSUME NEW f \in OpenSlots(TheNode), FileStep(TheNode, f) PROVE ActsOnFiles
  BY <1>7, AloneWriteCopy, AloneWritePublish DEF FileStep
<1>8. ASSUME NEW c \in lookups, LookupStep(c) \/ FetchFails(c) \/ Stall(c)
      PROVE  ActsOnFiles
  <2>1. c.phase \in {"choosing", "absent"} /\ c.todo = {}
    BY <1>0 DEF LocalInv, NobodyElse, LoneLookup
  <2>2. LookupFails(c) \/ Create(c)
    BY <1>8, <2>1 DEF LookupStep, Ask, Serve, FetchByte, FetchDone, FetchFails, Stall
  <2>3. CASE LookupFails(c)
    BY <1>0, <2>3, LookupFailsDoes, AloneElsewhere DEF LookupFails
  <2>4. CASE Create(c)
    BY <2>4, AloneCreate
  <2> QED BY <2>2, <2>3, <2>4
<1>9. ASSUME NEW b \in casts, Broadcast(b) PROVE ActsOnFiles
  BY <1>0, <1>9, BroadcastDoes, AloneElsewhere DEF Broadcast
<1>10. sends = {}
  BY <1>0 DEF LocalInv, NobodyElse
<1>11. ASSUME NEW n \in Nodes, NEW p \in Nodes, Connect(n, p) \/ Disconnect(n, p)
       PROVE  ActsOnFiles
  <2>1. UNCHANGED <<cache, files>>
    BY <1>11 DEF Connect, Disconnect
  <2> QED BY <1>0, <1>11, <2>1, DisconnectDoes, AloneElsewhere
<1>12. ~ Restart(TheNode)
  BY DEF Restart
<1>13. ASSUME Request(TheNode) PROVE ActsOnFiles
  BY <1>1, <1>2, <1>3, <1>4, <1>5, <1>6, <1>13 DEF Request
<1> QED BY <1>7, <1>8, <1>9, <1>10, <1>11, <1>12, <1>13 DEF Next

LEMMA AloneInvKept ==
  ASSUME Memory, RoomForNames, Nodes = {TheNode},
         "overlap" \notin Allowed, "reopen" \notin Allowed,
         "unlink_open" \notin Allowed, "restart" \notin Allowed,
         AloneInv, [Next]_vars
  PROVE  AloneInv' /\ (Content' = Content \/ ExpectedFiles!FNext)
<1>1. MemoryInv' /\ CreateInv'
  BY StepKeepsMemory, CreateInvKept DEF AloneInv
<1>2. CASE Next
  <2>1. ActsOnFiles
    BY <1>2, AloneActs
  <2>2. WriteInv'
    BY <1>2, MemoryIsRoomy, StepKeepsWrites DEF AloneInv
  <2> QED BY <1>1, <2>1, <2>2 DEF AloneInv, ActsOnFiles
<1>3. CASE UNCHANGED vars
  <2>1. WriteInv'
    BY <1>3, StutterKeepsWrites DEF AloneInv
  <2>2. Counted(cache[TheNode])' /\ FilesShow'
    BY <1>3 DEF vars, AloneInv, FilesShow, FileShows, Cached, OpenSlots
  <2>3. Content' = Content
    BY <1>3 DEF vars, Content, Copy, Bytes, BytesIn
  <2> QED BY <1>1, <2>1, <2>2, <2>3 DEF AloneInv
<1> QED BY <1>2, <1>3

LEMMA AloneInitially ==
  ASSUME Nodes = {TheNode}, Init
  PROVE  AloneInv /\ ExpectedFiles!FInit
<1>1. MemoryInv /\ WriteInv
  BY InitMemory, InitHasWrites DEF Init
<1>2. LocalInv /\ Known = {} /\ lookups = {}
  BY LocalInvInitially
<1>3. Counted(cache[TheNode])
  BY EmptyIsCounted DEF Init, StartsWith
<1>4. CachedKeys(cache[TheNode]) = {} /\ OpenSlots(TheNode) = {}
  BY <1>2 DEF Known, OpenNames
<1>5. FilesShow
  BY <1>4 DEF FilesShow
<1>6. ExpectedFiles!FInit
  BY <1>4 DEF ExpectedFiles!FInit
<1> QED BY <1>1, <1>2, <1>3, <1>5, <1>6 DEF AloneInv, CreateInv

\* On a node that works alone, with room in its cache for all its files, a program
\* sees files: every step of the node is a step of FileStore or changes no file.
\* The kernel overlaps no Read or Flush with a Write of the same File, keeps one File
\* object a name and removes no open file.
THEOREM AloneBehavesAsFiles ==
  ASSUME Memory, RoomForNames, Nodes = {TheNode},
         "overlap" \notin Allowed, "reopen" \notin Allowed,
         "unlink_open" \notin Allowed, "restart" \notin Allowed
  PROVE  LocalSpec => BehavesAsFiles
<1>1. LocalInit => AloneInv /\ ExpectedFiles!FInit
  BY AloneInitially DEF LocalInit
<1>2. AloneInv /\ [LocalNext]_<<vars, gone>> =>
        AloneInv' /\ [ExpectedFiles!FNext]_[m \in CachedKeys(cache[TheNode]) |-> Copy(TheNode, m)]
  <2> SUFFICES ASSUME AloneInv, [LocalNext]_<<vars, gone>>
               PROVE  AloneInv' /\ (Content' = Content \/ ExpectedFiles!FNext)
    BY DEF Content
  <2>1. [Next]_vars
    BY DEF LocalNext
  <2> QED BY <2>1, AloneInvKept
<1> QED BY <1>1, <1>2, PTL DEF LocalSpec, BehavesAsFiles, ExpectedFiles!FSpec
=============================================================================
