------------------------------- MODULE Nodus -------------------------------
(***************************************************************************)
(* The Nodus file store: the FUSE handlers of every node                   *)
(* (internal/nodus/fuse.go), the requests and broadcasts between nodes     *)
(* (internal/nodus/node.go) and the connections (discovery.go).  Each node *)
(* keeps its files in its LRU cache only; each cache method is one atomic  *)
(* operator of CacheOps.                                                   *)
(*                                                                         *)
(* Go slices share memory: the cache, the open File objects and the        *)
(* broadcasts on their way often hold the same array, and File.Write       *)
(* changes it in place.  heap holds the arrays, and a slice is a record    *)
(* [buf, len] naming an array and how much of it is seen.  A byte is 0 or  *)
(* the number of the Write call that put it there.                         *)
(*                                                                         *)
(* FUSE requests come from a kernel that serializes them only in part: a   *)
(* directory lock held for the whole of a creating open, an inode lock     *)
(* held by Write and Setattr, and none for Read and Flush.                 *)
(***************************************************************************)
EXTENDS CacheOps

CONSTANTS Nodes, Names,
          Slots,      \* the File objects a node's kernel can hold at a time
          Capacity,   \* Cache.capacity, in bytes
          MaxLen,     \* bound: no file is longer
          MaxWrites,  \* bound: Write calls in a behaviour
          Bufs,       \* bound: arrays alive at a time, 1 .. n
          Allowed     \* which of the events below this instance includes

\* "overlap"     a Read or a Flush runs while a Write of the same File does
\* "reopen"      a second File object for a name while the first is in use
\* "setattr"     truncation and extension
\* "remove"      unlink of a file that no File object of the node is open for
\* "unlink_open" unlink of any file
\* "reset"       a stream breaks
\* "coalesce"    header and data of a broadcast arrive in one Read
\* "stall"       one end of a stream does no more, and the connection stays up
\* "disconnect"  a connection is lost
\* "restart"     a node's process ends and is started again
Events == {"overlap", "reopen", "setattr", "remove", "unlink_open",
           "reset", "coalesce", "stall", "disconnect", "restart"}

ASSUME NodusAssumption ==
  /\ Allowed \subseteq Events
  /\ MaxLen \in Nat /\ MaxWrites \in Nat /\ Capacity \in Nat
  /\ Bufs \subseteq Nat \ {0}

VARIABLES heap,       \* [Bufs -> Seq(byte)]; << >> for an array nobody holds
          cache,      \* [Nodes -> cache value of CacheOps whose slices are [buf, len]]
          files,      \* [Nodes -> [Slots -> File object or NoFile]]
          lookups,    \* Lookup calls waiting for the network
          casts,      \* BroadcastFile goroutines that have not listed the peers yet
          sends,      \* sendFileToPeer goroutines, each with its stream
          links,      \* sets of two connected nodes
          wrote       \* history: the name and the offset of each Write call

vars == <<heap, cache, files, lookups, casts, sends, links, wrote>>

-----------------------------------------------------------------------------
(* Slices and arrays *)

Slice(b, n) == [buf |-> IF n = 0 THEN 0 ELSE b, len |-> n]

BytesIn(h, d) == [i \in 1 .. d.len |-> h[d.buf][i]]
Bytes(d) == BytesIn(heap, d)

\* A mutant: the old bytes go to the end of the new array
Resized_AtTheEnd(b, n) ==
  [i \in 1 .. n |-> IF i + Len(b) > n THEN b[i + Len(b) - n] ELSE 0]

\* b cut or filled with zero bytes to length n
Resized(b, n) == [i \in 1 .. n |-> IF i <= Len(b) THEN b[i] ELSE 0]

NoFile == [name |-> "none"]
OpenSlots(n) == {f \in Slots : files[n][f] # NoFile}

\* The slices that can still be read, each with the place that holds it
Holders ==
  (UNION {{[at |-> <<"cache", n, m>>, data |-> cache[n].items[m]] :
             m \in CachedKeys(cache[n])} : n \in Nodes})
    \cup (UNION {{[at |-> <<"file", n, f>>, data |-> files[n][f].data] :
                   f \in OpenSlots(n)} : n \in Nodes})
    \cup {[at |-> <<"lookup", c.node, c.name>>, data |-> c.data] :
            c \in {d \in lookups : d.phase = "reading"}}
    \cup {[at |-> <<"cast", b.w>>, data |-> b.data] : b \in casts}
    \cup {[at |-> <<"send", s.w, s.to>>, data |-> s.data] : s \in sends}

\* A new array; there are always enough of them (TLC reports it if not).
NewBuf == Min(Bufs \ {h.data.buf : h \in Holders})

\* The heap h after garbage collection, without the bytes that no slice reaches
\* any more: evaluated in the next state.
Collect(h) ==
  heap' = [b \in Bufs |->
            SubSeq(h[b], 1, Max({0} \cup {r.data.len : r \in {x \in Holders' : x.data.buf = b}}))]

HeapWith(b, bytes) == [heap EXCEPT ![b] = bytes]

-----------------------------------------------------------------------------
(* The parts of a node *)

Holds(n, m) == m \in CachedKeys(cache[n])
Copy(n, m) == Bytes(cache[n].items[m])

Put(n, m, d) == cache' = [cache EXCEPT ![n] = CachePut(@, m, d, Capacity)]
Get(n, m) == cache' = [cache EXCEPT ![n] = CacheGet(@, m)]

\* host.Network().Peers()
ConnectedPeers(n) == {p \in Nodes \ {n} : {n, p} \in links}

StreamBreaks(n, p) == "reset" \in Allowed \/ {n, p} \notin links

Idle(file) == file.stage = "idle"

MayOpen(n, m) ==
  "reopen" \in Allowed \/ \A f \in OpenSlots(n) : files[n][f].name # m

\* A File object is made and kept in a free slot, or the kernel forgets it at
\* once (a stat, say).
Keep(n, m, d) ==
  \/ UNCHANGED files
  \/ /\ MayOpen(n, m)
     /\ \E f \in Slots \ OpenSlots(n) :
          files' = [files EXCEPT ![n][f] =
                      [name |-> m, data |-> d, stage |-> "idle", w |-> 0, off |-> 0]]

\* The kernel's directory lock: taken shared by a lookup, exclusively by a
\* lookup that is to create the file, and then held until Create.
NoLookupOf(n, m) == \A c \in lookups : c.node # n \/ c.name # m
NoCreateOn(n) == \A c \in lookups : c.node # n \/ ~ c.create
NoLookupOn(n) == \A c \in lookups : c.node # n

StartsWith(ls) ==
  /\ heap = [b \in Bufs |-> << >>]
  /\ cache = [n \in Nodes |-> EmptyCache]
  /\ files = [n \in Nodes |-> [f \in Slots |-> NoFile]]
  /\ lookups = {}
  /\ casts = {}
  /\ sends = {}
  /\ links = ls
  /\ wrote = << >>

Init == StartsWith({})

-----------------------------------------------------------------------------
(* Dir.Lookup, with RequestFile, requestFileFromPeer and handleFileRequest *)

LookupHit(n, m) ==
  /\ NoLookupOf(n, m) /\ NoCreateOn(n)
  /\ Holds(n, m)
  /\ Get(n, m)
  /\ Keep(n, m, cache[n].items[m])
  /\ UNCHANGED <<lookups, casts, sends, links, wrote>>
  /\ Collect(heap)

\* The cache has no such name: RequestFile takes the list of peers.
LookupMiss(n, m, create) ==
  /\ NoLookupOf(n, m)
  /\ IF create THEN NoLookupOn(n) /\ OpenSlots(n) # Slots /\ MayOpen(n, m)
               ELSE NoCreateOn(n)
  /\ ~ Holds(n, m)
  /\ lookups' = lookups \cup {[node |-> n, name |-> m, create |-> create,
                               phase |-> "choosing", todo |-> ConnectedPeers(n)]}
  /\ UNCHANGED <<heap, cache, files, casts, sends, links, wrote>>

Becomes(c, d) == lookups' = (lookups \ {c}) \cup {d}

Choosing(c, todo) ==
  [node |-> c.node, name |-> c.name, create |-> c.create,
   phase |-> "choosing", todo |-> todo]

\* A mutant: a peer that cannot be reached stays on the list
Ask_PeerKept(c) ==
  /\ c.phase = "choosing"
  /\ \E p \in c.todo :
       \/ /\ {c.node, p} \in links
          /\ Becomes(c, [node |-> c.node, name |-> c.name, create |-> c.create,
                         phase |-> "asked", todo |-> c.todo \ {p}, peer |-> p])
       \/ /\ StreamBreaks(c.node, p)
          /\ Becomes(c, Choosing(c, c.todo))
  /\ UNCHANGED <<heap, cache, files, casts, sends, links, wrote>>

\* The next peer of the list: a stream is opened and the name sent, or cannot be.
Ask(c) ==
  /\ c.phase = "choosing"
  /\ \E p \in c.todo :
       \/ /\ {c.node, p} \in links
          /\ Becomes(c, [node |-> c.node, name |-> c.name, create |-> c.create,
                         phase |-> "asked", todo |-> c.todo \ {p}, peer |-> p])
       \/ /\ StreamBreaks(c.node, p)
          /\ Becomes(c, Choosing(c, c.todo \ {p}))
  /\ UNCHANGED <<heap, cache, files, casts, sends, links, wrote>>

\* A mutant: an answer without a byte is taken for an empty file
Serve_EmptyIsAFile(c) ==
  /\ c.phase = "asked"
  /\ IF Holds(c.peer, c.name)
     THEN /\ Get(c.peer, c.name)
          /\ Becomes(c, [node |-> c.node, name |-> c.name, create |-> c.create,
                         phase |-> "reading", todo |-> c.todo, peer |-> c.peer,
                         data |-> cache[c.peer].items[c.name], got |-> << >>])
     ELSE Put(c.node, c.name, Slice(0, 0)) /\ lookups' = lookups \ {c}
  /\ UNCHANGED <<heap, files, casts, sends, links, wrote>>

\* A mutant: the first peer without the file ends the search
Serve_EndsTheSearch(c) ==
  /\ c.phase = "asked"
  /\ Get(c.peer, c.name)
  /\ IF Holds(c.peer, c.name)
     THEN Becomes(c, [node |-> c.node, name |-> c.name, create |-> c.create,
                      phase |-> "reading", todo |-> c.todo, peer |-> c.peer,
                      data |-> cache[c.peer].items[c.name], got |-> << >>])
     ELSE Becomes(c, Choosing(c, {}))
  /\ UNCHANGED <<heap, files, casts, sends, links, wrote>>

\* handleFileRequest at the peer: a cached file is written to the stream from
\* the array the cache holds, byte after byte; otherwise the stream is closed.
Serve(c) ==
  /\ c.phase = "asked"
  /\ Get(c.peer, c.name)
  /\ IF Holds(c.peer, c.name)
     THEN Becomes(c, [node |-> c.node, name |-> c.name, create |-> c.create,
                      phase |-> "reading", todo |-> c.todo, peer |-> c.peer,
                      data |-> cache[c.peer].items[c.name], got |-> << >>])
     ELSE Becomes(c, Choosing(c, c.todo))
  /\ UNCHANGED <<heap, files, casts, sends, links, wrote>>

\* One byte of r.data is written to a stream.
NextByte(r) == heap[r.data.buf][Len(r.got) + 1]

FetchByte(c) ==
  /\ c.phase = "reading" /\ Len(c.got) < c.data.len
  /\ Becomes(c, [c EXCEPT !.got = Append(@, NextByte(c))])
  /\ UNCHANGED <<heap, cache, files, casts, sends, links, wrote>>

\* A mutant: what was read before the error is kept
FetchFails_KeepsPart(c) ==
  /\ c.phase \in {"asked", "reading"}
  /\ StreamBreaks(c.node, c.peer)
  /\ UNCHANGED <<files, casts, sends, links, wrote>>
  /\ IF c.phase = "asked" \/ c.got = << >>
     THEN Becomes(c, Choosing(c, c.todo)) /\ UNCHANGED <<heap, cache>>
     ELSE LET d == Slice(NewBuf, Len(c.got))
          IN  /\ lookups' = lookups \ {c}
              /\ Put(c.node, c.name, d)
              /\ Collect(HeapWith(d.buf, c.got))

\* The peer sends no more.  The 10 seconds of requestFileFromPeer are for opening
\* the stream, and io.ReadAll waits as long as the connection lives.
Stall(c) ==
  /\ "stall" \in Allowed
  /\ c.phase \in {"asked", "reading"}
  /\ {c.node, c.peer} \in links
  /\ Becomes(c, [node |-> c.node, name |-> c.name, create |-> c.create,
                 phase |-> "stalled", todo |-> c.todo, peer |-> c.peer])
  /\ UNCHANGED <<cache, files, casts, sends, links, wrote>>
  /\ Collect(heap)

\* The stream breaks: io.ReadAll fails, and the next peer is tried.
FetchFails(c) ==
  /\ c.phase \in {"asked", "reading", "stalled"}
  /\ StreamBreaks(c.node, c.peer)
  /\ Becomes(c, Choosing(c, c.todo))
  /\ UNCHANGED <<cache, files, casts, sends, links, wrote>>
  /\ Collect(heap)

\* The whole answer is there: it is cached, unless it is empty.
FetchDone(c) ==
  /\ c.phase = "reading" /\ Len(c.got) = c.data.len
  /\ UNCHANGED <<casts, sends, links, wrote>>
  /\ IF c.got = << >>
     THEN Becomes(c, Choosing(c, c.todo)) /\ UNCHANGED <<heap, cache, files>>
     ELSE LET d == Slice(NewBuf, Len(c.got))
          IN  /\ lookups' = lookups \ {c}
              /\ Put(c.node, c.name, d)
              /\ Keep(c.node, c.name, d)
              /\ Collect(HeapWith(d.buf, c.got))

\* No peer is left: ENOENT, on which a creating open goes on to Create.
LookupFails(c) ==
  /\ c.phase = "choosing" /\ c.todo = {}
  /\ lookups' = (lookups \ {c}) \cup
       (IF c.create THEN {[c EXCEPT !.phase = "absent"]} ELSE {})
  /\ UNCHANGED <<heap, cache, files, casts, sends, links, wrote>>

\* Dir.Create
Create(c) ==
  /\ c.phase = "absent"
  /\ lookups' = lookups \ {c}
  /\ Put(c.node, c.name, Slice(0, 0))
  /\ \E f \in Slots \ OpenSlots(c.node) :
       files' = [files EXCEPT ![c.node][f] =
                   [name |-> c.name, data |-> Slice(0, 0),
                    stage |-> "idle", w |-> 0, off |-> 0]]
  /\ UNCHANGED <<casts, sends, links, wrote>>
  /\ Collect(heap)

-----------------------------------------------------------------------------
(* File *)

\* File.ReadAll: the File takes over the slice that the cache holds.
ReadAll(n, f) ==
  LET file == files[n][f]
  IN  /\ Idle(file) \/ "overlap" \in Allowed
      /\ Holds(n, file.name)
      /\ Get(n, file.name)
      /\ files' = [files EXCEPT ![n][f].data = cache[n].items[file.name]]
      /\ UNCHANGED <<lookups, casts, sends, links, wrote>>
      /\ Collect(heap)

\* A mutant: the new array starts without the old bytes
WriteGrow_OldBytesLost(n, f, off) ==
  LET file == files[n][f]
      w    == Len(wrote) + 1
      begun(d) == files' = [files EXCEPT ![n][f] =
                    [@ EXCEPT !.data = d, !.stage = "grown", !.w = w, !.off = off]]
  IN  /\ Idle(file)
      /\ w <= MaxWrites
      /\ wrote' = Append(wrote, [name |-> file.name, off |-> off])
      /\ UNCHANGED <<cache, lookups, casts, sends, links>>
      /\ IF off + 1 > file.data.len
         THEN LET d == Slice(NewBuf, off + 1)
              IN  begun(d) /\ Collect(HeapWith(d.buf, [i \in 1 .. off + 1 |-> 0]))
         ELSE begun(file.data) /\ UNCHANGED heap

\* File.Write of one byte at offset off, up to the growth of the array.
WriteGrow(n, f, off) ==
  LET file == files[n][f]
      w    == Len(wrote) + 1
      begun(d) == files' = [files EXCEPT ![n][f] =
                    [@ EXCEPT !.data = d, !.stage = "grown", !.w = w, !.off = off]]
  IN  /\ Idle(file)
      /\ w <= MaxWrites
      /\ wrote' = Append(wrote, [name |-> file.name, off |-> off])
      /\ UNCHANGED <<cache, lookups, casts, sends, links>>
      /\ IF off + 1 > file.data.len
         THEN LET d == Slice(NewBuf, off + 1)
              IN  /\ begun(d)
                  /\ Collect(HeapWith(d.buf, Resized(Bytes(file.data), off + 1)))
         ELSE begun(file.data) /\ UNCHANGED heap

Ended(file) == [file EXCEPT !.stage = "idle", !.w = 0, !.off = 0]

\* copy(f.data[req.Offset:], req.Data).  When the slice has become too short for
\* the offset, the expression panics and the FUSE server answers the request
\* with an error; when it has become shorter by the byte, nothing is copied.
WriteCopy(n, f) ==
  LET file == files[n][f]
  IN  /\ file.stage = "grown"
      /\ files' = [files EXCEPT ![n][f] =
                     IF file.off > file.data.len THEN Ended(file)
                     ELSE [file EXCEPT !.stage = "copied"]]
      /\ IF file.off < file.data.len
         THEN heap' = [heap EXCEPT ![file.data.buf][file.off + 1] = file.w]
         ELSE UNCHANGED heap
      /\ UNCHANGED <<cache, lookups, casts, sends, links, wrote>>

\* The end of File.Write: the slice goes to the cache, and to a new goroutine.
WritePublish(n, f) ==
  LET file == files[n][f]
  IN  /\ file.stage = "copied"
      /\ Put(n, file.name, file.data)
      /\ casts' = casts \cup {[w |-> file.w, from |-> n, name |-> file.name,
                               data |-> file.data]}
      /\ files' = [files EXCEPT ![n][f] = Ended(file)]
      /\ UNCHANGED <<lookups, sends, links, wrote>>
      /\ Collect(heap)

\* File.Flush at each close of a descriptor; after the last one the kernel
\* forgets the File.
Flush(n, f, last) ==
  LET file == files[n][f]
  IN  /\ Idle(file) \/ (~ last /\ "overlap" \in Allowed)
      /\ Put(n, file.name, file.data)
      /\ files' = IF last THEN [files EXCEPT ![n][f] = NoFile] ELSE files
      /\ UNCHANGED <<lookups, casts, sends, links, wrote>>
      /\ Collect(heap)

\* File.Setattr with a size: truncation keeps the array, extension copies it.
Setattr(n, f, size) ==
  LET file == files[n][f]
      d == CASE size < file.data.len -> Slice(file.data.buf, size)
             [] size > file.data.len -> Slice(NewBuf, size)
             [] OTHER -> file.data
  IN  /\ "setattr" \in Allowed
      /\ Idle(file)
      /\ files' = [files EXCEPT ![n][f].data = d]
      /\ Put(n, file.name, d)
      /\ UNCHANGED <<lookups, casts, sends, links, wrote>>
      /\ Collect(IF size > file.data.len
                 THEN HeapWith(d.buf, Resized(Bytes(file.data), size)) ELSE heap)

\* A mutant: Remove looks for the entry and leaves it there
RemoveFile_EntryKept(n, m) ==
  /\ \/ "unlink_open" \in Allowed
     \/ "remove" \in Allowed /\ \A f \in OpenSlots(n) : files[n][f].name # m
  /\ NoLookupOn(n)
  /\ Holds(n, m)
  /\ Get(n, m)
  /\ UNCHANGED <<heap, files, lookups, casts, sends, links, wrote>>

\* Dir.Remove of a name that is cached (ENOENT otherwise)
RemoveFile(n, m) ==
  /\ \/ "unlink_open" \in Allowed
     \/ "remove" \in Allowed /\ \A f \in OpenSlots(n) : files[n][f].name # m
  /\ NoLookupOn(n)
  /\ Holds(n, m)
  /\ cache' = [cache EXCEPT ![n] = CacheDelete(@, m)]
  /\ UNCHANGED <<files, lookups, casts, sends, links, wrote>>
  /\ Collect(heap)

-----------------------------------------------------------------------------
(* BroadcastFile, sendFileToPeer and handleFileBroadcast *)

\* A mutant: with no peer connected, the goroutine keeps the change for later.
Broadcast_KeptForLater(b) ==
  /\ ConnectedPeers(b.from) # {}
  /\ casts' = casts \ {b}
  /\ sends' = sends \cup {[w |-> b.w, from |-> b.from, to |-> p, name |-> b.name,
                           data |-> b.data, got |-> << >>, flow |-> "moves"] :
                            p \in ConnectedPeers(b.from)}
  /\ UNCHANGED <<cache, files, lookups, links, wrote>>
  /\ Collect(heap)

\* The goroutine lists the peers and starts one sender for each.
Broadcast(b) ==
  /\ casts' = casts \ {b}
  /\ sends' = sends \cup {[w |-> b.w, from |-> b.from, to |-> p, name |-> b.name,
                           data |-> b.data, got |-> << >>, flow |-> "moves"] :
                            p \in ConnectedPeers(b.from)}
  /\ UNCHANGED <<cache, files, lookups, links, wrote>>
  /\ Collect(heap)

SendByte(s) ==
  /\ s.flow = "moves"
  /\ Len(s.got) < s.data.len
  /\ sends' = (sends \ {s}) \cup {[s EXCEPT !.got = Append(@, NextByte(s))]}
  /\ UNCHANGED <<heap, cache, files, lookups, casts, links, wrote>>

\* A mutant: a copy of the same length is received into the array that is cached
Receive_InPlace(s, got) ==
  LET old == cache[s.to].items[s.name]
      d   == Slice(NewBuf, s.data.len)
      put(b) == Collect(HeapWith(b, Resized(got, s.data.len)
                                      \o SubSeq(heap[b], s.data.len + 1, Len(heap[b]))))
  IN  /\ sends' = sends \ {s}
      /\ UNCHANGED <<files, lookups, casts, links, wrote>>
      /\ IF s.data.len = 0 THEN Put(s.to, s.name, d) /\ Collect(heap)
         ELSE IF Holds(s.to, s.name) /\ old.len = s.data.len
         THEN Get(s.to, s.name) /\ put(old.buf)
         ELSE Put(s.to, s.name, d) /\ put(d.buf)

\* The receiver caches an array of the announced length with the bytes that
\* io.ReadFull got, and zeros in the place of those it did not get.
Receive(s, got) ==
  LET d == Slice(NewBuf, s.data.len)
  IN  /\ sends' = sends \ {s}
      /\ Put(s.to, s.name, d)
      /\ UNCHANGED <<files, lookups, casts, links, wrote>>
      /\ IF d.len = 0 THEN Collect(heap)
         ELSE Collect(HeapWith(d.buf, Resized(got, d.len)))

\* The receiver takes no more, or the sender gives no more.  The 10 seconds of
\* sendFileToPeer are for opening the stream; its writes, and the receiver's
\* ReadFull, wait as long as the connection lives.
SendStalls(s) ==
  /\ "stall" \in Allowed
  /\ s.flow = "moves"
  /\ {s.from, s.to} \in links
  /\ sends' = (sends \ {s}) \cup {[s EXCEPT !.flow = "stalls"]}
  /\ UNCHANGED <<heap, cache, files, lookups, casts, links, wrote>>

\* All is sent and the stream closed.  The Read that took the header took the
\* first drop bytes of the data along, and they are lost.
Deliver(s) ==
  /\ s.flow = "moves"
  /\ Len(s.got) = s.data.len
  /\ \E drop \in 0 .. s.data.len :
       /\ drop = 0 \/ "coalesce" \in Allowed
       /\ Receive(s, SubSeq(s.got, drop + 1, Len(s.got)))

\* The stream breaks: before the header is read, and nothing happens at the
\* receiver; or later, and what has come is stored all the same.
SendFails(s) ==
  /\ s.flow = "broken" \/ StreamBreaks(s.from, s.to)
  /\ \/ /\ sends' = sends \ {s}
        /\ UNCHANGED <<cache, files, lookups, casts, links, wrote>>
        /\ Collect(heap)
     \/ Receive(s, s.got)

-----------------------------------------------------------------------------
(* Connections and processes *)

\* HandlePeerFound, ConnectToPeer, or the peer doing so
Connect(n, p) ==
  /\ n # p
  /\ links' = links \cup {{n, p}}
  /\ UNCHANGED <<heap, cache, files, lookups, casts, sends, wrote>>

\* The streams of the connection break: a reader that has bytes left to take may
\* still take them (FetchByte, FetchFails, SendByte, SendFails); whoever waits in
\* vain is woken by an error, and goes on (Choosing, SendFails).
Disconnect(n, p) ==
  /\ "disconnect" \in Allowed
  /\ links' = links \ {{n, p}}
  /\ lookups' =
       {IF c.phase = "stalled" /\ {c.node, c.peer} = {n, p} THEN Choosing(c, c.todo) ELSE c :
          c \in lookups}
  /\ sends' =
       {IF s.flow = "stalls" /\ {s.from, s.to} = {n, p} THEN [s EXCEPT !.flow = "broken"] ELSE s :
          s \in sends}
  /\ UNCHANGED <<heap, cache, files, casts, wrote>>

\* The process of n ends, by Close or not, and NewNode starts it again with an
\* empty cache.  The streams it had break: a peer that was reading an answer
\* goes on to its next peer.  (What its broadcasts leave at their receivers when
\* their streams break is the business of SendFails, just before.)
Restart(n) ==
  /\ "restart" \in Allowed
  /\ cache' = [cache EXCEPT ![n] = EmptyCache]
  /\ files' = [files EXCEPT ![n] = [f \in Slots |-> NoFile]]
  /\ lookups' =
       {IF c.phase \in {"asked", "reading", "stalled"} /\ c.peer = n THEN Choosing(c, c.todo) ELSE c :
          c \in {d \in lookups : d.node # n}}
  /\ casts' = {b \in casts : b.from # n}
  /\ sends' = {s \in sends : s.from # n /\ s.to # n}
  /\ links' = {l \in links : n \notin l}
  /\ UNCHANGED wrote
  /\ Collect(heap)

-----------------------------------------------------------------------------

LookupStep(c) ==
  Ask(c) \/ Serve(c) \/ FetchByte(c) \/ FetchDone(c) \/ LookupFails(c) \/ Create(c)

FileStep(n, f) == WriteCopy(n, f) \/ WritePublish(n, f)

SendStep(s) == SendByte(s) \/ Deliver(s) \/ (s.flow = "broken" /\ SendFails(s))

\* What the kernel asks of node n
Request(n) ==
  \/ \E m \in Names : LookupHit(n, m) \/ RemoveFile(n, m)
  \/ \E m \in Names, create \in BOOLEAN : LookupMiss(n, m, create)
  \/ \E f \in OpenSlots(n) :
       \/ ReadAll(n, f)
       \/ \E off \in 0 .. MaxLen - 1 : WriteGrow(n, f, off)
       \/ \E last \in BOOLEAN : Flush(n, f, last)
       \/ \E size \in 0 .. MaxLen : Setattr(n, f, size)

Next ==
  \/ \E n \in Nodes : Request(n) \/ Restart(n)
  \/ \E n \in Nodes : \E f \in OpenSlots(n) : FileStep(n, f)
  \/ \E c \in lookups : LookupStep(c) \/ FetchFails(c) \/ Stall(c)
  \/ \E b \in casts : Broadcast(b)
  \/ \E s \in sends : SendStep(s) \/ SendFails(s) \/ SendStalls(s)
  \/ \E n, p \in Nodes : Connect(n, p) \/ Disconnect(n, p)

Spec == Init /\ [][Next]_vars

\* Goroutines run on, and so do the streams that are not stalled (a stream can
\* stall at any byte).  Nothing is assumed of the kernel's requests, of
\* connections or of failures.
Fairness ==
  /\ \A n \in Nodes, m \in Names :
       WF_vars(\E c \in lookups : c.node = n /\ c.name = m /\ LookupStep(c))
  /\ \A n \in Nodes, f \in Slots : WF_vars(f \in OpenSlots(n) /\ FileStep(n, f))
  /\ \A w \in 1 .. MaxWrites :
       /\ WF_vars(\E b \in casts : b.w = w /\ Broadcast(b))
       /\ \A p \in Nodes : WF_vars(\E s \in sends : s.w = w /\ s.to = p /\ SendStep(s))

FairSpec == Spec /\ Fairness

-----------------------------------------------------------------------------
(* Properties *)

SliceOK(d) ==
  /\ d.len \in 0 .. MaxLen
  /\ IF d.len = 0 THEN d.buf = 0 ELSE d.buf \in Bufs /\ d.len <= Len(heap[d.buf])

TypeOK ==
  /\ \A b \in Bufs : heap[b] \in BoundedSeq(0 .. MaxWrites, MaxLen)
  /\ \A n \in Nodes : CoherentCache(cache[n])
  /\ \A n \in Nodes : \A m \in CachedKeys(cache[n]) :
       m \in Names /\ SliceOK(cache[n].items[m])
  /\ \A n \in Nodes : \A f \in OpenSlots(n) : SliceOK(files[n][f].data)
  /\ \A s \in casts \cup sends : SliceOK(s.data)
  /\ wrote \in BoundedSeq([name : Names, off : 0 .. MaxLen - 1], MaxWrites)

\* Every byte of every cached copy is where it was written: arrays are shared
\* between the cache, File objects and goroutines, names travel in headers apart
\* from the data and handlers of several files run at once, and still no byte
\* turns up in another file or at another offset (zeros can turn up anywhere).
BytesInPlace ==
  \A n \in Nodes : \A m \in CachedKeys(cache[n]) :
    \A i \in DOMAIN Copy(n, m) :
      LET w == Copy(n, m)[i]
      IN  w # 0 => wrote[w] = [name |-> m, off |-> i - 1]

\* What a Lookup caches is as long as the file the answering peer held: a stream
\* that breaks half-way leaves nothing behind, where a broken broadcast does.
FetchAllOrNothing ==
  [][\A c \in lookups :
       /\ c.phase = "reading"
       /\ \A d \in lookups' : d.node # c.node \/ d.name # c.name
       /\ c.name \in CachedKeys(cache'[c.node])
       => cache'[c.node].items[c.name].len = c.data.len]_vars

\* Somebody has a file of that name, or a transfer of it is under way.
Extant(m) ==
  \/ \E n \in Nodes : Holds(n, m) \/ \E f \in OpenSlots(n) : files[n][f].name = m
  \/ \E x \in casts \cup sends : x.name = m
  \/ \E c \in lookups : c.name = m /\ c.phase = "reading"

\* Files come from Create only.  A name that no cache, File object or transfer
\* holds any more, after unlinks, evictions, restarts and broken streams, is not
\* brought back by a request that finds nothing or a broadcast that breaks off.
FilesComeFromCreate ==
  [][\A m \in Names : ~ Extant(m) /\ Extant(m)' =>
       \E c \in lookups : c.name = m /\ c.phase = "absent" /\ c \notin lookups']_vars

\* A Lookup that went to the network is answered, whatever peers come and go and
\* whichever streams break, unless from some time on the peer it asks is stalled
\* and the connection to it lives: the loss of that connection sets it free.
LookupsAnswer ==
  \A n \in Nodes, m \in Names :
    (\E c \in lookups : c.node = n /\ c.name = m) ~>
      \/ NoLookupOf(n, m)
      \/ [](\E c \in lookups : /\ c.node = n /\ c.name = m /\ c.phase = "stalled"
                              /\ {n, c.peer} \in links)

\* Once no more is written, every broadcast ends, with peers and without, whichever
\* streams break, except the senders whose stream is stalled on a connection that
\* lives: nothing but its loss sets them, and the array they hold, free.
BroadcastsEnd ==
  <>[](casts = {} /\ \A s \in sends : s.flow = "stalls" /\ {s.from, s.to} \in links)
=============================================================================
