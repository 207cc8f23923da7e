# Crom-OS Spirit: a TLA+ verification of its programs

Spirit is a small operating system image: a PID 1 in Go, a peer-to-peer file
store with a FUSE front end (Nodus), a compositor (Nexus), a virtual-machine
manager, GPU passthrough scripts and an AI assistant. This directory holds TLA+
models of the parts with behaviour worth checking, the TLC instances that check
them, and TLAPS proofs of what matters most.

    tlc -workers 2 -config MCLRUCache.cfg MCLRUCache     # one run
    tlapm LRUCacheProofs.tla                             # one proof module

`PROJECT.json` maps each definition to the source lines it stands for and lists
the runs, the mutants (a plausible bug for each property, which the property
catches), the hazards of the code and the theorems.

## 1. Inventory

| Part (source) | State | Operations | What is hard | What makes it correct |
|---|---|---|---|---|
| RAM cache (`internal/nodus/cache.go`) | map, recency list, byte total, mutex | Get, Put, evictOldest, Delete, Clear, readers | three structures kept in step by hand; eviction loop; boundary at capacity | map and list hold the same keys; the total is exact; least recent goes first; an insertion fits or is alone; Put returns |
| FUSE file system (`internal/nodus/fuse.go`) | File objects with a slice each, which shares its array with the cache | Lookup, Create, Remove, ReadAll, Write, Flush, Setattr | no lock on File; Lookup waits for the network between check and store; in-place writes to shared arrays | on one node it behaves as a map from names to bytes; a removed file stays removed; a write's byte is lost to nothing but a read, or another write to its place, in between |
| Network node (`internal/nodus/node.go`) | the cache, streams, goroutines | RequestFile, handleFileRequest, BroadcastFile, handleFileBroadcast, NewNode, Close | unordered broadcasts, streams that break or stall, ignored read errors, restarts with an empty cache | a fetch is all or nothing; bytes stay where they were written; lookups end and find a copy that is there; broadcasts end; only Create makes a file |
| Discovery (`internal/nodus/discovery.go`) | connections | HandlePeerFound, ConnectToPeer | peers come and go during a lookup | (see above) |
| PID 1 (`cmd/init/main.go`) | one goroutine per service, child processes | mountSystem, launchService, debugShell, main loop | crashes and restarts, orphans, start-up order | one instance per service; a crashed service comes back, or is tried for ever |
| GPU scripts (`scripts/gpu_detach.sh`, `gpu_attach.sh`) | driver bindings in sysfs, the restore file | detach, attach | any command may fail half-way; the script may be run again | a GPU taken off the host can be given back |
| VM manager (`internal/hypervisor`), `cmd/hypervisor` | a libvirt connection, a mutex, libvirt's domains and handles | Connect, Close, CreateWindowsVM, StartVM, StopVM, GetVMState, ListVMs; the command line's start and stop | each call is several requests, and domains change between them; early returns hold lock and handle | no half-done call shows in another; a guest is asked before it is killed; nothing is kept after an error; calls return |
| AI agent (`cmd/ai/main.go`) | standard input, the reply being acted on, the result not printed yet | interactive, processQuery, processOffline, callGemini, processAgentActions, executeCommand | two readers of one input; lines typed ahead; end of input; calls and commands without a time limit; a panic | nothing outside the safe list runs without its own yes; what ran is told; a query is answered |
| Input (`internal/input`) | key modifiers, event channel, mouse position | readLoop, Stop, UpdatePosition, SetButton | full channel drops events; Stop races with the loop | (does not compile, and nothing imports it) |
| Nexus and widgets (`cmd/nexus`, `internal/ui`) | menu, HUD, orb animation | one frame after the other | nothing that changes by another actor | (layout and easing) |
| Command lines (`cmd/nodus`, `cmd/hotkeyd`), build scripts, image | none | print, call `virsh`, build | - | - |

The parts interact little. `cmd/nodus` and `cmd/hotkeyd` are stubs that print;
`cmd/init` starts programs as processes; the FUSE handlers call the cache and
the node by Go calls, and nodes reach each other over libp2p streams. The store
is the one place where many actors share state, so it comes first.

There are no unit tests in the repository. The statements the code is held to
come from its comments, its messages and `docs/`.

## 2. The modules

**CacheOps** is the cache as a value (`items`, `order`, `used`) and each method
body as an operator on it. **LRUCache** runs them as a state machine, one
critical section of `Cache.mu` after the other; `Put` of a new key takes one
step per iteration of its loop (`putting` holds the key and data of the `Put`
that has the mutex). **RecencyCache** is what the cache promises, without list
and total: a set of entries, the relation "used longer ago than", and eviction
of the oldest entry only while a new one has no room. `LRUCache!KeepsPromise` is
the refinement; `OlderIn` reads the relation off the list.

**Nodus** composes the FUSE handlers, the node and the connections. One state
holds, for every node, the cache (the same operators of CacheOps, each call
atomic under `Cache.mu`), the `File` objects that the kernel keeps (`files`, one
per slot), the lookups waiting for the network (`lookups`), the goroutines of
`BroadcastFile` (`casts`) and `sendFileToPeer` (`sends`), and the connections
(`links`). Go slices share arrays: `heap` holds the arrays, a slice is
`[buf, len]`, and `Collect` plays the garbage collector so that the state stays
finite. `File.Write` is three steps (grow, copy, publish) because nothing
serializes it against `ReadAll` and `Flush`; a transfer reads its array one byte
at a time, so an in-place write can tear it. A byte is 0 or the number of the
`Write` call it comes from, and the history `wrote` says where each was aimed.

The kernel is external: it holds a directory lock for the whole of a creating
open (shared for a plain lookup) and an inode lock around `Write` and `Setattr`;
it may run `Read` and `Flush` at any time. `Allowed` names the events that an
instance includes: overlapping reads, a second File object for a name, size
changes, unlink, broken streams, coalesced reads, peers that stall, lost
connections, restarts.

| code | action of Nodus |
|---|---|
| `Dir.Lookup` | `LookupHit`, or `LookupMiss`, `Ask`, `Serve`, `FetchByte`, then `FetchDone` or `LookupFails`; `FetchFails` for a broken stream, `Stall` for a peer that sends no more |
| `Dir.Create`, `Dir.Remove` | `Create`, `RemoveFile` |
| `File.Write` | `WriteGrow`, `WriteCopy`, `WritePublish` |
| `File.ReadAll`, `Flush`, `Setattr` | actions of the same names |
| `BroadcastFile`, `sendFileToPeer`, `handleFileBroadcast` | `Broadcast`, `SendByte`, `Deliver` / `SendFails`; `SendStalls` for a peer that takes, or a sender that gives, no more |
| `HandlePeerFound`, `ConnectToPeer`; `NewNode`, `Close` | `Connect`, `Disconnect`; `Restart` |

**FileStore** is what a program expects of the files of a directory;
**MCNodusLocal** shows that one node alone implements it. **MCNodus**,
**MCNodusWrites** and **MCNodusFetch** hold what the other instances add (views,
histories). The history of MCNodusWrites, `disturbed`, is the Write calls under way
whose File was read between their steps, or to whose place another File object of
the name has written meanwhile.

**Supervisor** is PID 1: `main` (`MountSystem`, `Launch`, `Announce`), one
goroutine per service and one for the shell (`DelayOver`, `Run`, `RunFails`,
`Wait`, `RestOver`), and the kernel's process table (`Fork`, `End`,
`ParentWaits`, external), in which an ended process stays until its parent waits
for it. The sleeps are steps that come at any time, so no order of start-up is
taken from the delays.

**GpuPassthrough** runs `gpu_detach.sh` and `gpu_attach.sh` one command after the
other on the driver, the `driver_override` and the two restore files. A command
that is followed by `|| true` may fail and the script goes on; any other failure,
or an interruption, is `BrokenOff`. The restore file's lines are records, and
`read` with `IFS=':'` is modelled by what it makes of a PCI address.
`CopyConf` is the operator who copies the file to where attach looks.

**VmManager** is one Manager and libvirt underneath. A call takes the lock (`Lock`),
sends libvirt its requests one step at a time (`Define`, `Lookup`, `StartDomain`,
`Shutdown`, `Destroy`, `GetState`, `ListAll`, `ListOne`), and returns through its
deferred functions (`Return`). Between two requests guests end (`PowersOff`), the
command line acts (`CliStart`, `CliStop`) and the daemon stops (`DaemonStops`).
`handles` are the domain objects that have not been freed. The histories `asked`,
`startedBy` and `disturbed` are read by properties only.

**Agent** is `cmd/ai`. `Prompt` reads a line; `ReadSystem` and `SystemRead` run free
and uptime for the context; then the query goes to the service, and `Reply` brings
back any sequence of lines of text, [EXECUTE] and [PERMISSION], or `CallFails`;
`QueryOffline` is the agent without a key. `Act` takes the reply line by line and
puts the response together in `result`, the string builder of `processAgentActions`:
a question is written there before its answer is read (`Answer`), the output of a
command that is not refused when the command ends (`Execute`, `CommandEnds`). Text,
refusals and cancellations add lines that no property is about. Only `Respond`
prints the result. The
terminal is external: lines are typed at any time (`Type`), and the input may end
(`CloseInput`), after which every read returns an empty line at once. `stdin`
remembers for each line how many questions were on the screen when it was typed.

| code | action of Agent |
|---|---|
| `interactive` | `Prompt`, `Respond` |
| `processQuery`, `getSystemContext`, `callGemini`, `processOffline` | `ReadSystem`, `SystemRead`, `Reply`, `CallFails`, `QueryOffline` |
| `processAgentActions` | `Act`, `Answer` |
| `executeCommand` | `Execute` (with `Refused`) in `Act` and `Answer`, `CommandEnds` |

## 3. The runs

| Run | Module, cfg | Checks | Shows |
|---|---|---|---|
| `lru` | MCLRUCache, `MCLRUCache.cfg` | TypeOK, Coherent, Accounting, FitsAfterInsert, KeepsPromise, LoopIsCachePut, EvictsLeastRecent, PutReturns | The cache's methods, one critical section after the other, keep map, list and byte total in step, evict in order of last use, and implement the abstract recency cache. |
| `nodus_local` | MCNodusLocal, `MCNodusLocal.cfg` | TypeOK, RemovedStaysRemoved, BehavesAsFiles | One node whose kernel overlaps no read with a write: File objects, slices that share arrays and the cache together behave as one map from names to bytes. |
| `nodus_net` | MCNodusWrites, `MCNodusNet.cfg` | BytesInPlace, FetchAllOrNothing, WriteLands | Two nodes, two writes, reads that overlap writes, broadcasts, restarts and streams that break: no byte moves to another offset, a broken fetch leaves nothing behind, and a Write's byte is lost to a read between its steps and to nothing else. |
| `nodus_fetch` | MCNodusFetch, `MCNodusFetch.cfg` | FetchFindsCopy | Three nodes, connections that come and go, files made, lengthened, emptied and removed: a Lookup ends in ENOENT only if no peer had the file to give throughout. |
| `nodus_live` | MCNodus, `MCNodusLive.cfg` | LookupsAnswer, BroadcastsEnd, FilesComeFromCreate | With broken streams, lost connections, restarts and peers that stall, every Lookup is answered and every sender of a broadcast ends, except those whose stream is stalled on a connection that lives; and nothing but Create brings back a name that is nowhere any more. |
| `supervisor` | Supervisor, `Supervisor.cfg` | TypeOK, OneInstance, FailedRunsAgain | Two services, the shell and helper processes share three pids: whatever crashes or is left behind, and whichever starts fail, a service has one process at a time, and one that failed runs again or is started over and over. |
| `gpu` | GpuPassthrough, `GpuPassthroughRepeated.cfg` | TypeOK, LatestDetachSaved, BoundGpuKeepsInfo | Four runs of detach and attach in any order, broken off anywhere: what the latest detach took is in the restore file, and nothing touches that file while vfio-pci has the GPU. |
| `vm` | VmManager, `VmManager.cfg` | TypeOK, AskedBeforeKilled, StopIsHeard, ListIsSnapshot, HandlesFreed, CallsReturn | Two goroutines and two domains, with guests that end, the command line, and a connection that breaks between any two requests: the mutex keeps the calls of the Manager out of each other's way, errors release what was held, and every call returns. |
| `agent` | Agent, `Agent.cfg` | TypeOK, ChangesAreConsented, RunsAreReported, QueriesAnswered | Lines typed at any time, replies that mix text, actions and questions, calls that fail, and the end of input: nothing outside the safe list runs without its own yes, what each command said is printed, and every query is answered or waits where the code has no limit. |

Runs that TLC must find violated:

| Run | Module, cfg | Property | Shows |
|---|---|---|---|
| `nodus_coalesce` | MCNodus, `MCNodusCoalesce.cfg` | BytesInPlace | When header and data of a broadcast arrive in one Read the first data bytes are lost and the rest is stored at the wrong offset. |
| `agent_asks` | Agent, `AgentAsks.cfg` | AskedBeforeAnswered | A yes that was typed before the question was on the screen allows a command. |
| `gpu_again` | GpuPassthrough, `GpuPassthroughAgain.cfg` | RestoreInfoKept | A detach that broke off is run again and saves "none" over the driver that the first one saved. |

### Bounds, and why they are enough

- `lru`: three keys, data of 0, 1, 3 and 4 bytes and capacity 3 reach an empty
  slice, an exact fit, several evictions for one `Put`, an entry that is larger
  than the cache, and, through replacing, more bytes than the capacity. The
  recency order of three keys tells last-in-first-out, first-in-first-out and
  least-recently-used apart.
- `nodus_local`: two names and two File slots, so that the names share cache
  and heap; files of up to two bytes and two writes, so that a write can hit the
  old bytes, grow the file, and leave a gap; `Capacity` 8 is never exceeded,
  because an evicted file would rightly be missing from the map.
- `nodus_net`: two nodes, one name, two bytes, two writes: the smallest instance
  where a transfer is torn, overtaken by a later one, cut, or arrives between the
  steps of a Write, and where a read falls between them. With one name it says
  that no byte changes its offset; that none changes its file is shown by
  `nodus_local` on one node. A second File object for the name ("reopen") makes the
  instance too large for TLC: that `WriteLands` holds with it, with that one more
  exception, is shown by the theorem only.
- `nodus_fetch`: three nodes give the two peers without which there is no order
  to ask them in. Content comes from `Setattr`, so no broadcast is under way.
- `nodus_live`: one file, one write, two nodes, removals, and every kind of
  failure: broken streams, coalesced reads, stalled peers, lost connections and
  restarts. With two nodes a lookup has one peer to ask, and comes back to
  `LookupFails` after each way in which that can go wrong. `FilesComeFromCreate`
  sees there an unlink that leaves copies on the other node or on their way, and
  requests that find nothing.
- `supervisor`: three pids for two services, a shell and up to two helpers, so
  that the table is full at times and orphans can keep it full for good. A start
  may also fail with pids to spare (no memory, a binary that cannot be executed
  or was removed after the one `os.Stat`), and fail for ever: so `FailedRunsAgain`
  promises that the service runs again or is tried again after every rest.
- `vm`: two goroutines, the fewest between which a mutex matters, and two
  domains, so that a list can be half-way while another domain changes. There is
  no counter to bound: a domain is defined once, and runs end and begin for ever.
- `agent`: three commands, one of each class (safe, blocked, on neither list); a
  reply of two lines, so that a question can come before and after a command
  that runs, and two lines typed ahead, so that one may be meant for the other's
  place. `MaxActions` bounds what all replies together may ask for.
- `gpu`: four starts of a script give detach, attach, attach again with a copied
  file, and detach once more.
- `Bufs` is an allocation pool, larger than what the instance can hold at a time.
  TLC would report an empty pool.

`VIEW` identifies states that differ only in the numbers of arrays, or in the
target of writes none of whose bytes is left. No action and no property can tell
such states apart. `nodus_fetch` and `nodus_net` also use the symmetry of the nodes. The
liveness runs use neither.

### Fairness

`LRUCache!FairSpec`: a `Put` inside its loop goes on; nobody has to call.
`Nodus!Fairness`: a lookup under way, a `Write` under way, a broadcast and a sender
whose stream is not stalled each take their next step: Go's scheduler runs them on.
Nothing is assumed of the kernel's requests, of connections, of failures, or of
streams: a broken or stalled stream is an event of its own, at any byte, and a
stalled one need not move again. `io.ReadAll` at `node.go:142`, `stream.Write` at
`node.go:196-197` and `io.ReadFull` at `node.go:218` have no deadline (the contexts of
lines 126 and 185 are used to open the stream only), so the loss of the connection
is what ends them. `LookupsAnswer` promises no answer while the peer asked is
stalled and its connection lives, and `BroadcastsEnd` no end of the senders that are
stalled on such a connection; both promise one as soon as it is lost.
`Supervisor!FairSpec`: goroutines run and sleeps end; a process may run for ever.
`VmManager!FairSpec`: libvirt answers each request or reports an error, and a
goroutine that waits for the mutex gets it in the end (strong fairness of `Lock`:
`sync.Mutex` hands itself to a waiter that has starved).
`Agent!FairSpec`: the program takes its next step when it can. Nothing is assumed of
the user, of the service or of the commands: neither `http.Post` (line 288) nor
`CombinedOutput` (line 241) nor the `Output` of free and uptime (lines 337 and 264)
has a time limit, and `QueriesAnswered` names the four places where a query may hang
(`WaitsForOthers`).
The runs of Supervisor, GpuPassthrough and VmManager do not check for deadlock: PID 1
comes to rest when every program has ended, the scripts when nobody starts them,
and a Manager when it has been closed.

### What the code does against its comments and documents

Runs that TLC must find violated show these:

- `nodus_coalesce` (internal/nodus/node.go:206):
  docs/03-NODUS_STORAGE_PROTOCOL.md:24 says of the transport "TCP for reliable block
  transfer"; handleFileBroadcast takes whatever one Read returns (line 206) for the
  header alone, drops the data bytes behind it, and ignores that ReadFull (line 218)
  then comes up short: the rest of the file is stored shifted, with zeros at its
  end.
- `agent_asks` (cmd/ai/main.go:198): cmd/ai/main.go:197 says "Ask for permission";
  the question (lines 194-195) is only added to the result, which is printed after
  processQuery has returned (line 146), so that the answer is read (line 198) before
  the user can see what is asked.
- `gpu_again` (scripts/gpu_detach.sh:62): scripts/gpu_detach.sh:60 says "Save driver
  info for restore"; run again after it broke off between unbind (line 73) and bind
  (line 93), the script reads the driver "none" and writes it over the name it had
  saved (line 62): the host driver is no longer known.

Divergences that were met while modelling and have no run of their own, because
they show without any search:

- `nodus/cache.go:53`: replacing an entry with a longer one, or inserting one
  larger than the cache, raises `used` above `capacity` ("max bytes", line 12).
- `nodus/fuse.go:134`: `Create` puts an empty slice unconditionally, over a file
  that a broadcast brought in since the lookup ("Create creates a new file", line
  125). Nothing is checked here: the code has no step that could prevent it.
- `nodus/fuse.go:196`: `Flush` of a descriptor that was open before a `Remove`
  (line 139) puts the file back; and over a newer copy that a broadcast brought.
- `nodus/fuse.go:170`: a `ReadAll` between the growth (line 181) and the copy (line
  184) of a `Write` takes the growth back, and the write is lost or answered with
  an error. The kernel serializes writes with each other, not with reads, and
  `File` has no lock. `WriteLands` names this read, and a Write of another descriptor
  to the same place, as the only things that take a byte from a Write.
- `nodus/node.go:218`: what a broken broadcast did not bring is stored as zeros, over
  whatever copy the receiver had.
- `nodus/fuse.go:105`: an answer from the network is put over a newer copy that a
  broadcast brought while the lookup waited.
- `nodus/fuse.go:189`: only `Write` is broadcast; `Setattr`, `Flush` and `Remove`
  are not, and of two versions the older may arrive last, each in a goroutine of
  its own (`docs/00-CORE_MANIFESTO.md:83`: "Same Data, Same Soul").
- `nodus/node.go:177`: with no peer connected, a change is kept for nobody
  (`docs/06-ANTI_PATTERNS.md:185`: "Queue changes for later sync").
- `cmd/init/main.go:43` says that all services are launched while the launchers
  still sleep; line 27 says that the file systems are mounted though mountSystem
  drops every error (line 67); the loop at lines 45-47 waits for no orphan.
- `scripts/gpu_attach.sh:16` reads another file than `gpu_detach.sh:62` writes, and
  splits `0000:01:00.0:driver` at every colon (line 25), so that nothing is restored
  where it prints that it was (line 62).
- `scripts/build_iso.sh` installs under `/bin` what `cmd/init/main.go:34-37` looks
  for in `/`.
- `internal/hypervisor/vm.go:76`: between a failed Shutdown and the Destroy the
  command line may start the machine; it is then killed without the "graceful
  shutdown first" of line 73. `AskedBeforeKilled` names that exception.
- `internal/hypervisor/vm.go:108`: a GPU address of another form than
  `0000:01:00.0` (`lspci` prints `01:00.0`) defines the machine without the GPU.
- `cmd/ai/main.go:198`: the answer to a question is the next line of input,
  whatever it was meant for: "sair", or the next query, counts as a refusal and
  is gone.
- `cmd/ai/main.go:134`: at the end of input the prompt reads an empty line for ever
  (`scripts/test_system.sh:114` runs it under `timeout 2`).
- `cmd/ai/main.go:296`: an error of the service shorter than 200 bytes panics, where
  the code around it prints "Erro de conexão".
- `cmd/ai/main.go:26-47`: `hypervisor`, `ip`, `ifconfig`, `hostname` and `nodus` are on
  the list of what runs without a question, with any arguments
  (`docs/05-AI_SYSOPS.md:69`: "I ask permission before making changes"); the limits
  that the comments give `cat` and `ping` are nowhere enforced.

## 4. The proofs

`CacheOpsProofs` is about the operators of the cache, for every cache, key and
capacity: what each list operation does to the keys (`...KeepsList`), what an
entry that comes or goes does to the set of bytes (`BytesWithEntry`,
`BytesWithoutEntry`), and what a whole call leaves (`GetKeeps`, `PutKeeps`,
`DeleteKeeps`: map and list still in step, and which keys). `Put` evicts in a
loop, and what a loop does needs induction: the provers cannot instantiate the
library's induction rules, so `LeastOf` (a non-empty set of numbers has a least
one, from the well-foundedness of `<`) takes their place, and the numbers of
iterations after which the claim fails form a set without a least member
(`EvictionsDefined`, `EvictionsKeepList`).

`LRUCacheProofs` holds for every set of keys, every set of data with lengths in
`Nat` (`DataAssumption`) and every capacity in `Nat` (`CapacityAssumption`).

- `IInv` is the inductive invariant. `Coherent` and `Accounting` are not
  inductive by themselves: `evictOldest` subtracts the size of the entry at the
  back of the list, which is right only if that key is in the map and nowhere
  else in the list; an insertion keeps the list free of repetition only because
  the key of a running `Put` stays out of the map. `GoodCache` joins type,
  coherence and exact total.
- `TypeCorrect`, `CacheIsCoherent` and `AccountingIsExact` follow; so does
  `InsertedEntryFits`, the action property that an insertion either fits in the
  capacity or leaves the entry alone.
- `CacheKeepsPromise` is the refinement of RecencyCache. `OlderOf...` say how the
  recorded order changes with each list operation; each action then maps to one
  abstract action (`EvictOldest` to `Evict` of the last key, with
  `SameRoom` turning the test on the total into one on the bytes held).
- `PutIsOneStep` (`LoopIsCachePut`) and `OldestGoesFirst` (`EvictsLeastRecent`) are
  about MCLRUCache, which watches the cache with two history variables and lets
  everything happen that LRUCache does. `LoopInv`: the cache of a running `Put` is
  the n-th of `Evictions` of the one it found, and none before had room; so the
  modules that take `Put` as one step leave nothing out. `HistoryInv`: whatever is
  in front of a key in the list has been used since.

`NodusProofs` is about Nodus itself, for every number of nodes, names, File objects
and Write calls. `TypeCorrect` and the rest assume `Memory`: the nodes and the File
objects of a node are finitely many, and the arrays are not. `Bufs` is a pool that
TLC needs; the program makes an array whenever it asks for one, and with a finite
pool a new slice could find none (`NewBuf`). `FewAtWork` says that calls and
goroutines under way are finitely many, so that there always is a free array
(`Roomy`).

- *Kinds of steps.* A slice has an owner, the node and the name that it was made
  for. `EveryStepDoes` sorts what each of the actions does to memory into three: it
  lets owners share arrays that they have already (`Shares`), it fills one new array
  for one owner from bytes of the same name (`Fills`), or it puts one byte into an
  array in place (`PutsByte`, the copy of `Write`). What follows about bytes is
  shown for the kinds, and for an action only once.
- `TypeCorrect` (`TypeOK`): `MemoryInv`, which adds to the type that every slice
  anywhere, in a cache, a File, a stream or a broadcast, lies within its array. What
  a cache keeps comes from CacheOpsProofs.
- `BytesStayInPlace` (`BytesInPlace`): `PlaceInv`. It speaks of all bytes under way
  and not only of the cached ones; it knows that two owners never share an array
  (`Apart`), because `Write` puts its byte there for all who do; and that a Write
  under way aims where the history says. It holds with overlapping reads, resets and
  restarts, and assumes that a header comes in a Read of its own ("coalesce"
  excluded): the run `nodus_coalesce` shows what happens otherwise.
- `FetchIsAllOrNothing` (`FetchAllOrNothing`): no step that caches the answer comes
  before the last byte of it, for all events in `Allowed`.
- `WhatIsWrittenLands` (`WriteLands`), about MCNodusWrites, which watches Nodus with the
  history `disturbed` and lets everything happen that Nodus does. `FitsUnless(D)` says
  of each Write that is not in `D` that its place is within its slice and, once
  copied, holds its byte. With the history for `D` (`LandsInv`) it holds whatever is
  allowed: overlapping reads, several File objects a name, resets, restarts. What it needs
  besides is `Apart`: a broadcast that arrives, a lookup that ends or a truncation
  of another File never touches the array of the Write.
- `NamesComeFromCreate` (`FilesComeFromCreate`): in the three kinds of steps every slice
  of the next state is of a name that there was, or Create makes it (`Inside`,
  `Named`, `Creating`), and `NamedIsExtant` says that a name with a slice is a name
  with a file.
`MCNodusProofs` is about the instances with a history variable, MCNodusFetch and
MCNodusLocal. `LookupMissesNoCopy` shows `FetchFindsCopy` for any number of nodes
and names. It speaks of a lookup that has nobody left to ask; `FetchInv` speaks of
every lookup on its way there: each peer that has had the file ever since is still
on its list, or is the one that is answering, and then its answer is not empty. The
theorem leaves out streams that break while their connection lives ("reset" in
`Allowed`): then a lookup gives up a peer that has the file, and rightly misses it.
Everything else in `Allowed` is in, overlapping writes, removals, restarts and
stalled peers among it.

The rest is about a node that works alone (`Nodes = {TheNode}`), for every number of
names, File objects and Write calls and with every event that the theorem does not
exclude. The state that counts is `Known`: the names that are cached *or* that an
open File would put back at its next Write, Flush or Setattr. `AllKinds` shows that
every step but `Create` lets `Known` shrink; here the store puts a slice under many
names in many places, and each of them must be a name it knew. `CreateInv` adds that
a creating lookup is the only one, and that its name is not known: it rests on the
kernel's directory lock and on one File object for a name ("reopen" excluded).

- `AloneBehavesAsFiles` (`BehavesAsFiles`) is the refinement of FileStore: the files
  are the cached copies. `AloneInv` relates each File object to the cached slice of
  its name: it is that slice, or the longer one that a Write under way has grown
  from it and is about to put in its place (`FileShows`). `ActsOnFiles` then maps
  each action: `Create`, `RemoveFile`, `Setattr` to theirs, `WriteCopy` to the write
  of a byte that fits, `WritePublish` to the one that makes the file longer, and all
  others to no step. It needs that the kernel keeps one File object a name and overlaps
  no read with a write (`WriteInv`), that no
  open file is removed, that the node is not restarted (its files live in memory),
  and `RoomForNames`: `MaxLen` bytes for each name fit in the cache, since an
  evicted file is gone. `Counted` carries that over: the total is the bytes held, no
  more than those of all names, hence `Put` evicts nothing (`RoomForAll`).

`VmManagerProofs` holds for every set of goroutines and of domains; its one
assumption, `VmAssumption`, is that no goroutine is named like a free mutex.

- The argument is the mutex: `Alone` shows that at most one call is past `Lock`,
  so that a call is disturbed by its own steps and by what happens underneath
  (`Environment`, `DaemonStops`), and by nothing else. `MethodStep` says once
  what a step of a method must not break, and each method's lemma discharges it.
- The properties speak of a call at its end; `GoodCall` adds what holds on the
  way there: in `ListVMs`, that undisturbed the answer is what the domains
  already asked for look like *now*, and that what remains is defined; in
  `StopVM`, between the refused Shutdown and Destroy, that an active domain was
  asked or is the command line's. `ListVMs` has no deferred Free: a handle of its own
  is one of a domain that its loop has still to come to. `CallsNeedManager` says that there is no call
  while there is no Manager, without which `Close` would need a case for each.
- `Harmless` is what makes the environment bearable: a domain that it changes is
  off, has accepted to shut down, or was begun by the command line. A guest that
  it starts could otherwise be killed unasked, which is the exception that
  `AskedBeforeKilled` names.
- `TypeCorrect`, `GuestsAreAsked`, `StopsAreHeard`, `ListsAreSnapshots` and
  `HandlesAreFreed` follow.

`SupervisorProofs` holds for every set of services, any numbers as pids and any
bound on forks (`SupervisorAssumption`: the shell is not a service). OneInstance
speaks of running children only and is not inductive: a child that has ended is
still what its goroutine waits for, and if somebody else could take it out of
the table, or two goroutines waited for one pid, the next `Run` would break it.
`Paired` is the strengthening: children, running or ended, and waiting goroutines
match one to one, and a child's parent is PID 1, so that `ParentWaits` passes it
over. Pids are reused in the model; `Run` is safe because an ended child keeps
its number until its goroutine has waited.

`GpuPassthroughProofs` holds with and without an audio function and for any number
of starts (`GpuAssumption`). `SavedFirst` says at which places of the script the
file holds nothing, one line or both lines of what detach read; while it is being
written, no device has changed and the GPU is not with vfio-pci, which is why no run
writes the file of a GPU that is (`RerunsKeepInfo`).

`AgentProofs` holds for all lists of commands, replies and lines of any number
(`AgentAssumption`). `ChangesAreConsented` has to know that the question behind
each run lies in the past: `QuestionsPast` says that no run names a question later
than the ones answered, so that a new answer can allow only the run that begins
with it; without it a later yes could turn up as the consent of an earlier run.
`RunsAreReported` speaks of the places between two responses; `Building` says what
holds while one is put together: every run and every question has been printed
before, or is in `result`, or is the command that is running now.

Only model-checked: liveness, which TLAPS does not prove under fairness
(`PutReturns`, `LookupsAnswer`, `BroadcastsEnd`, `FailedRunsAgain`, `CallsReturn`,
`QueriesAnswered`), and `RemovedStaysRemoved`, which leaves out the unlink of an open
file and would say no more for many names than for two. Every other property of a
passing run is a theorem; the
counterexamples of the other runs lie outside what the theorems assume.

## 5. Left out

- `Attr`, `ReadDirAll`, `hashString`: they change nothing. `MountFUSE`,
  `Unmount`: process set-up.
- A file name with a blank or a line break in a broadcast header, and names cut
  at 1024 bytes: names are values here.
- The content of `docs/03` beyond the code (shards, manifests, encryption): not
  implemented.
- `internal/input` does not compile as it stands (`InputEvent` and `EV_KEY` are
  declared twice, and `keyboard.go` imports after its declarations), and nothing
  imports it: there is no program whose states a model could describe.
- `cmd/nexus` draws the same state for ever (`handleInput` is empty; `state` and
  `running` are never changed). `internal/ui` is imported by nothing; it is layout and
  easing of floats.
- `cmd/nodus` and `cmd/hotkeyd` print; they keep no state, and start no node.
- What `free` and `uptime` print for `getSystemContext` and `getMemoryPercent`: only the
  wait for them is modelled. The arguments of a command are not modelled, only its
  class; nor is the cut of its output at 1000 bytes.
- `Manager.Close` during a call: it takes no lock, and what libvirt does with a
  connection that is freed under a request is undefined. VmManager lets Close
  happen when no call is under way.

## 6. Plan

In order of what the system depends on:

1. *Done:* CacheOps, LRUCache, RecencyCache; Nodus with stalled peers, FileStore and
   the MC modules; Supervisor; GpuPassthrough; VmManager; Agent; a theorem for each
   safety property that a run checks, and the two refinements.
2. What the liveness properties rest on, as safety: the step that ends a loop is
   possible, and a number goes down with each step before it (bytes still to come, peers
   still to ask, entries still to evict, lines of a reply still to take).
3. What the cached copies of different nodes have to do with each other: the hazard
   of broadcasts that overtake each other has no property yet, since the code promises
   nothing there.
4. `internal/input`, once it compiles: readLoop against a bounded channel and Stop.
