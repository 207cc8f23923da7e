----------------------------- MODULE VmManager -----------------------------
(***************************************************************************)
(* The virtual-machine manager (internal/hypervisor): a Manager serializes *)
(* its own calls with a mutex, but the domains are libvirt's, and each     *)
(* call takes several requests to it.  Between two of them a guest can     *)
(* power itself off, the command line (cmd/hypervisor) can start or stop a *)
(* domain, and the connection to the daemon can break.                     *)
(*                                                                         *)
(* The model is of one Manager: Connect makes it and Close ends it.        *)
(***************************************************************************)
CONSTANTS Callers,  \* the goroutines that call the Manager
          Names,    \* the names of domains
          Nobody    \* the holder of a mutex that is free

ASSUME VmAssumption == Nobody \notin Callers

VARIABLES conn,     \* "none", the daemon connected to, "broken" or "closed"
          mu,       \* who holds Manager.mu
          calls,    \* [Callers -> the call that the goroutine is in, or NoCall]
          domains,  \* [Names -> libvirt's domain of that name]
          handles   \* the *libvirt.Domain that have not been freed

vars == <<conn, mu, calls, domains, handles>>

-----------------------------------------------------------------------------
(* Data *)

URIs == {"qemu:///system", "qemu:///session"}

Ops == {"create", "start", "stop", "state", "list"}

NoCall == [at |-> "idle"]
Waiting == [at |-> "waiting"]

\* at         where the call is
\* failed     it is to return an error
\* todo       ListVMs: the domains listed and not yet asked for their state
\* answer     ListVMs: the names with their states
\* disturbed  a history: something other than this Manager changed a domain
\*            during ListVMs, or broke the connection
Calling(op, name) ==
  [at |-> "entered", op |-> op, name |-> name,
   failed |-> FALSE, todo |-> {}, answer |-> {}, disturbed |-> FALSE]

\* state     "active" is running or paused, which no method tells apart but in words
\* asked     a history: whether this run of the guest was asked to shut down,
\*           and whether libvirt took the request
\* startedBy a history: whose Create began this run
Domain(state, startedBy) == [state |-> state, asked |-> "no", startedBy |-> startedBy]

Undefined == Domain("undefined", "nobody")

Defined(n) == domains[n].state # "undefined"
Active(n) == domains[n].state = "active"

Connected == conn \in URIs

\* The request to shut down is refused; one that was taken before is still taken.
AskedInVain(n) ==
  [domains EXCEPT ![n].asked = IF @ = "accepted" THEN @ ELSE "refused"]

\* A domain that is off begins a run; its run ends, or it is new.
Begun(n, who) == [domains EXCEPT ![n] = Domain("active", who)]
Ended(n) == [domains EXCEPT ![n] = Domain("off", "nobody")]
Asked(n) == [domains EXCEPT ![n].asked = "accepted"]

At(c, op, place) == calls[c].at = place /\ calls[c].op = op

\* A *libvirt.Domain that the caller is to free, and one that nobody will free
Handle(who, n) == [by |-> who, name |-> n]

Inside(c) == calls[c].at \notin {"idle", "waiting"}

\* The call goes on at another place.
Goes(c, place) == calls' = [calls EXCEPT ![c].at = place]

\* The call is over but for its deferred functions.
Ends(c, failed) == calls' = [calls EXCEPT ![c].at = "returning", ![c].failed = failed]

-----------------------------------------------------------------------------
(* The Manager *)

Init ==
  /\ conn = "none"
  /\ mu = Nobody
  /\ calls = [c \in Callers |-> NoCall]
  /\ domains = [n \in Names |-> Undefined]
  /\ handles = {}

\* The system daemon is tried first.  Without a daemon there is no Manager, which
\* leaves everything as it is.
Connect ==
  /\ conn = "none"
  /\ \E up \in SUBSET URIs \ {{}} :
       conn' = IF "qemu:///system" \in up THEN "qemu:///system" ELSE "qemu:///session"
  /\ UNCHANGED <<mu, calls, domains, handles>>

\* Close takes no lock: whoever calls it is taken to know that no call is under way.
Close ==
  /\ conn \in URIs \cup {"broken"}
  /\ \A c \in Callers : calls[c] = NoCall
  /\ conn' = "closed"
  /\ UNCHANGED <<mu, calls, domains, handles>>

\* A goroutine calls a method of the Manager.
Call(c) ==
  /\ conn \in URIs \cup {"broken"}
  /\ calls[c] = NoCall
  /\ calls' = [calls EXCEPT ![c] = Waiting]
  /\ UNCHANGED <<conn, mu, domains, handles>>

\* The method is entered.  Which one it is has had no effect before.
Enters(c, op) ==
  /\ calls[c] = Waiting
  /\ \E n \in Names : calls' = [calls EXCEPT ![c] = Calling(op, n)]
  /\ UNCHANGED <<conn, domains, handles>>

\* A mutant: StartVM does not take the lock.
Lock_NotForStart(c) ==
  \/ \E op \in Ops \ {"start"} : mu = Nobody /\ mu' = c /\ Enters(c, op)
  \/ mu' = mu /\ Enters(c, "start")

Lock(c) ==
  /\ mu = Nobody
  /\ mu' = c
  /\ \E op \in Ops : Enters(c, op)

\* The deferred functions: the handle that the call looked up is freed, and then
\* the lock.  ListVMs looks none up; it frees what it was given in its loop.
Return(c) ==
  /\ calls[c].at = "returning"
  /\ handles' = {h \in handles : h.by # c \/ calls[c].op = "list"}
  /\ mu' = Nobody
  /\ calls' = [calls EXCEPT ![c] = NoCall]
  /\ UNCHANGED <<conn, domains>>

\* CreateWindowsVM: DomainDefineXML.  The XML has no uuid, so a name that is in use
\* is refused; what else it says matters to nothing here.  The domain that is
\* returned is dropped (vm.go:36), and nobody frees it.
Define(c) ==
  /\ At(c, "create", "entered")
  /\ LET n == calls[c].name IN
     \/ /\ Connected /\ ~Defined(n)
        /\ domains' = Ended(n)
        /\ handles' = handles \cup {Handle(Nobody, n)}
        /\ Ends(c, FALSE)
     \/ Ends(c, TRUE) /\ UNCHANGED <<domains, handles>>
  /\ UNCHANGED <<conn, mu>>

\* A mutant: "VM not found" returns without the deferred Unlock.
Lookup_LeftLocked(c) ==
  /\ calls[c].at = "entered" /\ calls[c].op \in {"start", "stop", "state"}
  /\ IF Connected /\ Defined(calls[c].name)
     THEN /\ handles' = handles \cup {Handle(c, calls[c].name)}
          /\ Goes(c, "found")
     ELSE /\ calls' = [calls EXCEPT ![c] = NoCall]
          /\ UNCHANGED handles
  /\ UNCHANGED <<conn, mu, domains>>

\* LookupDomainByName, with which StartVM, StopVM and GetVMState begin
Lookup(c) ==
  /\ calls[c].at = "entered" /\ calls[c].op \in {"start", "stop", "state"}
  /\ IF Connected /\ Defined(calls[c].name)
     THEN /\ handles' = handles \cup {Handle(c, calls[c].name)}
          /\ Goes(c, "found")
     ELSE /\ Ends(c, TRUE)
          /\ UNCHANGED handles
  /\ UNCHANGED <<conn, mu, domains>>

\* StartVM: domain.Create, which can fail for reasons of its own
StartDomain(c) ==
  /\ At(c, "start", "found")
  /\ LET n == calls[c].name IN
     \/ /\ Connected /\ domains[n].state = "off"
        /\ domains' = Begun(n, "manager")
        /\ Ends(c, FALSE)
     \/ Ends(c, TRUE) /\ UNCHANGED domains
  /\ UNCHANGED <<conn, mu, handles>>

\* A mutant: the error of Shutdown is dropped.
Shutdown_ErrorDropped(c) ==
  /\ At(c, "stop", "found")
  /\ Ends(c, FALSE)
  /\ LET n == calls[c].name IN
     \/ /\ Connected /\ Active(n)
        /\ domains' = Asked(n)
     \/ /\ Connected /\ Active(n)
        /\ domains' = AskedInVain(n)
     \/ /\ ~(Connected /\ Active(n))
        /\ UNCHANGED domains
  /\ UNCHANGED <<conn, mu, handles>>

\* StopVM: domain.Shutdown.  What the guest makes of it is not waited for.  A domain
\* that is not active is an error, and libvirt can refuse one that is.
Shutdown(c) ==
  /\ At(c, "stop", "found")
  /\ LET n == calls[c].name IN
     \/ /\ Connected /\ Active(n)
        /\ domains' = Asked(n)
        /\ Ends(c, FALSE)
     \/ /\ Connected /\ Active(n)
        /\ domains' = AskedInVain(n)
        /\ Goes(c, "refused")
     \/ /\ ~(Connected /\ Active(n))
        /\ Goes(c, "refused")
        /\ UNCHANGED domains
  /\ UNCHANGED <<conn, mu, handles>>

\* StopVM: domain.Destroy, whose error is StopVM's
Destroy(c) ==
  /\ At(c, "stop", "refused")
  /\ LET n == calls[c].name IN
     \/ /\ Connected /\ Active(n)
        /\ domains' = Ended(n)
        /\ Ends(c, FALSE)
     \/ Ends(c, TRUE) /\ UNCHANGED domains
  /\ UNCHANGED <<conn, mu, handles>>

\* GetVMState: domain.GetState
GetState(c) ==
  /\ At(c, "state", "found")
  /\ Ends(c, ~Connected)
  /\ UNCHANGED <<conn, mu, domains, handles>>

\* A mutant: without CONNECT_LIST_DOMAINS_INACTIVE
ListAll_ActiveOnly(c) ==
  /\ At(c, "list", "entered")
  /\ IF Connected
     THEN LET listed == {n \in Names : Active(n)} IN
          /\ calls' = [calls EXCEPT ![c].at = "listing", ![c].todo = listed]
          /\ handles' = handles \cup {Handle(c, n) : n \in listed}
     ELSE Ends(c, TRUE) /\ UNCHANGED handles
  /\ UNCHANGED <<conn, mu, domains>>

\* ListVMs: ListAllDomains, active and inactive
ListAll(c) ==
  /\ At(c, "list", "entered")
  /\ IF Connected
     THEN LET listed == {n \in Names : Defined(n)} IN
          /\ calls' = [calls EXCEPT ![c].at = "listing", ![c].todo = listed]
          /\ handles' = handles \cup {Handle(c, n) : n \in listed}
     ELSE Ends(c, TRUE) /\ UNCHANGED handles
  /\ UNCHANGED <<conn, mu, domains>>

\* A mutant: a domain whose state cannot be had is passed over.
ListOne_ErrorPassedOver(c) ==
  /\ At(c, "list", "listing")
  /\ \E n \in calls[c].todo :
       IF Connected
       THEN /\ calls' = [calls EXCEPT ![c].todo = @ \ {n},
                 ![c].answer = @ \cup {[name |-> n, state |-> domains[n].state]}]
            /\ handles' = handles \ {Handle(c, n)}
       ELSE calls' = [calls EXCEPT ![c].todo = @ \ {n}] /\ UNCHANGED handles
  /\ UNCHANGED <<conn, mu, domains>>

\* ListVMs: the next domain is asked for its state and freed.  An error of GetState
\* is dropped; the zero state it leaves is "unknown" to stateToString.
ListOne(c) ==
  /\ At(c, "list", "listing")
  /\ \E n \in calls[c].todo :
       /\ calls' = [calls EXCEPT ![c].todo = @ \ {n},
            ![c].answer = @ \cup {[name |-> n,
              state |-> IF Connected THEN domains[n].state ELSE "unknown"]}]
       /\ handles' = handles \ {Handle(c, n)}
  /\ UNCHANGED <<conn, mu, domains>>

\* ListVMs: no domain is left.
ListDone(c) ==
  /\ At(c, "list", "listing") /\ calls[c].todo = {}
  /\ Ends(c, FALSE)
  /\ UNCHANGED <<conn, mu, domains, handles>>

-----------------------------------------------------------------------------
(* What happens underneath *)

\* A ListVMs under way takes note, for ListIsSnapshot.
Disturbed ==
  calls' = [c \in Callers |->
    IF Inside(c) /\ calls[c].op = "list" THEN [calls[c] EXCEPT !.disturbed = TRUE] ELSE calls[c]]

Underneath == Disturbed /\ UNCHANGED <<mu, handles>>

\* The guest shuts down, asked or not, or crashes.
PowersOff(n) ==
  /\ Active(n)
  /\ domains' = Ended(n)
  /\ Underneath /\ UNCHANGED conn

\* hypervisor start: virsh has a connection of its own.
CliStart(n) ==
  /\ domains[n].state = "off"
  /\ domains' = Begun(n, "cli")
  /\ Underneath /\ UNCHANGED conn

\* hypervisor stop: virsh shutdown, which is all it does
CliStop(n) ==
  /\ Active(n)
  /\ domains' = Asked(n)
  /\ Underneath /\ UNCHANGED conn

\* The daemon ends or is restarted; the domains run on, and the Manager does not
\* connect again.
DaemonStops ==
  /\ Connected
  /\ conn' = "broken"
  /\ Underneath /\ UNCHANGED domains

-----------------------------------------------------------------------------

Stop(c) == Shutdown(c) \/ Destroy(c)

List(c) == ListAll(c) \/ ListOne(c) \/ ListDone(c)

Goroutine(c) ==
  Define(c) \/ Lookup(c) \/ StartDomain(c) \/ Stop(c) \/ GetState(c) \/ List(c) \/ Return(c)

Environment(n) == PowersOff(n) \/ CliStart(n) \/ CliStop(n)

Next ==
  \/ Connect \/ Close \/ DaemonStops
  \/ \E c \in Callers : Call(c) \/ Lock(c) \/ Goroutine(c)
  \/ \E n \in Names : Environment(n)

Spec == Init /\ [][Next]_vars

\* libvirt answers or reports an error, and sync.Mutex passes over no goroutine for
\* ever.
FairSpec == Spec /\ \A c \in Callers : WF_vars(Goroutine(c)) /\ SF_vars(Lock(c))

-----------------------------------------------------------------------------
(* Properties *)

States == {"undefined", "off", "active"}

\* The Manager's state, and who is past Lock holds the mutex.
TypeOK ==
  /\ conn \in URIs \cup {"none", "broken", "closed"}
  /\ domains \in [Names -> [state : States, asked : {"no", "refused", "accepted"},
                            startedBy : {"nobody", "manager", "cli"}]]
  /\ handles \subseteq [by : Callers \cup {Nobody}, name : Names]
  /\ \A c \in Callers : Inside(c) <=> mu = c

\* "Try graceful shutdown first" (vm.go:73): whoever stops a machine while another
\* goroutine starts it does not have the fresh guest killed.  A run that Destroy ends
\* was asked to shut down before, unless the command line began it: its virsh start
\* is not held up by the Manager's lock.
AskedBeforeKilled ==
  \A c \in Callers : At(c, "stop", "refused") =>
    LET d == domains[calls[c].name] IN
    Connected /\ Active(calls[c].name) => d.asked # "no" \/ d.startedBy = "cli"

\* A StopVM that returns nil has been heard: the guest is off, or has accepted to
\* shut down, or the command line has begun another run since.
StopIsHeard ==
  \A c \in Callers : At(c, "stop", "returning") /\ ~calls[c].failed =>
    LET d == domains[calls[c].name] IN
    d.state = "off" \/ d.asked = "accepted" \/ d.startedBy = "cli"

\* ListVMs asks for the domains and then for each one's state, with requests of its
\* own.  Unless a guest, the command line or the daemon interfered, the list is what
\* there is at one moment: no other call of the Manager shows half-done.
ListIsSnapshot ==
  \A c \in Callers :
    At(c, "list", "returning") /\ ~calls[c].failed /\ ~calls[c].disturbed =>
      calls[c].answer =
        {[name |-> n, state |-> domains[n].state] : n \in {m \in Names : Defined(m)}}

\* Whichever of its requests fails, a call frees the handles it was given, all but
\* the one of CreateWindowsVM (vm.go:36 drops it): the Manager holds one handle for
\* each domain it defined and those of the call under way.
HandlesFreed ==
  \A h \in handles :
    IF h.by = Nobody THEN Defined(h.name) ELSE mu = h.by /\ Inside(h.by)

\* Every call returns, whichever of its requests fails; one that libvirt never answers
\* would hold its call, and the mutex, for ever.
CallsReturn == \A c \in Callers : calls[c] # NoCall ~> calls[c] = NoCall
=============================================================================
