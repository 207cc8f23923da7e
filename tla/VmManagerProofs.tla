-------------------------- MODULE VmManagerProofs --------------------------
(***************************************************************************)
(* Proofs, for every set of goroutines and of domains, of the safety       *)
(* properties of VmManager.  The mutex keeps the other goroutines out of   *)
(* the methods, so that only the caller of a step and what happens         *)
(* underneath can disturb what a call in progress relies on.               *)
(***************************************************************************)
EXTENDS VmManager, TLAPS

-----------------------------------------------------------------------------
(* The inductive invariant *)

Places == {"entered", "found", "refused", "listing", "returning"}

CallType ==
  [at : Places, op : Ops, name : Names, failed : BOOLEAN, todo : SUBSET Names,
   answer : SUBSET [name : Names, state : States \cup {"unknown"}],
   disturbed : BOOLEAN]

DomainType ==
  [state : States, asked : {"no", "refused", "accepted"},
   startedBy : {"nobody", "manager", "cli"}]

\* What the domains of S look like in a list
Listed(S) == {[name |-> n, state |-> domains[n].state] : n \in S}

DefinedNames == {n \in Names : Defined(n)}

Typed ==
  /\ conn \in URIs \cup {"none", "broken", "closed"}
  /\ mu \in Callers \cup {Nobody}
  /\ calls \in [Callers -> {NoCall, Waiting} \cup CallType]
  /\ domains \in [Names -> DomainType]
  /\ handles \subseteq [by : Callers \cup {Nobody}, name : Names]

\* What is true of a call wherever it is.  Two parts are what ListIsSnapshot needs of
\* the steps before the return; the last is what HandlesFreed needs of a list, whose
\* handles are freed one by one and not by the deferred functions.
GoodCall(c) ==
  /\ Inside(c) <=> mu = c
  /\ At(c, "stop", "refused") /\ Connected /\ Active(calls[c].name) =>
       domains[calls[c].name].asked # "no" \/ domains[calls[c].name].startedBy = "cli"
  /\ At(c, "stop", "returning") /\ ~calls[c].failed =>
       \/ domains[calls[c].name].state = "off"
       \/ domains[calls[c].name].asked = "accepted"
       \/ domains[calls[c].name].startedBy = "cli"
  /\ At(c, "list", "returning") /\ ~calls[c].failed /\ ~calls[c].disturbed =>
       calls[c].answer = Listed(DefinedNames)
  /\ At(c, "list", "listing") /\ ~calls[c].disturbed =>
       /\ Connected /\ calls[c].todo \subseteq DefinedNames
       /\ calls[c].answer = Listed(DefinedNames \ calls[c].todo)
  /\ calls[c].at = "entered" => calls[c].answer = {}
  /\ Inside(c) /\ calls[c].op = "list" =>
       \A h \in handles : h.by = c => calls[c].at = "listing" /\ h.name \in calls[c].todo

\* Calls are made while there is a Manager.
CallsNeedManager ==
  conn \in {"none", "closed"} => \A c \in Callers : calls[c] = NoCall

IInv == Typed /\ CallsNeedManager /\ HandlesFreed /\ \A c \in Callers : GoodCall(c)

\* The invariant is what the properties say, and more.
LEMMA IInvImplies ==
  IInv => TypeOK /\ AskedBeforeKilled /\ StopIsHeard /\ ListIsSnapshot /\ HandlesFreed
  BY DEF IInv, Typed, GoodCall, TypeOK, AskedBeforeKilled, StopIsHeard, ListIsSnapshot,
         DomainType, Listed, DefinedNames

-----------------------------------------------------------------------------
(* Steps of a goroutine *)

\* A call that is inside holds the mutex, and no other call is inside.
LEMMA Alone ==
  ASSUME IInv, NEW c \in Callers, Inside(c)
  PROVE  /\ mu = c
         /\ calls[c] \in CallType
         /\ \A d \in Callers \ {c} : calls[d] \in {NoCall, Waiting}
  <1>1. mu = c
    BY DEF IInv, GoodCall
  <1>2. ASSUME NEW d \in Callers PROVE calls[d] \in CallType => Inside(d)
    BY DEF CallType, Places, Inside
  <1>3. ASSUME NEW d \in Callers, calls[d] \in {NoCall, Waiting} PROVE ~Inside(d)
    BY <1>3 DEF Inside, NoCall, Waiting
  <1>4. ASSUME NEW d \in Callers \ {c} PROVE ~Inside(d)
    BY <1>1 DEF IInv, GoodCall
  <1> QED BY <1>1, <1>2, <1>3, <1>4 DEF IInv, Typed

\* Handles of c alone, besides those nobody frees
LEMMA OwnHandles ==
  ASSUME IInv, NEW c \in Callers, Inside(c)
  PROVE  \A h \in handles : IF h.by = Nobody THEN Defined(h.name) ELSE h.by = c
  BY Alone DEF IInv, HandlesFreed

\* A step of the goroutine c inside a method preserves the invariant if c's own call
\* stays good, no domain is lost, and what handles it gets are its own to free.
LEMMA MethodStep ==
  ASSUME IInv, NEW c \in Callers, Inside(c),
         NEW r \in {NoCall} \cup CallType,
         calls' = [calls EXCEPT ![c] = r],
         UNCHANGED conn,
         mu' = IF r = NoCall THEN Nobody ELSE c,
         domains' \in [Names -> DomainType],
         \A n \in Names : Defined(n) => Defined(n)',
         handles' \subseteq [by : Callers \cup {Nobody}, name : Names],
         \A h \in handles' \ handles :
           IF h.by = Nobody THEN Defined(h.name)' ELSE h.by = c,
         r = NoCall => \A h \in handles' : h.by # c,
         r # NoCall => GoodCall(c)'
  PROVE  IInv'
  <1>1. calls' \in [Callers -> {NoCall, Waiting} \cup CallType] /\ calls'[c] = r
    BY DEF IInv, Typed
  <1>2. Typed'
    BY <1>1 DEF IInv, Typed
  <1>3. ASSUME NEW d \in Callers, calls'[d] \in {NoCall, Waiting}, mu' # d
        PROVE  GoodCall(d)'
    BY <1>3 DEF GoodCall, At, Inside, NoCall, Waiting
  <1>4. ASSUME NEW d \in Callers \ {c} PROVE GoodCall(d)'
    <2>1. calls'[d] = calls[d]
      BY DEF IInv, Typed
    <2>2. calls'[d] \in {NoCall, Waiting}
      BY <2>1, Alone
    <2>3. mu' # d
      BY VmAssumption
    <2> QED BY <1>3, <2>2, <2>3
  <1>5. GoodCall(c)'
    BY <1>1, <1>3, VmAssumption
  <1>6. r # NoCall => Inside(c)'
    BY <1>1 DEF CallType, Places, Inside
  <1>7. ASSUME NEW h \in handles'
        PROVE  IF h.by = Nobody THEN Defined(h.name)' ELSE h.by = c /\ r # NoCall
    <2>1. h.name \in Names
      OBVIOUS
    <2> QED BY <2>1, OwnHandles
  <1>8. HandlesFreed'
    BY <1>6, <1>7 DEF HandlesFreed
  <1>9. CallsNeedManager'
    BY DEF IInv, CallsNeedManager, Inside, NoCall
  <1> QED BY <1>2, <1>4, <1>5, <1>8, <1>9 DEF IInv

\* What the end of a run makes of the domains
LEMMA EndedDomain ==
  ASSUME Typed, NEW n \in Names
  PROVE  /\ Ended(n) \in [Names -> DomainType]
         /\ Ended(n)[n].state = "off"
         /\ \A m \in Names \ {n} : Ended(n)[m] = domains[m]
  BY DEF Typed, DomainType, States, Ended, Domain

\* What the begin of a run makes of the domains
LEMMA BegunDomain ==
  ASSUME Typed, NEW n \in Names, NEW who \in {"manager", "cli"}
  PROVE  /\ Begun(n, who) \in [Names -> DomainType]
         /\ Begun(n, who)[n].state = "active" /\ Begun(n, who)[n].startedBy = who
         /\ \A m \in Names \ {n} : Begun(n, who)[m] = domains[m]
  BY DEF Typed, DomainType, States, Begun, Domain

\* What a request to shut down makes of them, taken or refused
LEMMA AskedDomain ==
  ASSUME Typed, NEW n \in Names
  PROVE  /\ Asked(n) \in [Names -> DomainType]
         /\ Asked(n)[n].asked = "accepted" /\ Asked(n)[n].state = domains[n].state
         /\ Asked(n)[n].startedBy = domains[n].startedBy
         /\ \A m \in Names \ {n} : Asked(n)[m] = domains[m]
         /\ AskedInVain(n) \in [Names -> DomainType]
         /\ AskedInVain(n)[n].asked # "no" /\ AskedInVain(n)[n].state = domains[n].state
         /\ \A m \in Names \ {n} : AskedInVain(n)[m] = domains[m]
  BY DEF Typed, DomainType, States, Asked, AskedInVain

\* Nothing undefines a domain.
LEMMA NoneLost ==
  ASSUME Typed, NEW n \in Names, NEW who \in {"manager", "cli"},
         \/ domains' = Ended(n) \/ domains' = Begun(n, who)
         \/ domains' = Asked(n) \/ domains' = AskedInVain(n) \/ domains' = domains
  PROVE  /\ domains' \in [Names -> DomainType]
         /\ \A m \in Names : Defined(m) => Defined(m)'
  <1>1. CASE domains' = Ended(n)
    BY <1>1, EndedDomain DEF Defined
  <1>2. CASE domains' = Begun(n, who)
    BY <1>2, BegunDomain DEF Defined
  <1>3. CASE domains' = Asked(n)
    BY <1>3, AskedDomain DEF Defined
  <1>4. CASE domains' = AskedInVain(n)
    BY <1>4, AskedDomain DEF Defined
  <1>5. CASE domains' = domains
    BY <1>5 DEF Typed, Defined
  <1> QED BY <1>1, <1>2, <1>3, <1>4, <1>5

\* A step leaves every other call alone.
OnlyCall(c) == calls'[c] \in CallType /\ calls' = [calls EXCEPT ![c] = calls'[c]]

\* What a call is after a step that moves it on
LEMMA CallMoves ==
  ASSUME IInv, NEW c \in Callers, Inside(c), NEW place \in Places \ {"entered"},
         Goes(c, place)
  PROVE  /\ OnlyCall(c)
         /\ calls'[c].at = place
         /\ calls'[c].op = calls[c].op /\ calls'[c].name = calls[c].name
  <1> DEFINE r == [calls[c] EXCEPT !.at = place]
  <1>1. r \in CallType /\ r.at = place /\ r.op = calls[c].op /\ r.name = calls[c].name
    BY Alone DEF CallType, Places
  <1>2. calls' = [calls EXCEPT ![c] = r] /\ calls'[c] = r
    BY DEF Goes, IInv, Typed
  <1> QED BY <1>1, <1>2 DEF OnlyCall

\* What a call is after the step that ends it but for its deferred functions
LEMMA CallEnds ==
  ASSUME IInv, NEW c \in Callers, Inside(c), NEW failed \in BOOLEAN, Ends(c, failed)
  PROVE  /\ OnlyCall(c)
         /\ calls'[c].at = "returning" /\ calls'[c].failed = failed
         /\ calls'[c].op = calls[c].op /\ calls'[c].name = calls[c].name
         /\ calls'[c].answer = calls[c].answer
         /\ calls'[c].disturbed = calls[c].disturbed
  <1> DEFINE r == [calls[c] EXCEPT !.at = "returning", !.failed = failed]
  <1>1. /\ r \in CallType /\ r.at = "returning" /\ r.failed = failed
        /\ r.op = calls[c].op /\ r.name = calls[c].name
        /\ r.answer = calls[c].answer /\ r.disturbed = calls[c].disturbed
    BY Alone DEF CallType, Places
  <1>2. calls' = [calls EXCEPT ![c] = r] /\ calls'[c] = r
    BY DEF Ends, IInv, Typed
  <1> QED BY <1>1, <1>2 DEF OnlyCall

\* A step of c that does not end its call, with the conditions that MethodStep asks of
\* every method
LEMMA MethodGoesOn ==
  ASSUME IInv, NEW c \in Callers, Inside(c),
         OnlyCall(c), UNCHANGED <<conn, mu>>,
         domains' \in [Names -> DomainType],
         \A n \in Names : Defined(n) => Defined(n)',
         handles' \subseteq [by : Callers \cup {Nobody}, name : Names],
         \A h \in handles' \ handles :
           IF h.by = Nobody THEN Defined(h.name)' ELSE h.by = c,
         GoodCall(c)'
  PROVE  IInv'
  <1>1. calls'[c] \in CallType /\ calls'[c] # NoCall
    BY DEF OnlyCall, CallType, Places, NoCall
  <1>2. mu' = c
    BY Alone
  <1> QED BY <1>1, <1>2, MethodStep DEF OnlyCall

-----------------------------------------------------------------------------
(* The methods *)

\* A failed call ends, and nothing else changes.
LEMMA FailureKeeps ==
  ASSUME IInv, NEW c \in Callers, Inside(c), calls[c].at # "listing", Ends(c, TRUE),
         UNCHANGED <<conn, mu, domains, handles>>
  PROVE  IInv'
  <1>1. /\ OnlyCall(c) /\ calls'[c].at = "returning" /\ calls'[c].failed = TRUE
        /\ calls'[c].op = calls[c].op
    BY CallEnds
  <1>2. calls[c].op = "list" => \A h \in handles : h.by # c
    BY DEF IInv, GoodCall
  <1>3. GoodCall(c)'
    BY <1>1, <1>2, Alone DEF GoodCall, At, Inside
  <1> QED BY <1>1, <1>3, MethodGoesOn DEF IInv, Typed, Defined

\* CreateWindowsVM
LEMMA DefineKeeps ==
  ASSUME IInv, NEW c \in Callers, Define(c)
  PROVE  IInv'
  <1>1. Inside(c) /\ calls[c].at # "listing" /\ calls[c].op = "create"
    BY DEF Define, At, Inside
  <1>2. PICK n \in Names : n = calls[c].name /\ Typed
    BY <1>1, Alone DEF CallType, IInv
  <1>3. CASE /\ domains' = Ended(n) /\ handles' = handles \cup {Handle(Nobody, n)}
             /\ Ends(c, FALSE) /\ UNCHANGED <<conn, mu>>
    <2>1. OnlyCall(c) /\ calls'[c].at = "returning" /\ calls'[c].op = "create"
      BY <1>1, <1>2, <1>3, CallEnds
    <2>2. GoodCall(c)'
      BY <2>1, <1>1, <1>3, Alone DEF GoodCall, At, Inside
    <2>3. domains' \in [Names -> DomainType] /\ \A m \in Names : Defined(m) => Defined(m)'
      BY <1>2, <1>3, NoneLost
    <2>4. Defined(n)'
      BY <1>2, <1>3, EndedDomain DEF Defined
    <2>5. /\ handles' \subseteq [by : Callers \cup {Nobody}, name : Names]
          /\ \A h \in handles' \ handles : h.by = Nobody /\ h.name = n
      BY <1>2, <1>3 DEF Typed, Handle
    <2> QED BY <1>1, <1>3, <2>1, <2>2, <2>3, <2>4, <2>5, MethodGoesOn
  <1>4. CASE Ends(c, TRUE) /\ UNCHANGED <<conn, mu, domains, handles>>
    BY <1>1, <1>4, FailureKeeps
  <1> QED BY <1>2, <1>3, <1>4 DEF Define

\* The lookup with which StartVM, StopVM and GetVMState begin
LEMMA LookupKeeps ==
  ASSUME IInv, NEW c \in Callers, Lookup(c)
  PROVE  IInv'
  <1>1. Inside(c) /\ calls[c].at # "listing" /\ calls[c].op # "list"
    BY DEF Lookup, Inside
  <1>2. PICK n \in Names : n = calls[c].name /\ Typed
    BY <1>1, Alone DEF CallType, IInv
  <1>3. CASE /\ handles' = handles \cup {Handle(c, n)} /\ Goes(c, "found")
             /\ UNCHANGED <<conn, mu, domains>>
    <2>1. OnlyCall(c) /\ calls'[c].at = "found" /\ calls'[c].op # "list"
      BY <1>1, <1>3, CallMoves DEF Places
    <2>2. GoodCall(c)'
      BY <2>1, <1>1, <1>3, Alone DEF GoodCall, At, Inside
    <2>3. /\ handles' \subseteq [by : Callers \cup {Nobody}, name : Names]
          /\ \A h \in handles' \ handles : h.by = c /\ c # Nobody
      BY <1>2, <1>3, VmAssumption DEF Typed, Handle
    <2> QED BY <1>1, <1>2, <1>3, <2>1, <2>2, <2>3, MethodGoesOn DEF Typed, Defined
  <1>4. CASE Ends(c, TRUE) /\ UNCHANGED <<conn, mu, domains, handles>>
    BY <1>1, <1>4, FailureKeeps
  <1> QED BY <1>2, <1>3, <1>4 DEF Lookup

\* StartVM
LEMMA StartDomainKeeps ==
  ASSUME IInv, NEW c \in Callers, StartDomain(c)
  PROVE  IInv'
  <1>1. Inside(c) /\ calls[c].at # "listing" /\ calls[c].op = "start"
    BY DEF StartDomain, At, Inside
  <1>2. PICK n \in Names : n = calls[c].name /\ Typed
    BY <1>1, Alone DEF CallType, IInv
  <1>3. CASE /\ domains' = Begun(n, "manager") /\ Ends(c, FALSE)
             /\ UNCHANGED <<conn, mu, handles>>
    <2>1. OnlyCall(c) /\ calls'[c].at = "returning" /\ calls'[c].op = "start"
      BY <1>1, <1>2, <1>3, CallEnds
    <2>2. GoodCall(c)'
      BY <2>1, <1>1, <1>3, Alone DEF GoodCall, At, Inside
    <2>3. domains' \in [Names -> DomainType] /\ \A m \in Names : Defined(m) => Defined(m)'
      BY <1>2, <1>3, NoneLost
    <2> QED BY <1>1, <1>2, <1>3, <2>1, <2>2, <2>3, MethodGoesOn DEF Typed
  <1>4. CASE Ends(c, TRUE) /\ UNCHANGED <<conn, mu, domains, handles>>
    BY <1>1, <1>4, FailureKeeps
  <1> QED BY <1>2, <1>3, <1>4 DEF StartDomain

\* StopVM: the request to shut down
LEMMA ShutdownKeeps ==
  ASSUME IInv, NEW c \in Callers, Shutdown(c)
  PROVE  IInv'
  <1>1. Inside(c) /\ calls[c].op = "stop"
    BY DEF Shutdown, At, Inside
  <1>2. PICK n \in Names : n = calls[c].name /\ Typed
    BY <1>1, Alone DEF CallType, IInv
  <1>3. CASE domains' = Asked(n) /\ Ends(c, FALSE) /\ UNCHANGED <<conn, mu, handles>>
    <2>1. /\ OnlyCall(c) /\ calls'[c].at = "returning"
          /\ calls'[c].op = "stop" /\ calls'[c].name = n
      BY <1>1, <1>2, <1>3, CallEnds
    <2>2. domains'[n].asked = "accepted"
      BY <1>2, <1>3, AskedDomain
    <2>3. GoodCall(c)'
      BY <2>1, <2>2, <1>1, <1>3, Alone DEF GoodCall, At, Inside
    <2>4. domains' \in [Names -> DomainType] /\ \A m \in Names : Defined(m) => Defined(m)'
      BY <1>2, <1>3, NoneLost
    <2> QED BY <1>1, <1>2, <1>3, <2>1, <2>3, <2>4, MethodGoesOn DEF Typed
  <1>4. CASE /\ domains' = AskedInVain(n) \/ (UNCHANGED domains /\ ~(Connected /\ Active(n)))
             /\ Goes(c, "refused") /\ UNCHANGED <<conn, mu, handles>>
    <2>1. /\ OnlyCall(c) /\ calls'[c].at = "refused"
          /\ calls'[c].op = "stop" /\ calls'[c].name = n
      BY <1>1, <1>2, <1>4, CallMoves DEF Places
    <2>2. domains'[n].asked # "no" \/ ~(Connected /\ Active(n))'
      BY <1>2, <1>4, AskedDomain DEF Connected, Active
    <2>3. GoodCall(c)'
      BY <2>1, <2>2, <1>1, <1>4, Alone DEF GoodCall, At, Inside
    <2>4. domains' \in [Names -> DomainType] /\ \A m \in Names : Defined(m) => Defined(m)'
      BY <1>2, <1>4, NoneLost
    <2> QED BY <1>1, <1>2, <1>4, <2>1, <2>3, <2>4, MethodGoesOn DEF Typed
  <1> QED BY <1>2, <1>3, <1>4 DEF Shutdown

\* StopVM: Destroy
LEMMA DestroyKeeps ==
  ASSUME IInv, NEW c \in Callers, Destroy(c)
  PROVE  IInv'
  <1>1. Inside(c) /\ calls[c].at # "listing" /\ calls[c].op = "stop"
    BY DEF Destroy, At, Inside
  <1>2. PICK n \in Names : n = calls[c].name /\ Typed
    BY <1>1, Alone DEF CallType, IInv
  <1>3. CASE domains' = Ended(n) /\ Ends(c, FALSE) /\ UNCHANGED <<conn, mu, handles>>
    <2>1. /\ OnlyCall(c) /\ calls'[c].at = "returning"
          /\ calls'[c].op = "stop" /\ calls'[c].name = n
      BY <1>1, <1>2, <1>3, CallEnds
    <2>2. domains'[n].state = "off"
      BY <1>2, <1>3, EndedDomain
    <2>3. GoodCall(c)'
      BY <2>1, <2>2, <1>1, <1>3, Alone DEF GoodCall, At, Inside
    <2>4. domains' \in [Names -> DomainType] /\ \A m \in Names : Defined(m) => Defined(m)'
      BY <1>2, <1>3, NoneLost
    <2> QED BY <1>1, <1>2, <1>3, <2>1, <2>3, <2>4, MethodGoesOn DEF Typed
  <1>4. CASE Ends(c, TRUE) /\ UNCHANGED <<conn, mu, domains, handles>>
    BY <1>1, <1>4, FailureKeeps
  <1> QED BY <1>2, <1>3, <1>4 DEF Destroy

\* GetVMState
LEMMA GetStateKeeps ==
  ASSUME IInv, NEW c \in Callers, GetState(c)
  PROVE  IInv'
  <1>1. Inside(c) /\ calls[c].op = "state"
    BY DEF GetState, At, Inside
  <1>2. OnlyCall(c) /\ calls'[c].at = "returning" /\ calls'[c].op = "state"
    <2>1. Ends(c, TRUE) \/ Ends(c, FALSE)
      BY DEF GetState
    <2> QED BY <1>1, <2>1, CallEnds
  <1>3. GoodCall(c)'
    BY <1>1, <1>2, Alone DEF GoodCall, At, Inside, GetState
  <1> QED BY <1>1, <1>2, <1>3, MethodGoesOn DEF IInv, Typed, Defined, GetState

\* ListVMs: the domains are listed.
LEMMA ListAllKeeps ==
  ASSUME IInv, NEW c \in Callers, ListAll(c)
  PROVE  IInv'
  <1>1. Inside(c) /\ calls[c].op = "list" /\ calls[c].at = "entered"
    BY DEF ListAll, At, Inside
  <1>2. calls[c] \in CallType /\ mu = c /\ calls[c].answer = {} /\ Typed
    BY <1>1, Alone DEF IInv, GoodCall
  <1>3. CASE /\ Connected
             /\ calls' = [calls EXCEPT ![c].at = "listing", ![c].todo = DefinedNames]
             /\ handles' = handles \cup {Handle(c, n) : n \in DefinedNames}
             /\ UNCHANGED <<conn, mu, domains>>
    <2>1. /\ OnlyCall(c) /\ calls'[c].at = "listing" /\ calls'[c].op = "list"
          /\ calls'[c].todo = DefinedNames /\ calls'[c].answer = {}
      <3> DEFINE r == [calls[c] EXCEPT !.at = "listing", !.todo = DefinedNames]
      <3>1. /\ r \in CallType /\ r.at = "listing" /\ r.op = "list"
            /\ r.todo = DefinedNames /\ r.answer = {}
        BY <1>1, <1>2 DEF CallType, Places, DefinedNames
      <3>2. calls' = [calls EXCEPT ![c] = r] /\ calls'[c] = r
        BY <1>2, <1>3 DEF Typed
      <3> QED BY <3>1, <3>2 DEF OnlyCall
    <2>2. DefinedNames' = DefinedNames /\ Connected'
      BY <1>3 DEF DefinedNames, Defined, Connected
    <2>3. Listed(DefinedNames \ DefinedNames)' = {}
      BY DEF Listed
    <2>4. \A h \in handles' : h.by = c => h.name \in DefinedNames
      <3>1. GoodCall(c)
        BY DEF IInv
      <3>2. \A h \in handles : h.by # c
        BY <1>1, <3>1 DEF GoodCall
      <3> QED BY <1>3, <3>2 DEF Handle
    <2>5. GoodCall(c)'
      BY <2>1, <2>2, <2>3, <2>4, <1>2, <1>3 DEF GoodCall, At, Inside
    <2>6. /\ handles' \subseteq [by : Callers \cup {Nobody}, name : Names]
          /\ \A h \in handles' \ handles : h.by = c /\ c # Nobody
      BY <1>2, <1>3, VmAssumption DEF Typed, Handle, DefinedNames
    <2>7. domains' \in [Names -> DomainType] /\ \A n \in Names : Defined(n) => Defined(n)'
      BY <1>2, <1>3 DEF Typed, Defined
    <2> QED BY <1>1, <1>3, <2>1, <2>5, <2>6, <2>7, MethodGoesOn
  <1>4. CASE Ends(c, TRUE) /\ UNCHANGED <<conn, mu, domains, handles>>
    BY <1>1, <1>4, FailureKeeps
  <1> QED BY <1>3, <1>4 DEF ListAll, DefinedNames

\* One more domain joins the list.
LEMMA ListedGrows ==
  ASSUME NEW S, NEW n \in S, NEW T, n \in T
  PROVE  Listed(S \ (T \ {n})) =
           Listed(S \ T) \cup {[name |-> n, state |-> domains[n].state]}
  BY DEF Listed

\* ListVMs: the next domain is asked.
LEMMA ListOneKeeps ==
  ASSUME IInv, NEW c \in Callers, ListOne(c)
  PROVE  IInv'
  <1>1. Inside(c) /\ At(c, "list", "listing")
    BY DEF ListOne, At, Inside
  <1>2. calls[c] \in CallType /\ mu = c /\ Typed
    BY <1>1, Alone DEF IInv
  <1> DEFINE entry(n) ==
        [name |-> n, state |-> IF Connected THEN domains[n].state ELSE "unknown"]
  <1>3. PICK n \in calls[c].todo :
          /\ calls' = [calls EXCEPT ![c].todo = @ \ {n}, ![c].answer = @ \cup {entry(n)}]
          /\ handles' = handles \ {Handle(c, n)}
    BY DEF ListOne
  <1>4. UNCHANGED <<conn, mu, domains>>
    BY DEF ListOne
  <1>5. entry(n) \in [name : Names, state : States \cup {"unknown"}]
    BY <1>2 DEF Typed, DomainType, CallType
  <1>6. /\ OnlyCall(c) /\ calls'[c].at = "listing" /\ calls'[c].op = "list"
        /\ calls'[c].todo = calls[c].todo \ {n}
        /\ calls'[c].answer = calls[c].answer \cup {entry(n)}
        /\ calls'[c].disturbed = calls[c].disturbed
    <2> DEFINE r == [calls[c] EXCEPT !.todo = @ \ {n}, !.answer = @ \cup {entry(n)}]
    <2> HIDE DEF entry
    <2>1. /\ r \in CallType /\ r.at = "listing" /\ r.op = "list"
          /\ r.todo = calls[c].todo \ {n} /\ r.answer = calls[c].answer \cup {entry(n)}
          /\ r.disturbed = calls[c].disturbed
      BY <1>1, <1>2, <1>5 DEF CallType, At
    <2>2. calls' = [calls EXCEPT ![c] = r] /\ calls'[c] = r
      BY <1>2, <1>3 DEF Typed
    <2> QED BY <2>1, <2>2 DEF OnlyCall
  <1>7. DefinedNames' = DefinedNames /\ Connected' = Connected
    BY <1>4 DEF DefinedNames, Defined, Connected
  <1>8. PICK left, told : /\ left = calls[c].todo \ {n}
                          /\ told = calls[c].answer \cup {entry(n)}
    OBVIOUS
  <1>9. ~calls[c].disturbed => /\ Connected' /\ left \subseteq DefinedNames'
                               /\ told = Listed(DefinedNames \ left)'
    <2> SUFFICES ASSUME ~calls[c].disturbed
                 PROVE  /\ Connected' /\ left \subseteq DefinedNames'
                        /\ told = Listed(DefinedNames \ left)'
      OBVIOUS
    <2>1. /\ Connected /\ calls[c].todo \subseteq DefinedNames
          /\ calls[c].answer = Listed(DefinedNames \ calls[c].todo)
      BY <1>1 DEF IInv, GoodCall
    <2>2. entry(n) = [name |-> n, state |-> domains[n].state]
      BY <2>1
    <2> HIDE DEF entry
    <2>3. told = Listed(DefinedNames \ left)
      BY <1>8, <2>1, <2>2, ListedGrows
    <2>4. Listed(DefinedNames \ left)' = Listed(DefinedNames \ left)
      BY <1>4, <1>7 DEF Listed
    <2> QED BY <1>7, <1>8, <2>1, <2>3, <2>4
  <1> HIDE DEF entry
  <1>10. \A h \in handles' : h.by = c => h.name \in calls'[c].todo
    <2> SUFFICES ASSUME NEW h \in handles', h.by = c PROVE h.name \in calls'[c].todo
      OBVIOUS
    <2>1. h \in handles /\ h # Handle(c, n) /\ h.name \in calls[c].todo
      BY <1>1, <1>3 DEF IInv, GoodCall, At
    <2>2. h = Handle(h.by, h.name)
      BY <1>2, <2>1 DEF Typed, Handle
    <2> QED BY <1>6, <2>1, <2>2
  <1>11. GoodCall(c)'
    BY <1>2, <1>4, <1>6, <1>8, <1>9, <1>10 DEF GoodCall, At, Inside
  <1>12. handles' \subseteq handles
    BY <1>3
  <1> QED BY <1>1, <1>2, <1>4, <1>6, <1>11, <1>12, MethodGoesOn DEF Typed, Defined

\* ListVMs: the list is complete.
LEMMA ListDoneKeeps ==
  ASSUME IInv, NEW c \in Callers, ListDone(c)
  PROVE  IInv'
  <1>1. Inside(c) /\ At(c, "list", "listing") /\ calls[c].todo = {}
    BY DEF ListDone, At, Inside
  <1>2. /\ OnlyCall(c) /\ calls'[c].at = "returning" /\ calls'[c].op = "list"
        /\ calls'[c].answer = calls[c].answer /\ calls'[c].disturbed = calls[c].disturbed
    BY <1>1, CallEnds DEF ListDone, At
  <1>3. Listed(DefinedNames)' = Listed(DefinedNames)
    BY DEF ListDone, Listed, DefinedNames, Defined
  <1>4. ~calls[c].disturbed => calls[c].answer = Listed(DefinedNames)
    <2>1. DefinedNames \ {} = DefinedNames
      OBVIOUS
    <2> QED BY <1>1, <2>1 DEF IInv, GoodCall
  <1>5. \A h \in handles : h.by # c
    BY <1>1 DEF IInv, GoodCall, At
  <1>6. GoodCall(c)'
    BY <1>1, <1>2, <1>3, <1>4, <1>5, Alone DEF GoodCall, At, Inside, ListDone
  <1> QED BY <1>1, <1>2, <1>6, MethodGoesOn DEF IInv, Typed, Defined, ListDone

\* The deferred functions
LEMMA ReturnKeeps ==
  ASSUME IInv, NEW c \in Callers, Return(c)
  PROVE  IInv'
  <1>1. Inside(c) /\ calls[c].at = "returning"
    BY DEF Return, Inside
  <1>2. handles' \subseteq handles /\ \A h \in handles' : h.by # c
    BY <1>1 DEF IInv, GoodCall, Return
  <1> QED BY <1>1, <1>2, MethodStep DEF IInv, Typed, Defined, Return

-----------------------------------------------------------------------------
(* The other steps *)

\* A goroutine calls a method.
LEMMA CallKeeps ==
  ASSUME IInv, NEW c \in Callers, Call(c)
  PROVE  IInv'
  <1>1. calls' \in [Callers -> {NoCall, Waiting} \cup CallType] /\ calls'[c] = Waiting
    BY DEF IInv, Typed, Call
  <1>2. ~Inside(c) /\ ~Inside(c)'
    BY <1>1 DEF Call, Inside, NoCall, Waiting
  <1>3. ASSUME NEW d \in Callers \ {c} PROVE calls'[d] = calls[d]
    BY DEF IInv, Typed, Call
  <1>4. GoodCall(c)'
    BY <1>1, <1>2 DEF IInv, GoodCall, At, Waiting, Call
  <1>5. ASSUME NEW d \in Callers \ {c} PROVE GoodCall(d)'
    BY <1>3 DEF IInv, GoodCall, At, Inside, Connected, Active, Listed, DefinedNames,
                Defined, Call
  <1>6. HandlesFreed'
    BY <1>2, <1>3 DEF IInv, GoodCall, HandlesFreed, Typed, Inside, Defined, Call
  <1>7. CallsNeedManager'
    BY DEF CallsNeedManager, URIs, Call
  <1> QED BY <1>1, <1>4, <1>5, <1>6, <1>7 DEF IInv, Typed, Call

\* A goroutine gets the lock: no other call is inside.
LEMMA LockKeeps ==
  ASSUME IInv, NEW c \in Callers, Lock(c)
  PROVE  IInv'
  <1>1. PICK op \in Ops, n \in Names : calls' = [calls EXCEPT ![c] = Calling(op, n)]
    BY DEF Lock, Enters
  <1>2. Calling(op, n) \in CallType /\ Calling(op, n).at = "entered"
        /\ Calling(op, n).answer = {}
    BY DEF Calling, CallType, Places
  <1>3. calls' \in [Callers -> {NoCall, Waiting} \cup CallType] /\ calls'[c] = Calling(op, n)
    BY <1>1, <1>2 DEF IInv, Typed
  <1>4. GoodCall(c)'
    <2>1. mu = Nobody /\ handles' = handles /\ \A h \in handles : h.by # c
      BY VmAssumption DEF IInv, HandlesFreed, Lock, Enters
    <2> QED BY <1>2, <1>3, <2>1 DEF GoodCall, At, Inside, Lock
  <1>5. ASSUME NEW d \in Callers PROVE ~Inside(d)
    BY VmAssumption DEF IInv, GoodCall, Lock
  <1>6. ASSUME NEW d \in Callers \ {c} PROVE GoodCall(d)'
    <2>1. calls'[d] = calls[d] /\ calls'[d].at \in {"idle", "waiting"}
      BY <1>1, <1>5 DEF IInv, Typed, Inside
    <2> QED BY <2>1 DEF GoodCall, At, Inside, Lock
  <1>7. HandlesFreed'
    BY <1>5 DEF IInv, HandlesFreed, Defined, Lock, Enters
  <1>8. CallsNeedManager'
    BY DEF IInv, CallsNeedManager, Lock, Enters, NoCall, Waiting
  <1> QED BY <1>3, <1>4, <1>6, <1>7, <1>8 DEF IInv, Typed, Lock, Enters

\* A Manager is made, and closed: no call is under way.
LEMMA ConnectKeeps ==
  ASSUME IInv, Connect \/ Close
  PROVE  IInv'
  <1>1. /\ UNCHANGED <<mu, calls, domains, handles>>
        /\ conn' \in URIs \cup {"closed"}
        /\ \A c \in Callers : calls[c] = NoCall
    <2>1. CASE Connect
      BY <2>1 DEF Connect, URIs, IInv, CallsNeedManager
    <2>2. CASE Close
      BY <2>2 DEF Close
    <2> QED BY <2>1, <2>2
  <1>2. ASSUME NEW c \in Callers PROVE GoodCall(c)'
    <2>1. calls[c].at = "idle" /\ calls'[c].at = "idle"
      BY <1>1 DEF NoCall
    <2> QED BY <1>1, <2>1 DEF IInv, GoodCall, At, Inside
  <1>3. HandlesFreed'
    BY <1>1 DEF IInv, HandlesFreed, Inside, Defined
  <1> QED BY <1>1, <1>2, <1>3 DEF IInv, Typed, CallsNeedManager

\* A domain that changes is off, or has been asked to shut down, or is the command
\* line's.
Harmless ==
  /\ domains' \in [Names -> DomainType]
  /\ \A n \in Names : Defined(n) => Defined(n)'
  /\ \A n \in Names : \/ domains'[n] = domains[n]
                      \/ domains'[n].state = "off"
                      \/ domains'[n].asked = "accepted"
                      \/ domains'[n].startedBy = "cli"

\* What happens underneath breaks no call, and a list under way takes note.
LEMMA UnderneathKeeps ==
  ASSUME IInv, Underneath,
         conn' = conn \/ (conn \in URIs /\ conn' = "broken"),
         Harmless
  PROVE  IInv'
  <1>1. ASSUME NEW c \in Callers
        PROVE  \/ calls'[c] = calls[c] /\ (Inside(c) => calls[c].op # "list")
               \/ /\ Inside(c) /\ calls[c].op = "list"
                  /\ calls'[c] \in CallType /\ calls'[c].at = calls[c].at
                  /\ calls'[c].op = "list" /\ calls'[c].disturbed
                  /\ calls'[c].answer = calls[c].answer
                  /\ calls'[c].todo = calls[c].todo
    <2>1. CASE Inside(c) /\ calls[c].op = "list"
      BY <2>1, Alone DEF Underneath, Disturbed, CallType
    <2>2. CASE ~(Inside(c) /\ calls[c].op = "list")
      BY <2>2 DEF Underneath, Disturbed
    <2> QED BY <2>1, <2>2
  <1>2. Typed'
    BY <1>1 DEF IInv, Typed, Underneath, Disturbed, Harmless
  <1>3. ASSUME NEW c \in Callers PROVE Inside(c)' <=> Inside(c)
    BY <1>1 DEF Inside
  <1>4. ASSUME NEW c \in Callers PROVE GoodCall(c)'
    <2>1. CASE ~Inside(c)
      BY <2>1, <1>1, <1>3 DEF IInv, GoodCall, At, Inside, Underneath
    <2>2. CASE Inside(c) /\ calls[c].op = "list"
      BY <2>2, <1>1, <1>3 DEF IInv, GoodCall, At, Underneath
    <2>3. CASE Inside(c) /\ calls[c].op # "list"
      <3>1. calls'[c] = calls[c] /\ calls[c].name \in Names
        BY <2>3, <1>1, Alone DEF CallType
      <3> QED BY <2>3, <3>1, <1>3 DEF IInv, GoodCall, At, Active, Connected, URIs, Underneath,
                                 Harmless
    <2> QED BY <2>1, <2>2, <2>3
  <1>5. HandlesFreed'
    BY <1>3 DEF IInv, Typed, HandlesFreed, Underneath, Harmless
  <1>6. CallsNeedManager'
    BY <1>1 DEF IInv, CallsNeedManager, URIs, Inside, NoCall
  <1> QED BY <1>2, <1>4, <1>5, <1>6 DEF IInv

\* A guest ends its run, the command line starts or stops one, or the daemon goes.
LEMMA EnvironmentKeeps ==
  ASSUME IInv, (\E n \in Names : Environment(n)) \/ DaemonStops
  PROVE  IInv'
  <1>0. Typed
    BY DEF IInv
  <1>1. ASSUME NEW n \in Names, Environment(n) PROVE IInv'
    <2>1. /\ Underneath /\ conn' = conn
          /\ domains' \in {Ended(n), Begun(n, "cli"), Asked(n)}
      BY <1>1 DEF Environment, PowersOff, CliStart, CliStop
    <2>2. domains' \in [Names -> DomainType] /\ \A m \in Names : Defined(m) => Defined(m)'
      BY <2>1, <1>0, NoneLost
    <2>3. \A m \in Names \ {n} : domains'[m] = domains[m]
      BY <2>1, <1>0, EndedDomain, BegunDomain, AskedDomain
    <2>4. \/ domains'[n].state = "off" \/ domains'[n].asked = "accepted"
          \/ domains'[n].startedBy = "cli"
      BY <2>1, <1>0, EndedDomain, BegunDomain, AskedDomain
    <2>5. Harmless
      BY <2>2, <2>3, <2>4 DEF Harmless
    <2> QED BY <2>1, <2>5, UnderneathKeeps
  <1>2. CASE DaemonStops
    <2>1. Underneath /\ conn \in URIs /\ conn' = "broken" /\ domains' = domains
      BY <1>2 DEF DaemonStops, Connected
    <2>2. Harmless
      BY <2>1 DEF IInv, Typed, Defined, Harmless
    <2> QED BY <2>1, <2>2, UnderneathKeeps
  <1> QED BY <1>1, <1>2

\* Whatever step of its method a goroutine takes
LEMMA GoroutineKeeps ==
  ASSUME IInv, NEW c \in Callers, Goroutine(c)
  PROVE  IInv'
  BY DefineKeeps, LookupKeeps, StartDomainKeeps, ShutdownKeeps, DestroyKeeps,
     GetStateKeeps, ListAllKeeps, ListOneKeeps, ListDoneKeeps, ReturnKeeps
  DEF Goroutine, Stop, List

-----------------------------------------------------------------------------
(* The theorems *)

\* The invariant holds in every state that the Manager can reach.
THEOREM InductiveInvariant == Spec => []IInv
  <1>1. Init => IInv
    <2> SUFFICES ASSUME Init PROVE IInv
      OBVIOUS
    <2>1. Undefined \in DomainType
      BY DEF Undefined, Domain, DomainType, States
    <2>2. Typed
      BY <2>1 DEF Init, Typed
    <2>3. ASSUME NEW c \in Callers PROVE GoodCall(c)
      BY VmAssumption DEF Init, GoodCall, At, Inside, NoCall
    <2> QED BY <2>2, <2>3 DEF Init, IInv, HandlesFreed, CallsNeedManager
  <1>2. IInv /\ [Next]_vars => IInv'
    <2> SUFFICES ASSUME IInv, [Next]_vars PROVE IInv'
      OBVIOUS
    <2>1. CASE Connect \/ Close
      BY <2>1, ConnectKeeps
    <2>2. ASSUME NEW c \in Callers, Call(c) \/ Lock(c) \/ Goroutine(c) PROVE IInv'
      BY <2>2, CallKeeps, LockKeeps, GoroutineKeeps
    <2>3. CASE (\E n \in Names : Environment(n)) \/ DaemonStops
      BY <2>3, EnvironmentKeeps
    <2>4. CASE UNCHANGED vars
      <3>1. UNCHANGED <<conn, mu, calls, domains, handles>>
        BY <2>4 DEF vars
      <3>2. ASSUME NEW c \in Callers PROVE GoodCall(c)'
        BY <3>1 DEF IInv, GoodCall, At, Inside, Connected, Active, Listed, DefinedNames,
                    Defined
      <3> QED BY <3>1, <3>2 DEF IInv, Typed, HandlesFreed, CallsNeedManager, Inside, Defined
    <2> QED BY <2>1, <2>2, <2>3, <2>4 DEF Next
  <1> QED BY <1>1, <1>2, PTL DEF Spec

\* Type correctness, and: who is past Lock holds the mutex.
THEOREM TypeCorrect == Spec => []TypeOK
  BY InductiveInvariant, IInvImplies, PTL

\* StopVM kills no guest that StartVM began without asking it first (vm.go:73-76).
THEOREM GuestsAreAsked == Spec => []AskedBeforeKilled
  BY InductiveInvariant, IInvImplies, PTL

\* What a StopVM that returns nil has achieved (vm.go:74-79)
THEOREM StopsAreHeard == Spec => []StopIsHeard
  BY InductiveInvariant, IInvImplies, PTL

\* ListVMs shows no other call half-done (libvirt.go:82-106).
THEOREM ListsAreSnapshots == Spec => []ListIsSnapshot
  BY InductiveInvariant, IInvImplies, PTL

\* No call leaves a handle behind but CreateWindowsVM (vm.go:36).
THEOREM HandlesAreFreed == Spec => []HandlesFreed
  BY InductiveInvariant, IInvImplies, PTL
=============================================================================
