-------------------------- MODULE SupervisorProofs --------------------------
(***************************************************************************)
(* Proofs, for every set of services and every size of the process table,  *)
(* that PID 1 runs at most one instance of a program.                      *)
(***************************************************************************)
EXTENDS Supervisor, TLAPS

-----------------------------------------------------------------------------
(* The inductive invariant *)

Working == {"unborn", "delayed", "starting", "resting", "over"}

GoroutineType == [at : Working] \cup [at : {"waiting"}, pid : Pids]

ProcType ==
  [kind : {"child", "helper"}, program : Programs,
   state : {"runs", "clean", "failed"}, parent : Pids \cup {0}]

Typed ==
  /\ main \in {"mounting", "launching", "announcing", "asleep"}
  /\ binaries \subseteq Services
  /\ goroutine \in [Programs -> GoroutineType]
  /\ procs \in [Pids -> {NoProc} \cup ProcType]
  /\ forks \in 0 .. MaxForks

\* No goroutine exists before the go statements.
NoneBeforeLaunch ==
  main \in {"mounting", "launching"} => \A s \in Programs : At(s, "unborn")

\* A goroutine that waits does so for a child of its own, ended or not; nobody else
\* takes it out of the table.
WaitsForChild(s) ==
  At(s, "waiting") =>
    /\ procs[goroutine[s].pid].kind = "child"
    /\ procs[goroutine[s].pid].program = s

\* A child is PID 1's own, and the goroutine of its program waits for it.
IsWaitedFor(p) ==
  procs[p].kind = "child" =>
    LET s == procs[p].program IN
    procs[p].parent = 0 /\ At(s, "waiting") /\ goroutine[s].pid = p

Paired == (\A s \in Programs : WaitsForChild(s)) /\ (\A p \in Pids : IsWaitedFor(p))

IInv == Typed /\ NoneBeforeLaunch /\ Paired

\* The invariant is what the properties say, and more.
LEMMA IInvImplies == IInv => TypeOK /\ OneInstance
  <1> SUFFICES ASSUME IInv PROVE TypeOK /\ OneInstance
    OBVIOUS
  <1>1. TypeOK
    BY DEF IInv, Typed, Paired, WaitsForChild, TypeOK, GoroutineType, Working, ProcType,
           At, Used
  <1>2. OneInstance
    BY DEF IInv, Paired, IsWaitedFor, OneInstance, RunningChildren, Used
  <1> QED BY <1>1, <1>2

-----------------------------------------------------------------------------
(* The steps *)

\* A goroutine that does not wait goes elsewhere, and waits not there either.
LEMMA GoesOn ==
  ASSUME IInv, NEW s \in Programs, NEW place \in Working,
         goroutine[s].at \in Working \ {"unborn"}, Goes(s, place),
         UNCHANGED <<main, binaries, procs, forks>>
  PROVE  IInv'
  <1>1. Typed' /\ goroutine'[s] = [at |-> place]
        /\ \A t \in Programs \ {s} : goroutine'[t] = goroutine[t]
    BY DEF IInv, Typed, GoroutineType, Goes
  <1>2. NoneBeforeLaunch'
    BY DEF IInv, NoneBeforeLaunch, At
  <1>3. ASSUME NEW t \in Programs PROVE WaitsForChild(t)'
    BY <1>1 DEF IInv, Paired, WaitsForChild, At, Working
  <1>4. ASSUME NEW p \in Pids PROVE IsWaitedFor(p)'
    <2>1. procs[p].kind = "child" => procs[p].program \in Programs \ {s}
      BY DEF IInv, Typed, Paired, IsWaitedFor, ProcType, NoProc, At, Working
    <2> QED BY <1>1, <2>1 DEF IInv, Paired, IsWaitedFor, At
  <1> QED BY <1>1, <1>2, <1>3, <1>4 DEF IInv, Paired

\* main's own steps
LEMMA MainKeeps ==
  ASSUME IInv, MainStep
  PROVE  IInv'
  <1>1. CASE MountSystem \/ Announce
    BY <1>1 DEF MountSystem, Announce, IInv, Typed, NoneBeforeLaunch, Paired,
                WaitsForChild, IsWaitedFor, At
  <1>2. CASE Launch
    <2>1. \A s \in Programs : goroutine'[s] = [at |-> "delayed"]
      BY <1>2 DEF Launch
    <2>2. Typed'
      BY <1>2 DEF Launch, IInv, Typed, GoroutineType, Working
    <2>3. ASSUME NEW p \in Pids PROVE procs[p].kind # "child"
      BY <1>2 DEF Launch, IInv, Typed, NoneBeforeLaunch, Paired, IsWaitedFor, At,
                  ProcType, NoProc
    <2>4. Paired'
      BY <1>2, <2>1, <2>3 DEF Launch, Paired, WaitsForChild, IsWaitedFor, At
    <2> QED BY <1>2, <2>2, <2>4 DEF Launch, IInv, NoneBeforeLaunch
  <1> QED BY <1>1, <1>2 DEF MainStep

\* cmd.Run starts a process where the table is free.
LEMMA RunKeeps ==
  ASSUME IInv, NEW s \in Programs, Run(s)
  PROVE  IInv'
  <1>1. PICK p \in Pids \ Used :
          /\ procs' = [procs EXCEPT ![p] = Proc(s, "child", 0)]
          /\ goroutine' = [goroutine EXCEPT ![s] = [at |-> "waiting", pid |-> p]]
    BY DEF Run
  <1>2. /\ procs[p].kind = "none"
        /\ procs'[p] = Proc(s, "child", 0) /\ goroutine'[s] = [at |-> "waiting", pid |-> p]
        /\ \A q \in Pids \ {p} : procs'[q] = procs[q]
        /\ \A t \in Programs \ {s} : goroutine'[t] = goroutine[t]
    BY <1>1 DEF IInv, Typed, Used, NoProc
  <1>3. Typed'
    BY <1>1 DEF IInv, Typed, Run, GoroutineType, ProcType, Proc
  <1>4. ASSUME NEW t \in Programs PROVE WaitsForChild(t)'
    <2>1. CASE t = s
      BY <1>2, <2>1 DEF WaitsForChild, Proc
    <2>2. CASE t # s
      <3>1. At(t, "waiting") => goroutine[t].pid \in Pids \ {p}
        BY <1>2 DEF IInv, Typed, GoroutineType, Working, Paired, WaitsForChild, At
      <3> QED BY <1>2, <2>2, <3>1 DEF IInv, Paired, WaitsForChild, At
    <2> QED BY <2>1, <2>2
  <1>5. ASSUME NEW q \in Pids PROVE IsWaitedFor(q)'
    <2>1. CASE q = p
      BY <1>2, <2>1 DEF IsWaitedFor, Proc, At
    <2>2. CASE q # p
      <3>1. procs[q].kind = "child" => procs[q].program \in Programs \ {s}
        BY DEF IInv, Typed, Paired, IsWaitedFor, ProcType, NoProc, At, Run
      <3> QED BY <1>2, <2>2, <3>1 DEF IInv, Paired, IsWaitedFor, At
    <2> QED BY <2>1, <2>2
  <1>6. NoneBeforeLaunch'
    BY DEF IInv, NoneBeforeLaunch, Run, At
  <1> QED BY <1>3, <1>4, <1>5, <1>6 DEF IInv, Paired

\* cmd.Run returns: the process leaves the table.
LEMMA WaitKeeps ==
  ASSUME IInv, NEW s \in Programs, Wait(s)
  PROVE  IInv'
  <1> DEFINE p == goroutine[s].pid
  <1>1. PICK place \in Working : Goes(s, place)
    BY DEF Wait, Working
  <1>2. p \in Pids /\ procs[p].kind = "child" /\ procs[p].program = s
    BY DEF IInv, Typed, GoroutineType, Working, Paired, WaitsForChild, Wait, At
  <1>3. /\ procs'[p] = NoProc /\ goroutine'[s] = [at |-> place]
        /\ \A q \in Pids \ {p} : procs'[q] = procs[q]
        /\ \A t \in Programs \ {s} : goroutine'[t] = goroutine[t]
    BY <1>1, <1>2 DEF Wait, Goes, IInv, Typed
  <1>4. Typed'
    <2>1. goroutine' \in [Programs -> GoroutineType]
      BY <1>1 DEF IInv, Typed, Goes, GoroutineType
    <2>2. procs' \in [Pids -> {NoProc} \cup ProcType]
      BY DEF IInv, Typed, Wait
    <2> QED BY <2>1, <2>2 DEF IInv, Typed, Wait
  <1>5. ASSUME NEW t \in Programs PROVE WaitsForChild(t)'
    <2>1. CASE t = s
      BY <1>3, <2>1 DEF WaitsForChild, At, Working
    <2>2. CASE t # s
      <3>1. At(t, "waiting") => goroutine[t].pid \in Pids \ {p}
        BY <1>2, <2>2 DEF IInv, Typed, GoroutineType, Working, Paired, WaitsForChild, At
      <3> QED BY <1>3, <2>2, <3>1 DEF IInv, Paired, WaitsForChild, At
    <2> QED BY <2>1, <2>2
  <1>6. ASSUME NEW q \in Pids PROVE IsWaitedFor(q)'
    <2>1. CASE q = p
      BY <1>3, <2>1 DEF IsWaitedFor, NoProc
    <2>2. CASE q # p
      <3>1. procs[q].kind = "child" => procs[q].program \in Programs \ {s}
        BY <2>2 DEF IInv, Typed, Paired, IsWaitedFor, ProcType, NoProc
      <3> QED BY <1>3, <2>2, <3>1 DEF IInv, Paired, IsWaitedFor, At
    <2> QED BY <2>1, <2>2
  <1>7. NoneBeforeLaunch'
    BY DEF IInv, NoneBeforeLaunch, Wait, At
  <1> QED BY <1>4, <1>5, <1>6, <1>7 DEF IInv, Paired

\* The steps of a goroutine
LEMMA GoroutineKeeps ==
  ASSUME IInv, NEW s \in Programs, GoroutineStep(s)
  PROVE  IInv'
  <1>1. CASE DelayOver(s) \/ RunFails(s) \/ RestOver(s)
    <2>1. PICK place \in Working : Goes(s, place)
      BY <1>1 DEF DelayOver, RunFails, RestOver, Working
    <2>2. /\ goroutine[s].at \in Working \ {"unborn"}
          /\ UNCHANGED <<main, binaries, procs, forks>>
      BY <1>1 DEF DelayOver, RunFails, RestOver, At, Working
    <2> QED BY <2>1, <2>2, GoesOn
  <1> QED BY <1>1, RunKeeps, WaitKeeps DEF GoroutineStep

\* A step of the processes touches no child but for its state.
LEMMA ChildrenStay ==
  ASSUME IInv, Typed', UNCHANGED <<main, binaries, goroutine>>,
         \A p \in Pids :
           \/ procs'[p] = procs[p]
           \/ procs[p].kind # "child" /\ procs'[p].kind # "child"
           \/ /\ procs'[p].kind = procs[p].kind /\ procs'[p].program = procs[p].program
              /\ procs'[p].parent \in {0, procs[p].parent}
  PROVE  IInv'
  <1>1. NoneBeforeLaunch'
    BY DEF IInv, NoneBeforeLaunch, At
  <1>2. ASSUME NEW s \in Programs PROVE WaitsForChild(s)'
    <2>1. At(s, "waiting") => goroutine[s].pid \in Pids
      BY DEF IInv, Typed, GoroutineType, Working, At
    <2> QED BY <2>1 DEF IInv, Paired, WaitsForChild, At
  <1>3. ASSUME NEW p \in Pids PROVE IsWaitedFor(p)'
    BY DEF IInv, Paired, IsWaitedFor, At
  <1> QED BY <1>1, <1>2, <1>3 DEF IInv, Paired

\* The steps of the processes
LEMMA ProcessKeeps ==
  ASSUME IInv, NEW p \in Pids, ProcessStep(p)
  PROVE  IInv'
  <1>1. CASE Fork(p)
    <2>1. PICK q \in Pids \ Used :
            procs' = [procs EXCEPT ![q] = Proc(procs[p].program, "helper", p)]
      BY <1>1 DEF Fork
    <2>2. procs[p] \in ProcType
      BY <1>1 DEF Fork, Used, IInv, Typed
    <2>3. Proc(procs[p].program, "helper", p) \in ProcType
      BY <2>2 DEF ProcType, Proc
    <2>4. Typed'
      BY <1>1, <2>1, <2>3, SupervisorAssumption DEF Fork, IInv, Typed
    <2>5. procs[q].kind = "none" /\ procs'[q].kind = "helper"
      BY <2>1 DEF Used, NoProc, Proc, IInv, Typed
    <2>6. \A r \in Pids \ {q} : procs'[r] = procs[r]
      BY <2>1 DEF IInv, Typed
    <2> QED BY <1>1, <2>4, <2>5, <2>6, ChildrenStay DEF Fork
  <1>2. CASE ParentWaits(p)
    <2>1. procs[p].kind # "child"
      BY <1>2 DEF ParentWaits, IInv, Paired, IsWaitedFor
    <2>2. Typed'
      BY <1>2 DEF ParentWaits, IInv, Typed
    <2>3. procs'[p].kind = "none" /\ \A r \in Pids \ {p} : procs'[r] = procs[r]
      BY <1>2 DEF ParentWaits, IInv, Typed, NoProc
    <2> QED BY <1>2, <2>1, <2>2, <2>3, ChildrenStay DEF ParentWaits
  <1>3. ASSUME NEW how \in {"clean", "failed"}, End(p, how) PROVE IInv'
    <2> DEFINE ended == [procs EXCEPT ![p].state = how]
    <2>1. procs[p] \in ProcType
      BY <1>3 DEF End, Used, IInv, Typed
    <2>2. /\ ended \in [Pids -> {NoProc} \cup ProcType]
          /\ \A r \in Pids : /\ ended[r].kind = procs[r].kind
                             /\ ended[r] \in ProcType =>
                                  /\ procs[r] \in ProcType
                                  /\ ended[r].program = procs[r].program
                                  /\ ended[r].parent = procs[r].parent
                             /\ ended[r] = NoProc => procs[r] = NoProc
      BY <2>1 DEF IInv, Typed, ProcType, NoProc
    <2>3. procs' = HandedOver(ended, p)
      BY <1>3 DEF End
    <2> HIDE DEF ended
    <2>4. ASSUME NEW r \in Pids
          PROVE  /\ procs'[r] \in {NoProc} \cup ProcType
                 /\ \/ procs'[r] = procs[r]
                    \/ /\ procs'[r].kind = procs[r].kind
                       /\ procs'[r].program = procs[r].program
                       /\ procs'[r].parent \in {0, procs[r].parent}
      <3>1. CASE ended[r] = NoProc
        BY <2>2, <2>3, <3>1 DEF HandedOver
      <3>2. CASE ended[r] \in ProcType
        BY <2>2, <2>3, <3>2 DEF HandedOver, ProcType
      <3> QED BY <2>2, <3>1, <3>2
    <2>5. Typed'
      BY <1>3, <2>3, <2>4 DEF End, HandedOver, IInv, Typed
    <2> QED BY <1>3, <2>4, <2>5, ChildrenStay DEF End
  <1> QED BY <1>1, <1>2, <1>3 DEF ProcessStep

-----------------------------------------------------------------------------
(* The theorems *)

\* The invariant holds in every state that PID 1 and its processes can reach.
THEOREM InductiveInvariant == Spec => []IInv
  <1>1. Init => IInv
    BY SupervisorAssumption
    DEF Init, IInv, Typed, GoroutineType, Working, NoneBeforeLaunch, Paired,
        WaitsForChild, IsWaitedFor, At, NoProc
  <1>2. IInv /\ [Next]_vars => IInv'
    <2> SUFFICES ASSUME IInv, [Next]_vars PROVE IInv'
      OBVIOUS
    <2>1. CASE MainStep
      BY <2>1, MainKeeps
    <2>2. ASSUME NEW s \in Programs, GoroutineStep(s) PROVE IInv'
      BY <2>2, GoroutineKeeps
    <2>3. ASSUME NEW p \in Pids, ProcessStep(p) PROVE IInv'
      BY <2>3, ProcessKeeps
    <2>4. CASE UNCHANGED vars
      BY <2>4 DEF vars, IInv, Typed, NoneBeforeLaunch, Paired, WaitsForChild,
                  IsWaitedFor, At
    <2> QED BY <2>1, <2>2, <2>3, <2>4 DEF Next
  <1> QED BY <1>1, <1>2, PTL DEF Spec

\* Type correctness, and: a goroutine waits for a child of PID 1 (main.go:90).
THEOREM TypeCorrect == Spec => []TypeOK
  BY InductiveInvariant, IInvImplies, PTL

\* However often a service crashes, and whatever it leaves running, PID 1 runs it once
\* (main.go:80-96).
THEOREM RunsOnce == Spec => []OneInstance
  BY InductiveInvariant, IInvImplies, PTL
=============================================================================
