----------------------------- MODULE Supervisor -----------------------------
(***************************************************************************)
(* PID 1 (cmd/init/main.go): main mounts the file systems, starts one      *)
(* goroutine per service and one for the debug shell, and sleeps.  Each    *)
(* goroutine runs its program as a child process; a service that fails is  *)
(* run again, and the shell is not.                                        *)
(*                                                                         *)
(* The kernel's process table is part of the state: a child that has ended *)
(* stays in it until its parent waits for it, and a process whose parent   *)
(* has ended is handed to PID 1.  Sleeps are steps that come at any time.  *)
(***************************************************************************)
EXTENDS Integers, FiniteSets

CONSTANTS Services,   \* the services, by name
          Shell,      \* the debug shell
          Pids,       \* the numbers that processes can have
          MaxForks    \* bound: processes that the services start themselves

ASSUME SupervisorAssumption == Shell \notin Services /\ MaxForks \in Nat

Programs == Services \cup {Shell}

VARIABLES main,      \* where main is: "mounting", "launching", "announcing", "asleep"
          binaries,  \* the services whose binary os.Stat does not miss
          goroutine, \* [Programs -> where the goroutine of the program is]
          procs,     \* the process table: [Pids -> process or NoProc]
          forks      \* how many processes the services have started

vars == <<main, binaries, goroutine, procs, forks>>

-----------------------------------------------------------------------------
(* The process table *)

NoProc == [kind |-> "none"]

\* kind   "child" of a goroutine, or "helper" that a service started
\* state  "runs", or how it ended: "clean" (exit status 0) or "failed"
\* parent the pid of the parent, 0 once that is PID 1
Proc(program, kind, parent) ==
  [kind |-> kind, program |-> program, state |-> "runs", parent |-> parent]

Used == {p \in Pids : procs[p] # NoProc}

Zombie(p) == p \in Used /\ procs[p].state # "runs"

\* The children of p are handed to PID 1.
HandedOver(table, p) ==
  [q \in Pids |-> IF table[q] # NoProc /\ table[q].parent = p
                  THEN [table[q] EXCEPT !.parent = 0] ELSE table[q]]

RunningChildren(s) ==
  {p \in Used : procs[p].kind = "child" /\ procs[p].program = s
                  /\ procs[p].state = "runs"}

At(s, place) == goroutine[s].at = place

Goes(s, place) == goroutine' = [goroutine EXCEPT ![s] = [at |-> place]]

-----------------------------------------------------------------------------

Init ==
  /\ main = "mounting"
  /\ binaries \in SUBSET Services
  /\ goroutine = [s \in Programs |-> [at |-> "unborn"]]
  /\ procs = [p \in Pids |-> NoProc]
  /\ forks = 0

\* mountSystem: each mount may fail, and it returns nil all the same, so that main
\* goes on in one way only.
MountSystem ==
  /\ main = "mounting"
  /\ main' = "launching"
  /\ UNCHANGED <<binaries, goroutine, procs, forks>>

\* The go statements
Launch ==
  /\ main = "launching"
  /\ goroutine' = [s \in Programs |-> [at |-> "delayed"]]
  /\ main' = "announcing"
  /\ UNCHANGED <<binaries, procs, forks>>

\* "All services launched", and main sleeps for ever.
Announce ==
  /\ main = "announcing"
  /\ main' = "asleep"
  /\ UNCHANGED <<binaries, goroutine, procs, forks>>

\* The delay is over: os.Stat looks for the binary of a service, once.
DelayOver(s) ==
  /\ At(s, "delayed")
  /\ Goes(s, IF s = Shell \/ s \in binaries THEN "starting" ELSE "over")
  /\ UNCHANGED <<main, binaries, procs, forks>>

\* A mutant: cmd.Start in the place of cmd.Run
Run_NotWaited(s) ==
  /\ At(s, "starting")
  /\ \E p \in Pids \ Used :
       /\ procs' = [procs EXCEPT ![p] = Proc(s, "child", 0)]
       /\ goroutine' = [goroutine EXCEPT ![s] = [at |-> "resting"]]
  /\ UNCHANGED <<main, binaries, forks>>

\* cmd.Run starts the process, and waits.
Run(s) ==
  /\ At(s, "starting")
  /\ \E p \in Pids \ Used :
       /\ procs' = [procs EXCEPT ![p] = Proc(s, "child", 0)]
       /\ goroutine' = [goroutine EXCEPT ![s] = [at |-> "waiting", pid |-> p]]
  /\ UNCHANGED <<main, binaries, forks>>

\* cmd.Run fails to start the process, for want of a pid or of memory or because
\* the binary cannot be executed or has gone: for a service, a failure like any other.
RunFails(s) ==
  /\ At(s, "starting")
  /\ Goes(s, IF s = Shell THEN "over" ELSE "resting")
  /\ UNCHANGED <<main, binaries, procs, forks>>

\* A mutant: the branches after cmd.Run swapped
Wait_BranchesSwapped(s) ==
  /\ At(s, "waiting")
  /\ Zombie(goroutine[s].pid)
  /\ procs' = [procs EXCEPT ![goroutine[s].pid] = NoProc]
  /\ Goes(s, IF s = Shell \/ procs[goroutine[s].pid].state = "failed"
             THEN "over" ELSE "resting")
  /\ UNCHANGED <<main, binaries, forks>>

\* cmd.Run returns: its process has ended and leaves the table.  A service that
\* failed is run again after a rest.
Wait(s) ==
  /\ At(s, "waiting")
  /\ Zombie(goroutine[s].pid)
  /\ procs' = [procs EXCEPT ![goroutine[s].pid] = NoProc]
  /\ Goes(s, IF s = Shell \/ procs[goroutine[s].pid].state = "clean"
             THEN "over" ELSE "resting")
  /\ UNCHANGED <<main, binaries, forks>>

\* time.Sleep(5 * time.Second) is over.
RestOver(s) ==
  /\ At(s, "resting")
  /\ Goes(s, "starting")
  /\ UNCHANGED <<main, binaries, procs, forks>>

-----------------------------------------------------------------------------
(* The processes *)

\* A service or a shell starts a process of its own.
Fork(p) ==
  /\ p \in Used /\ procs[p].state = "runs" /\ forks < MaxForks
  /\ \E q \in Pids \ Used :
       procs' = [procs EXCEPT ![q] = Proc(procs[p].program, "helper", p)]
  /\ forks' = forks + 1
  /\ UNCHANGED <<main, binaries, goroutine>>

End(p, how) ==
  /\ p \in Used /\ procs[p].state = "runs"
  /\ procs' = HandedOver([procs EXCEPT ![p].state = how], p)
  /\ UNCHANGED <<main, binaries, goroutine, forks>>

\* A mutant: PID 1 waits for every child that has ended, those of cmd.Run as well
ParentWaits_AllReaped(p) ==
  /\ Zombie(p)
  /\ procs' = [procs EXCEPT ![p] = NoProc]
  /\ UNCHANGED <<main, binaries, goroutine, forks>>

\* A process waits for one that it started.
ParentWaits(p) ==
  /\ Zombie(p) /\ procs[p].parent # 0
  /\ procs' = [procs EXCEPT ![p] = NoProc]
  /\ UNCHANGED <<main, binaries, goroutine, forks>>

-----------------------------------------------------------------------------

MainStep == MountSystem \/ Launch \/ Announce

GoroutineStep(s) ==
  DelayOver(s) \/ Run(s) \/ RunFails(s) \/ Wait(s) \/ RestOver(s)

ProcessStep(p) == Fork(p) \/ ParentWaits(p) \/ \E how \in {"clean", "failed"} : End(p, how)

Next ==
  \/ MainStep
  \/ \E s \in Programs : GoroutineStep(s)
  \/ \E p \in Pids : ProcessStep(p)

Spec == Init /\ [][Next]_vars

\* Goroutines run and sleeps end; a process may run for ever.
FairSpec ==
  Spec /\ WF_vars(MainStep) /\ \A s \in Programs : WF_vars(GoroutineStep(s))

-----------------------------------------------------------------------------
(* Properties *)

TypeOK ==
  /\ main \in {"mounting", "launching", "announcing", "asleep"}
  /\ binaries \subseteq Services
  /\ \A s \in Programs :
       /\ goroutine[s].at \in
            {"unborn", "delayed", "starting", "waiting", "resting", "over"}
       /\ At(s, "waiting") => procs[goroutine[s].pid].kind = "child"
  /\ \A p \in Used : procs[p] \in
       [kind : {"child", "helper"}, program : Programs,
        state : {"runs", "clean", "failed"}, parent : Pids \cup {0}]
  /\ forks \in 0 .. MaxForks

\* However often it crashes and whatever it leaves running, a service has one
\* process started by PID 1 at a time, the one its goroutine waits for: two Nodus
\* daemons would fight for the same port and mount point.
OneInstance ==
  \A s \in Programs : \A p \in RunningChildren(s) :
    At(s, "waiting") /\ goroutine[s].pid = p

\* "restart automático" (reports/FIX_VERIFICATION_REPORT.md:15): a service that fails
\* runs again, or is started over and over and never given up: no start that fails
\* ends its goroutine, nor does a table full of orphans that nobody waits for.
FailedRunsAgain ==
  \A s \in Services :
    (\E p \in Used : /\ procs[p].kind = "child" /\ procs[p].program = s
                     /\ procs[p].state = "failed")
      ~> (RunningChildren(s) # {} \/ []<>At(s, "starting"))
=============================================================================
