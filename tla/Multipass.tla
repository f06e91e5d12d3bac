------------------------------ MODULE Multipass ------------------------------
(***************************************************************************)
(* The Multipass provider (multipass.rs): several runs of fleeting on one  *)
(* computer.  A run names its VM after its pid, first purges all stopped   *)
(* VMs of that kind, and looks up its own by name in the end.  Pids are    *)
(* used again: a pid stands for all the runs that have it, one by one.     *)
(* Each call of `multipass` is one step, which may be refused.  What it    *)
(* started goes on if fleeting is interrupted.                             *)
(***************************************************************************)
CONSTANTS Pids,  \* of the runs, and the names fleeting-<pid> of their VMs
          User   \* a VM of the user's own

ASSUME NamesAssumption == User \notin Pids

VARIABLES pc,       \* where each run is in Multipass::spawn
          todo,     \* orphan_names, until they are purged
          vm,       \* what `multipass list` says of each name
          held,     \* history: the name was in use when its run made its list
          renewed,  \* history: names in todo that have been launched since
          own       \* history: the run has launched the VM of its name

vars == <<pc, todo, vm, held, renewed, own>>

Names == Pids \union {User}
Live == {"starting", "running"}

\* The first call, `multipass version`, has succeeded.
Init ==
    /\ pc = [p \in Pids |-> "list"]
    /\ todo = [p \in Pids |-> {}] /\ renewed = [p \in Pids |-> {}]
    /\ vm \in [Names -> {"none", "stopped"}]
    /\ held = [p \in Pids |-> FALSE] /\ own = [p \in Pids |-> FALSE]

Goes(p, to) == pc' = [pc EXCEPT ![p] = to]

-----------------------------------------------------------------------------
(* Purging old VMs. *)

\* Seeded fault: the state of the VMs is not looked at.
AnyState == {n \in Pids : vm[n] # "none"}
\* Those named fleeting-* that are stopped.
Leftovers == {n \in Pids : vm[n] = "stopped"}

\* Seeded fault: only one of them is purged.
OneLeftover == IF Leftovers = {} THEN {} ELSE {CHOOSE n \in Leftovers : TRUE}
\* All of them are arguments of the one `multipass delete --purge`.
OrphanNames == Leftovers

List(p) ==
    /\ pc[p] = "list"
    /\ todo' = [todo EXCEPT ![p] = OrphanNames]
    /\ held' = [held EXCEPT ![p] = vm[p] \in Live]
    /\ Goes(p, IF OrphanNames = {} THEN "launch" ELSE "purge")
    /\ UNCHANGED <<vm, renewed, own>>

Forgets(p) == todo' = [todo EXCEPT ![p] = {}] /\ renewed' = [renewed EXCEPT ![p] = {}]

\* Whatever state the VMs are in by now.
Deletes(N) == vm' = [n \in Names |-> IF n \in N THEN "none" ELSE vm[n]]

Purge(p) ==
    /\ pc[p] = "purge" /\ \A n \in todo[p] : vm[n] # "none"
    /\ Deletes(todo[p]) /\ Forgets(p) /\ Goes(p, "launch")
    /\ UNCHANGED <<held, own>>

\* A VM of the list is gone: another run has purged it.  The call fails, and
\* may have purged others; `?` ends the run.
PurgeRefused(p) ==
    /\ pc[p] = "purge" /\ \E n \in todo[p] : vm[n] = "none"
    /\ \E N \in SUBSET todo[p] : Deletes(N)
    /\ Forgets(p) /\ Goes(p, "over")
    /\ UNCHANGED <<held, own>>

-----------------------------------------------------------------------------
(* Launching and finding the VM. *)

Creates(p) ==
    /\ vm[p] = "none"
    /\ vm' = [vm EXCEPT ![p] = "starting"]
    /\ renewed' = [q \in Pids |-> IF p \in todo[q] THEN renewed[q] \union {p} ELSE renewed[q]]

Launch(p) ==
    /\ pc[p] = "launch" /\ Creates(p)
    /\ own' = [own EXCEPT ![p] = TRUE] /\ Goes(p, "boot")
    /\ UNCHANGED <<todo, held>>

\* Seeded fault: the exit status of `multipass launch` is not looked at.
GoesOn == "boot"
\* bail!, if the exit status is not 0.
OnRefusal == "over"

\* A VM has that name already.
LaunchRefused(p) ==
    /\ pc[p] = "launch" /\ vm[p] # "none"
    /\ Goes(p, OnRefusal)
    /\ UNCHANGED <<todo, vm, held, renewed, own>>

\* `multipass launch` returns when the VM is up, or has come down since.
LaunchReturns(p) ==
    /\ pc[p] = "boot" /\ vm[p] # "starting"
    /\ Goes(p, IF vm[p] = "running" THEN "lookup" ELSE "over")
    /\ UNCHANGED <<todo, vm, held, renewed, own>>

\* The list has the VM, and an address of it, while it runs.
Lookup(p) ==
    /\ pc[p] = "lookup"
    /\ Goes(p, IF vm[p] = "running" THEN "serving" ELSE "over")
    /\ UNCHANGED <<todo, vm, held, renewed, own>>

\* A signal, SIGKILL, an error of a call or of what follows the provider.
\* `multipass launch`, just started, may be received all the same.
Interrupted(p) ==
    /\ pc[p] # "over" /\ Goes(p, "over")
    /\ todo' = [todo EXCEPT ![p] = {}]
    /\ \/ vm' = vm /\ renewed' = [renewed EXCEPT ![p] = {}]
       \/ pc[p] = "launch" /\ Creates(p)
    /\ UNCHANGED <<held, own>>

Rerun(p) ==
    /\ pc[p] = "over" /\ Goes(p, "list")
    /\ own' = [own EXCEPT ![p] = FALSE]
    /\ UNCHANGED <<todo, vm, held, renewed>>

-----------------------------------------------------------------------------
(* The VMs.  One shuts down when its lease ends, or whenever it fails; only *)
(* the user starts a stopped one, and never one of fleeting's.              *)

Becomes(n, from, to) ==
    /\ vm[n] = from /\ vm' = [vm EXCEPT ![n] = to]
    /\ UNCHANGED <<pc, todo, held, renewed, own>>

Boot(n) == Becomes(n, "starting", "running")
Stop(n) == \E from \in Live : Becomes(n, from, "stopped")
UserStarts == Becomes(User, "stopped", "starting")

-----------------------------------------------------------------------------
Run(p) ==
    \/ List(p) \/ Purge(p) \/ PurgeRefused(p) \/ Launch(p) \/ LaunchRefused(p)
    \/ LaunchReturns(p) \/ Lookup(p) \/ Interrupted(p) \/ Rerun(p)

Next == (\E p \in Pids : Run(p)) \/ (\E n \in Names : Boot(n) \/ Stop(n)) \/ UserStarts

Spec == Init /\ [][Next]_vars

-----------------------------------------------------------------------------
TypeOK ==
    /\ pc \in [Pids -> {"list", "purge", "launch", "boot", "lookup", "serving", "over"}]
    /\ todo \in [Pids -> SUBSET Names]
    /\ vm \in [Names -> Live \union {"none", "stopped"}]
    /\ held \in [Pids -> BOOLEAN] /\ own \in [Pids -> BOOLEAN]
    /\ renewed \in [Pids -> SUBSET Names]
    /\ \A p \in Pids : todo[p] # {} <=> pc[p] = "purge"

\* A VM that a former run with the same pid has left stopped is no obstacle:
\* a launch is refused only for a VM that was up when the run made its list.
RefusalJustified == \A p \in Pids : pc[p] = "launch" /\ vm[p] # "none" => held[p]

\* No run deletes a VM of the user, or one that is in use, however old its
\* list, with one exception: a VM whose pid, and so its name, has been used
\* again between another run's list and purge.
LiveSpared ==
    [][\A n \in Names : vm[n] # "none" /\ vm'[n] = "none" =>
           /\ n \in Pids
           /\ vm[n] = "stopped" \/ \E q \in Pids : n \in renewed[q]]_vars

\* A run connects to the VM that it launched itself, never to one of the same
\* name that somebody else left there.
OwnMachine == \A p \in Pids : pc[p] \in {"lookup", "serving"} => own[p]
=============================================================================
