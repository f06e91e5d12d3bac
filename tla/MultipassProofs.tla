--------------------------- MODULE MultipassProofs ---------------------------
(***************************************************************************)
(* Proofs about Multipass, for any set of pids: what the names of VMs can  *)
(* be relied on for, although pids are used again.                         *)
(***************************************************************************)
EXTENDS Multipass, TLAPS

\* A name on a list is that of a stopped VM still, unless it was used again.
Listed ==
    \A q \in Pids : \A n \in todo[q] :
        n \in Pids /\ (n \in renewed[q] \/ vm[n] \in {"none", "stopped"})

\* Until a run has purged its list, its own name is on it or was in use.
Freed ==
    \A p \in Pids :
        /\ pc[p] = "purge" /\ p \notin todo[p] /\ vm[p] # "none" => held[p]
        /\ pc[p] = "launch" /\ vm[p] # "none" => held[p]

Owned == \A p \in Pids : pc[p] \in {"boot", "lookup", "serving"} => own[p]

IInv == TypeOK /\ Listed /\ Freed /\ Owned

-----------------------------------------------------------------------------
LEMMA InitIInv == Init => IInv
<1> SUFFICES ASSUME Init PROVE IInv
  OBVIOUS
<1>1. TypeOK
  BY DEF Init, TypeOK, Names, Live
<1>2. Listed /\ Freed /\ Owned
  BY DEF Init, Listed, Freed, Owned
<1>3. QED
  BY <1>1, <1>2 DEF IInv

LEMMA StepTypeOK == TypeOK /\ [Next]_vars => TypeOK'
<1> SUFFICES ASSUME TypeOK, [Next]_vars PROVE TypeOK'
  OBVIOUS
<1> USE DEF TypeOK, Goes
<1>1. ASSUME NEW p \in Pids, List(p) PROVE TypeOK'
  <2>1. todo' \in [Pids -> SUBSET Names]
    BY <1>1 DEF List, OrphanNames, Leftovers, Names
  <2>2. QED
    BY <1>1, <2>1 DEF List
<1>2. ASSUME NEW p \in Pids, Purge(p) PROVE TypeOK'
  BY <1>2 DEF Purge, Deletes, Forgets
<1>3. ASSUME NEW p \in Pids, PurgeRefused(p) PROVE TypeOK'
  BY <1>3 DEF PurgeRefused, Deletes, Forgets
<1>4. ASSUME NEW p \in Pids, Launch(p) PROVE TypeOK'
  BY <1>4 DEF Launch, Creates, Names, Live
<1>5. ASSUME NEW p \in Pids, LaunchRefused(p) PROVE TypeOK'
  BY <1>5 DEF LaunchRefused, OnRefusal
<1>6. ASSUME NEW p \in Pids, LaunchReturns(p) \/ Lookup(p) PROVE TypeOK'
  BY <1>6 DEF LaunchReturns, Lookup
<1>7. ASSUME NEW p \in Pids, Interrupted(p) PROVE TypeOK'
  BY <1>7 DEF Interrupted, Creates, Names, Live
<1>8. ASSUME NEW p \in Pids, Rerun(p) PROVE TypeOK'
  BY <1>8 DEF Rerun
<1>9. ASSUME NEW n \in Names, Boot(n) \/ Stop(n) \/ UserStarts PROVE TypeOK'
  BY <1>9 DEF Boot, Stop, UserStarts, Becomes, Live
<1>10. CASE UNCHANGED vars
  BY <1>10 DEF vars
<1>11. QED
  BY <1>1, <1>2, <1>3, <1>4, <1>5, <1>6, <1>7, <1>8, <1>9, <1>10
  DEF Next, Run, Names

LEMMA StepRest == IInv /\ [Next]_vars => Listed' /\ Freed' /\ Owned'
<1> SUFFICES ASSUME IInv, [Next]_vars PROVE Listed' /\ Freed' /\ Owned'
  OBVIOUS
<1> USE NamesAssumption DEF IInv, TypeOK, Listed, Freed, Owned, Goes, Names, Live
<1>1. ASSUME NEW p \in Pids, List(p) PROVE Listed' /\ Freed' /\ Owned'
  <2>1. /\ todo' = [todo EXCEPT ![p] = OrphanNames]
        /\ held' = [held EXCEPT ![p] = vm[p] \in Live]
        /\ UNCHANGED <<vm, renewed, own>>
    BY <1>1 DEF List
  <2>2. /\ pc' = [pc EXCEPT ![p] = pc'[p]] /\ pc'[p] \in {"launch", "purge"}
        /\ pc'[p] = "launch" => OrphanNames = {}
    BY <1>1 DEF List
  <2>3. Listed'
    BY <2>1 DEF OrphanNames, Leftovers
  <2>4. held'[p] <=> vm[p] \in Live
    BY <2>1
  <2>5. Freed'
    <3>1. /\ pc'[p] = "purge" /\ p \notin todo'[p] /\ vm'[p] # "none" => held'[p]
          /\ pc'[p] = "launch" /\ vm'[p] # "none" => held'[p]
      BY <2>1, <2>2, <2>4 DEF OrphanNames, Leftovers
    <3>2. \A q \in Pids \ {p} : /\ pc'[q] = pc[q] /\ todo'[q] = todo[q]
                             /\ held'[q] = held[q] /\ vm'[q] = vm[q]
      BY <2>1, <2>2
    <3>3. QED
      BY <3>1, <3>2
  <2>6. Owned'
    BY <2>1, <2>2
  <2>7. QED
    BY <2>3, <2>5, <2>6
<1>2. ASSUME NEW p \in Pids, Purge(p) PROVE Listed' /\ Freed' /\ Owned'
  BY <1>2 DEF Purge, Deletes, Forgets
<1>3. ASSUME NEW p \in Pids, PurgeRefused(p) PROVE Listed' /\ Freed' /\ Owned'
  BY <1>3 DEF PurgeRefused, Deletes, Forgets
<1>4. ASSUME NEW p \in Pids, Launch(p) PROVE Listed' /\ Freed' /\ Owned'
  BY <1>4 DEF Launch, Creates
<1>5. ASSUME NEW p \in Pids, LaunchRefused(p) PROVE Listed' /\ Freed' /\ Owned'
  BY <1>5 DEF LaunchRefused, OnRefusal
<1>6. ASSUME NEW p \in Pids, LaunchReturns(p) \/ Lookup(p)
      PROVE  Listed' /\ Freed' /\ Owned'
  BY <1>6 DEF LaunchReturns, Lookup
<1>7. ASSUME NEW p \in Pids, Interrupted(p) PROVE Listed' /\ Freed' /\ Owned'
  BY <1>7 DEF Interrupted, Creates
<1>8. ASSUME NEW p \in Pids, Rerun(p) PROVE Listed' /\ Freed' /\ Owned'
  BY <1>8 DEF Rerun
<1>9. ASSUME NEW n \in Names, Boot(n) \/ Stop(n) PROVE Listed' /\ Freed' /\ Owned'
  BY <1>9 DEF Boot, Stop, Becomes
<1>10. CASE UserStarts
  BY <1>10 DEF UserStarts, Becomes
<1>11. CASE UNCHANGED vars
  BY <1>11 DEF vars
<1>12. QED
  BY <1>1, <1>2, <1>3, <1>4, <1>5, <1>6, <1>7, <1>8, <1>9, <1>10, <1>11
  DEF Next, Run

\* IInv holds in every reachable state.
THEOREM Inductive == Spec => []IInv
<1>1. IInv /\ [Next]_vars => IInv'
  BY StepTypeOK, StepRest DEF IInv
<1>2. QED
  BY InitIInv, <1>1, PTL DEF Spec

-----------------------------------------------------------------------------
\* The states of runs, lists and VMs.
THEOREM TypeCorrect == Spec => []TypeOK
<1>1. IInv => TypeOK
  BY DEF IInv
<1>2. QED
  BY <1>1, Inductive, PTL

\* What a former run with the same pid has left stopped never blocks a launch.
THEOREM RefusalsJustified == Spec => []RefusalJustified
<1>1. IInv => RefusalJustified
  BY DEF IInv, Freed, RefusalJustified
<1>2. QED
  BY <1>1, Inductive, PTL

\* Whoever connects does so to a VM of its own.
THEOREM MachinesOwn == Spec => []OwnMachine
<1>1. IInv => OwnMachine
  BY DEF IInv, Owned, OwnMachine
<1>2. QED
  BY <1>1, Inductive, PTL

\* No VM of the user's, and none that is in use, is deleted, unless its pid
\* was used again between another run's list and purge.
THEOREM InUseSpared == Spec => LiveSpared
<1> DEFINE Spares(n) ==
        vm[n] # "none" /\ vm'[n] = "none" =>
            /\ n \in Pids
            /\ vm[n] = "stopped" \/ \E q \in Pids : n \in renewed[q]
<1>1. IInv /\ [Next]_vars => [\A n \in Names : Spares(n)]_vars
  <2> SUFFICES ASSUME IInv, Next, NEW n \in Names, vm[n] # "none", vm'[n] = "none"
               PROVE  /\ n \in Pids
                      /\ vm[n] = "stopped" \/ \E q \in Pids : n \in renewed[q]
    OBVIOUS
  <2> USE DEF IInv, TypeOK
  <2>1. ASSUME NEW p \in Pids, Run(p) PROVE n \in todo[p]
    <3>1. CASE Purge(p) \/ PurgeRefused(p)
      BY <3>1 DEF Purge, PurgeRefused, Deletes
    <3>2. CASE Launch(p) \/ Interrupted(p)
      BY <3>2 DEF Launch, Interrupted, Creates, Names
    <3>3. CASE List(p) \/ LaunchRefused(p) \/ LaunchReturns(p) \/ Lookup(p) \/ Rerun(p)
      BY <3>3 DEF List, LaunchRefused, LaunchReturns, Lookup, Rerun
    <3>4. QED
      BY <2>1, <3>1, <3>2, <3>3 DEF Run
  <2>2. ASSUME NEW m \in Names, Boot(m) \/ Stop(m) \/ UserStarts PROVE FALSE
    BY <2>2 DEF Boot, Stop, UserStarts, Becomes, Names
  <2>3. PICK p \in Pids : n \in todo[p]
    BY <2>1, <2>2 DEF Next, Names
  <2>4. QED
    BY <2>3 DEF Listed
<1>2. QED
  BY <1>1, Inductive, PTL DEF Spec, LiveSpared
=============================================================================
