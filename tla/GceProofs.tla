----------------------------- MODULE GceProofs -----------------------------
(***************************************************************************)
(* Proofs about Gce, for any sets of runs and names.                       *)
(***************************************************************************)
EXTENDS Gce, TLAPS

-----------------------------------------------------------------------------
(* Types. *)

LEMMA InitTypeOK == Init => TypeOK
  BY DEF Init, TypeOK, Before, Requests

LEMMA StepTypeOK == TypeOK /\ [Next]_vars => TypeOK'
<1> SUFFICES ASSUME TypeOK, [Next]_vars PROVE TypeOK'
  OBVIOUS
<1> USE NamesAssumption DEF TypeOK, Before, Requests, Ended, Goes
<1>1. CASE UNCHANGED vars
  BY <1>1 DEF vars
<1>2. ASSUME NEW r \in Runs, List(r) PROVE TypeOK'
  BY <1>2 DEF List, Garbage
<1>3. ASSUME NEW r \in Runs, NEW i \in Names, Delete(r, i) PROVE TypeOK'
  BY <1>3 DEF Delete, Others
<1>4. ASSUME NEW r \in Runs, NEW i \in Names, DeleteRefused(r, i) PROVE TypeOK'
  BY <1>4 DEF DeleteRefused
<1>5. ASSUME NEW r \in Runs, Collected(r) PROVE TypeOK'
  BY <1>5 DEF Collected
<1>6. ASSUME NEW r \in Runs, GetRule(r) \/ RuleMissing(r) PROVE TypeOK'
  BY <1>6 DEF GetRule, RuleMissing, AfterMissing, NoRule
<1>7. ASSUME NEW r \in Runs, InsertRule(r) \/ InsertRefused(r) PROVE TypeOK'
  BY <1>7 DEF InsertRule, InsertRefused, NoRule
<1>8. ASSUME NEW r \in Runs, Launch(r) PROVE TypeOK'
  BY <1>8 DEF Launch
<1>9. ASSUME NEW r \in Runs, Poll(r) PROVE TypeOK'
  <2>1. Outcome(r) \in {"poll", "done", "failed"}
    BY DEF Outcome
  <2>2. QED
    BY <1>9, <2>1 DEF Poll
<1>10. ASSUME NEW r \in Runs, Interrupted(r) PROVE TypeOK'
  BY <1>10 DEF Interrupted
<1>11. ASSUME NEW r \in Runs, Rerun(r) PROVE TypeOK'
  BY <1>11 DEF Rerun
<1>12. ASSUME NEW i \in Names, Google(i) PROVE TypeOK'
  BY <1>12 DEF Google, Boot, Stop, Stopped, Vanish, Becomes
<1>13. CASE RuleMade
  BY <1>13 DEF RuleMade
<1>14. QED
  BY <1>1, <1>2, <1>3, <1>4, <1>5, <1>6, <1>7, <1>8, <1>9, <1>10, <1>11, <1>12, <1>13
  DEF Next, Step, Deletion

\* Type correctness.
THEOREM TypeCorrect == Spec => []TypeOK
  BY InitTypeOK, StepTypeOK, PTL DEF Spec

-----------------------------------------------------------------------------
(* The inductive invariant. *)

\* What a run has listed and not deleted stays garbage.
TodoOld ==
    \A r \in Runs : /\ todo[r] \subseteq listed[r]
                    /\ \A i \in listed[r] :
                        instance[i] \in {"terminated", "deleting", "none"}

\* What is missing from a list has been deleted.
ListedGone ==
    \A r \in Runs : pc[r] \in {"delete", "firewall", "insert", "launch", "poll", "done"} =>
        \A i \in listed[r] : i \in todo[r] \/ instance[i] \in {"deleting", "none"}

TodoDone ==
    \A r \in Runs : pc[r] \in {"firewall", "insert", "launch", "poll", "done"} => todo[r] = {}

\* Whoever is late has been overtaken.
LateContested ==
    \A r \in Runs :
        /\ pc[r] = "delete" =>
            \A i \in todo[r] : instance[i] = "terminated" \/ r \in contested
        /\ pc[r] = "insert" => NoRule \/ r \in contested

LaunchAllowed == \A r \in Runs : pc[r] = "launch" => rule # "none"

IInv ==
    /\ TodoOld /\ ListedGone /\ TodoDone
    /\ LateContested /\ RefusalContested
    /\ LaunchAllowed /\ RuleFirst

LEMMA InitIInv == Init => IInv
  BY DEF Init, IInv, TodoOld, ListedGone, TodoDone, LateContested,
         RefusalContested, LaunchAllowed, RuleFirst, NoRule

LEMMA StepIInv == TypeOK /\ IInv /\ [Next]_vars => IInv'
<1> SUFFICES ASSUME TypeOK, IInv, [Next]_vars PROVE IInv'
  OBVIOUS
<1> USE DEF TypeOK, Goes, IInv, TodoOld, ListedGone, TodoDone, LateContested,
            RefusalContested, LaunchAllowed, RuleFirst, NoRule
<1>1. CASE UNCHANGED vars
  BY <1>1 DEF vars
<1>2. ASSUME NEW r \in Runs, List(r) PROVE IInv'
  BY <1>2 DEF List, Garbage, Collectible
<1>3. ASSUME NEW r \in Runs, NEW i \in Names, Delete(r, i) PROVE IInv'
  BY <1>3 DEF Delete, Others
<1>4. ASSUME NEW r \in Runs, NEW i \in Names, DeleteRefused(r, i) PROVE IInv'
  BY <1>4 DEF DeleteRefused
<1>5. ASSUME NEW r \in Runs, Collected(r) PROVE IInv'
  BY <1>5 DEF Collected, CollectionOver
<1>6. ASSUME NEW r \in Runs, GetRule(r) \/ RuleMissing(r) PROVE IInv'
  BY <1>6 DEF GetRule, RuleMissing, AfterMissing, NoRule
<1>7. ASSUME NEW r \in Runs, InsertRule(r) \/ InsertRefused(r) PROVE IInv'
  BY <1>7 DEF InsertRule, InsertRefused, NoRule
<1>8. ASSUME NEW r \in Runs, Launch(r) PROVE IInv'
  BY <1>8 DEF Launch, Fresh
<1>9. ASSUME NEW r \in Runs, Poll(r) PROVE IInv'
  <2>1. Outcome(r) \in {"poll", "done", "failed"}
    BY DEF Outcome
  <2>2. QED
    BY <1>9, <2>1 DEF Poll
<1>10. ASSUME NEW r \in Runs, Interrupted(r) PROVE IInv'
  BY <1>10 DEF Interrupted
<1>11. ASSUME NEW r \in Runs, Rerun(r) PROVE IInv'
  BY <1>11 DEF Rerun, Ended
<1>12. ASSUME NEW i \in Names, Google(i) PROVE IInv'
  BY <1>12 DEF Google, Boot, Stop, Stopped, Vanish, Becomes
<1>13. CASE RuleMade
  BY <1>13 DEF RuleMade
<1>14. QED
  BY <1>1, <1>2, <1>3, <1>4, <1>5, <1>6, <1>7, <1>8, <1>9, <1>10, <1>11, <1>12, <1>13
  DEF Next, Step, Deletion

\* The invariant holds in every reachable state.
THEOREM Inductive == Spec => []IInv
<1>1. QED
  BY InitIInv, StepIInv, TypeCorrect, PTL DEF Spec

-----------------------------------------------------------------------------
(* What follows from it. *)

\* However many runs collect garbage at once, and however old their lists are,
\* nobody deletes an instance that has not stopped.
THEOREM RunningSpared == Spec => LiveSpared
<1> DEFINE Spares == \A i \in Names : instance[i] \in {"starting", "running", "stopping"} =>
                                  instance'[i] # "deleting"
<1>1. TypeOK /\ IInv /\ [Next]_vars => [Spares]_vars
  <2> SUFFICES ASSUME TypeOK, IInv, Next PROVE Spares
    OBVIOUS
  <2> USE DEF TypeOK
  <2>1. ASSUME NEW r \in Runs, NEW i \in Names, Delete(r, i) PROVE Spares
    BY <2>1 DEF IInv, TodoOld, Delete
  <2>2. ASSUME NEW r \in Runs, Launch(r) PROVE Spares
    BY <2>2 DEF Launch
  <2>3. ASSUME NEW i \in Names, Google(i) PROVE Spares
    BY <2>3 DEF Google, Boot, Stop, Stopped, Vanish, Becomes
  <2>4. ASSUME instance' = instance PROVE Spares
    BY <2>4
  <2>5. ASSUME NEW r \in Runs, Step(r) \/ Interrupted(r) \/ Rerun(r) PROVE Spares
    BY <2>1, <2>2, <2>4, <2>5
    DEF Step, Deletion, List, DeleteRefused, Collected, GetRule, RuleMissing,
        InsertRule, InsertRefused, Poll, Interrupted, Rerun
  <2>6. CASE RuleMade
    BY <2>4, <2>6 DEF RuleMade
  <2>7. QED
    BY <2>3, <2>5, <2>6 DEF Next
<1>2. QED
  BY <1>1, TypeCorrect, Inductive, PTL DEF Spec, LiveSpared

\* Nobody is turned away before the launch but for somebody who was faster.
THEOREM RefusalsContested == Spec => []RefusalContested
<1>1. IInv => RefusalContested
  BY DEF IInv
<1>2. QED
  BY <1>1, Inductive, PTL

\* A run that goes on has left nothing of what it listed.
THEOREM CollectionComplete == Spec => []GarbageCollected
<1>1. IInv => GarbageCollected
  BY DEF IInv, ListedGone, TodoDone, GarbageCollected
<1>2. QED
  BY <1>1, Inductive, PTL

\* No instance comes before the request for the rule that lets traffic in,
\* whichever run made that request and whatever became of it.
THEOREM RuleRequested == Spec => []RuleFirst
<1>1. IInv => RuleFirst
  BY DEF IInv
<1>2. QED
  BY <1>1, Inductive, PTL
=============================================================================
