------------------------------ MODULE Ec2Proofs ------------------------------
(***************************************************************************)
(* Proofs about Ec2, for any number of runs: types, and the account of the *)
(* security group that they share.                                         *)
(***************************************************************************)
EXTENDS Ec2, TLAPS

LEMMA InitTypeOK == Init => TypeOK
  BY DEF Init, TypeOK, Requests, Ended

LEMMA StepTypeOK == TypeOK /\ [Next]_vars => TypeOK'
<1> SUFFICES ASSUME TypeOK, [Next]_vars PROVE TypeOK'
  OBVIOUS
<1> USE DEF TypeOK, Requests, Ended, Goes
<1>1. CASE UNCHANGED vars
  BY <1>1 DEF vars
<1>2. ASSUME NEW r \in Runs, Lookup(r) PROVE TypeOK'
  BY <1>2 DEF Lookup, AfterLookup
<1>3. ASSUME NEW r \in Runs, CreateGroup(r) \/ Authorize(r) PROVE TypeOK'
  BY <1>3 DEF CreateGroup, Authorize, Opened
<1>4. ASSUME NEW r \in Runs, Launch(r) PROVE TypeOK'
  BY <1>4 DEF Launch
<1>5. ASSUME NEW r \in Runs, Poll(r) PROVE TypeOK'
  <2>1. instance[r] \in {"pending", "running", "terminated"}
    BY <1>5 DEF Poll
  <2>2. Outcome(r) \in {"poll", "done", "failed"}
    BY <2>1 DEF Outcome
  <2>3. QED
    BY <1>5, <2>1, <2>2 DEF Poll
<1>6. ASSUME NEW r \in Runs, Interrupted(r) PROVE TypeOK'
  <2>1. torn' \in BOOLEAN
    BY <1>6, Zenon DEF Interrupted
  <2>2. QED
    BY <1>6, <2>1 DEF Interrupted
<1>7. ASSUME NEW r \in Runs, Rerun(r) PROVE TypeOK'
  BY <1>7 DEF Rerun
<1>8. ASSUME NEW r \in Runs, Aws(r) PROVE TypeOK'
  BY <1>8 DEF Aws, Boot, Terminate, BecomesKnown
<1>9. QED
  BY <1>1, <1>2, <1>3, <1>4, <1>5, <1>6, <1>7, <1>8 DEF Next, Step

\* Type correctness.
THEOREM TypeCorrect == Spec => []TypeOK
  BY InitTypeOK, StepTypeOK, PTL DEF Spec

-----------------------------------------------------------------------------
LEMMA StepClosed == TypeOK /\ ClosedAccounted /\ [Next]_vars => ClosedAccounted'
<1> SUFFICES ASSUME TypeOK, ClosedAccounted, [Next]_vars PROVE ClosedAccounted'
  OBVIOUS
<1> USE DEF TypeOK, ClosedAccounted, Goes
<1>1. CASE UNCHANGED vars
  BY <1>1 DEF vars
<1>2. ASSUME NEW r \in Runs, Lookup(r) PROVE ClosedAccounted'
  BY <1>2 DEF Lookup, AfterLookup
<1>3. ASSUME NEW r \in Runs, CreateGroup(r) PROVE ClosedAccounted'
  \* With the group absent nobody is between the two requests.
  BY <1>3 DEF CreateGroup
<1>4. ASSUME NEW r \in Runs, Authorize(r) PROVE ClosedAccounted'
  \* Whoever else was about to authorize would be r.
  BY <1>4 DEF Authorize, Opened
<1>5. ASSUME NEW r \in Runs, Launch(r) PROVE ClosedAccounted'
  BY <1>5 DEF Launch
<1>6. ASSUME NEW r \in Runs, Poll(r) PROVE ClosedAccounted'
  <2>1. instance[r] \in {"pending", "running", "terminated"}
    BY <1>6 DEF Poll
  <2>2. Outcome(r) # "authorize"
    BY <2>1 DEF Outcome
  <2>3. QED
    BY <1>6, <2>2 DEF Poll
<1>7. ASSUME NEW r \in Runs, Interrupted(r) PROVE ClosedAccounted'
  BY <1>7 DEF Interrupted
<1>8. ASSUME NEW r \in Runs, Rerun(r) PROVE ClosedAccounted'
  BY <1>8 DEF Rerun, Ended
<1>9. ASSUME NEW r \in Runs, Aws(r) PROVE ClosedAccounted'
  BY <1>9 DEF Aws, Boot, Terminate, BecomesKnown
<1>10. QED
  BY <1>1, <1>2, <1>3, <1>4, <1>5, <1>6, <1>7, <1>8, <1>9 DEF Next, Step

\* However many runs race for the creation of the group, one of them makes and
\* opens it, and it stays closed only after that one has ended in between.
THEOREM GroupAccounted == Spec => []ClosedAccounted
<1>1. Init => ClosedAccounted
  BY DEF Init, ClosedAccounted
<1>2. QED
  BY <1>1, StepClosed, TypeCorrect, PTL DEF Spec
=============================================================================
