--------------------------- MODULE ContextsProofs ---------------------------
(***************************************************************************)
(* Proofs about Contexts, for any number of processes and names: what a    *)
(* name left on the disk is due to, and that names used by one process at  *)
(* a time keep live contexts intact.                                       *)
(***************************************************************************)
EXTENDS Contexts, TLAPS

-----------------------------------------------------------------------------
(* Types. *)

ContentType == content \in [Names -> [Files -> Procs \union {Nobody}]]

FilesInDirs ==
    \A n \in Names : \A f \in Files : content[n][f] # Nobody => n \in Parent(f)

LEMMA InitTypeOK == Init => TypeOK
  BY NamesAssumption DEF Init, TypeOK, NoFiles, Stages, Uses

\* What the two updates of content do, for whatever they are applied to.
LEMMA WithoutContent ==
  ASSUME ContentType, NEW n \in Names, NEW fs
  PROVE  /\ Without(n, fs) \in [Names -> [Files -> Procs \union {Nobody}]]
         /\ \A m \in Names : m # n => Without(n, fs)[m] = content[m]
         /\ \A f \in Files : Without(n, fs)[n][f] =
                                IF f \in fs THEN Nobody ELSE content[n][f]
  BY DEF ContentType, Without

LEMMA StepTypeOK == TypeOK /\ [Next]_vars => TypeOK'
<1> SUFFICES ASSUME TypeOK, [Next]_vars PROVE TypeOK'
  OBVIOUS
<1> USE NamesAssumption DEF TypeOK
<1>1. CASE UNCHANGED vars
  BY <1>1 DEF vars, Parent
<1>2. ASSUME NEW p \in Procs, Step(p) PROVE TypeOK'
  <2> USE DEF Moves, history
  <2>n. Name[p] \in Names /\ DOMAIN Uses = {"meta", "tls"}
    BY DEF Uses
  <2>s. Spoils(p) \subseteq (DOMAIN Uses) \X Names
    BY <2>n DEF Spoils
  <2>1. CASE CheckFree(p)
    BY <2>1 DEF CheckFree, Stages, Ended, Parent
  <2>2. CASE MakeMeta(p)
    BY <2>2 DEF MakeMeta, Stages, Parent
  <2>3. CASE MakeTls(p)
    BY <2>3 DEF MakeTls, Stages, Files, Parent
  <2>4. CASE WriteFile(p)
    <3>1. pc' \in [Procs -> Stages]
      BY <2>4 DEF WriteFile, Following, Files, Pems, Stages
    <3>2. content' \in [Names -> [Files -> Procs \union {Nobody}]]
      BY <2>4 DEF WriteFile
    <3>3. \A n \in Names : \A f \in Files :
            content'[n][f] # content[n][f] => n \in Parent(f)
      BY <2>4 DEF WriteFile
    <3>4. QED
      BY <2>4, <3>1, <3>2, <3>3 DEF WriteFile, Parent
  <2>5. CASE CallFails(p)
    BY <2>5, <2>s DEF CallFails, Stages, Ended, Parent
  <2>6. ASSUME NEW d \in DOMAIN Uses, NEW fs, pc' \in [Procs -> Stages],
               Stays(d, Name[p], fs)
        PROVE  TypeOK'
    <3>1. PICK gs \in SUBSET fs : content' = Without(Name[p], gs)
      BY <2>6 DEF Stays
    <3>2. meta' = meta /\ tls' = tls /\ spoiled' = spoiled
          /\ undeleted' \subseteq (DOMAIN Uses) \X Names
      BY <2>6, <2>n DEF Stays
    <3>3. ContentType' /\ FilesInDirs'
      BY <3>1, <3>2, <2>n, WithoutContent DEF ContentType, FilesInDirs, Parent
    <3>4. QED
      BY <2>6, <3>2, <3>3 DEF ContentType, FilesInDirs
  <2>7. CASE RemoveMeta(p)
    <3>1. pc' \in [Procs -> Stages]
      BY <2>7 DEF RemoveMeta, AfterMeta, Stages
    <3>2. CASE Stays("meta", Name[p], {"json"})
      BY <2>6, <2>n, <3>1, <3>2
    <3>3. CASE ~Stays("meta", Name[p], {"json"})
      <4>1. meta' = meta \ {Name[p]} /\ tls' = tls
            /\ content' = Without(Name[p], {"json"})
            /\ spoiled' \subseteq spoiled /\ undeleted' \subseteq undeleted
        BY <2>7, <3>3 DEF RemoveMeta, MetaLeft, Removed
      <4>2. ContentType' /\ FilesInDirs'
        BY <4>1, <2>n, WithoutContent DEF ContentType, FilesInDirs, Parent
      <4>3. QED
        BY <3>1, <4>1, <4>2 DEF ContentType, FilesInDirs
    <3>4. QED
      BY <3>2, <3>3
  <2>8. CASE RemoveTls(p)
    <3>1. pc' \in [Procs -> Stages]
      BY <2>8 DEF RemoveTls, Stages, Ended
    <3>2. CASE Stays("tls", Name[p], Pems)
      BY <2>6, <2>n, <3>1, <3>2
    <3>3. CASE ~Stays("tls", Name[p], Pems)
      <4>1. tls' = tls \ {Name[p]} /\ meta' = meta
            /\ content' = Without(Name[p], Pems)
            /\ spoiled' \subseteq spoiled /\ undeleted' \subseteq undeleted
        BY <2>8, <3>3 DEF RemoveTls, Removed
      <4>2. ContentType' /\ FilesInDirs'
        BY <4>1, <2>n, WithoutContent DEF ContentType, FilesInDirs, Parent, Files, Pems
      <4>3. QED
        BY <3>1, <4>1, <4>2 DEF ContentType, FilesInDirs
    <3>4. QED
      BY <3>2, <3>3
  <2>9. CASE Kill(p)
    BY <2>9, <2>s DEF Kill, Stages, Ended, Parent
  <2>10. CASE Rerun(p)
    <3>1. content' \in [Names -> [Files -> Procs \union {Nobody}]]
      BY <2>10 DEF Rerun
    <3>2. \A n \in Names : \A f \in Files :
            content'[n][f] # Nobody => content[n][f] # Nobody
      BY <2>10 DEF Rerun
    <3>3. QED
      BY <2>10, <3>1, <3>2 DEF Rerun, Stages, Parent
  <2>11. QED
    BY <1>2, <2>1, <2>2, <2>3, <2>4, <2>5, <2>7, <2>8, <2>9, <2>10 DEF Step
<1>3. QED
  BY <1>1, <1>2 DEF Next

\* Type correctness, and that no file is without its directory.
THEOREM TypeCorrect == Spec => []TypeOK
  BY InitTypeOK, StepTypeOK, PTL DEF Spec

-----------------------------------------------------------------------------
(* What is on the disk has a reason. *)

LEMMA StepRefusal == TypeOK /\ RefusalJustified /\ [Next]_vars => RefusalJustified'
<1> SUFFICES ASSUME TypeOK, RefusalJustified, [Next]_vars, NEW n \in meta'
             PROVE  Accounted("meta", n)'
  BY DEF RefusalJustified
<1> USE NamesAssumption DEF TypeOK, RefusalJustified, Accounted
<1>1. CASE UNCHANGED vars
  BY <1>1 DEF vars
<1>2. ASSUME NEW p \in Procs, Step(p) PROVE Accounted("meta", n)'
  <2> USE DEF Moves, history, Files, Pems, Uses
  <2>1. CASE CheckFree(p)
    BY <2>1 DEF CheckFree
  <2>2. CASE MakeMeta(p)
    BY <2>2 DEF MakeMeta
  <2>3. CASE MakeTls(p)
    BY <2>3 DEF MakeTls
  <2>4. CASE WriteFile(p)
    BY <2>4 DEF WriteFile, Following
  <2>5. CASE CallFails(p)
    BY <2>5 DEF CallFails, Spoils, Leaves, Dirs
  <2>6. CASE RemoveMeta(p)
    BY <2>6 DEF RemoveMeta, MetaLeft, AfterMeta, Removed, Stays
  <2>7. CASE RemoveTls(p)
    BY <2>7 DEF RemoveTls, Removed, Stays
  <2>8. CASE Kill(p)
    BY <2>8 DEF Kill, Spoils, Leaves, Dirs
  <2>9. CASE Rerun(p)
    BY <2>9 DEF Rerun, Ended
  <2>10. QED
    BY <1>2, <2>1, <2>2, <2>3, <2>4, <2>5, <2>6, <2>7, <2>8, <2>9 DEF Step
<1>3. QED
  BY <1>1, <1>2 DEF Next

LEMMA StepKeys == TypeOK /\ KeysAccounted /\ [Next]_vars => KeysAccounted'
<1> SUFFICES ASSUME TypeOK, KeysAccounted, [Next]_vars, NEW n \in tls'
             PROVE  Accounted("tls", n)'
  BY DEF KeysAccounted
<1> USE NamesAssumption DEF TypeOK, KeysAccounted, Accounted
<1>1. CASE UNCHANGED vars
  BY <1>1 DEF vars
<1>2. ASSUME NEW p \in Procs, Step(p) PROVE Accounted("tls", n)'
  <2> USE DEF Moves, history, Files, Pems, Uses
  <2>1. CASE CheckFree(p)
    BY <2>1 DEF CheckFree
  <2>2. CASE MakeMeta(p)
    BY <2>2 DEF MakeMeta
  <2>3. CASE MakeTls(p)
    BY <2>3 DEF MakeTls
  <2>4. CASE WriteFile(p)
    BY <2>4 DEF WriteFile, Following
  <2>5. CASE CallFails(p)
    BY <2>5 DEF CallFails, Spoils, Leaves, Dirs
  <2>6. CASE RemoveMeta(p)
    BY <2>6 DEF RemoveMeta, AfterMeta, Removed, Stays
  <2>7. CASE RemoveTls(p)
    BY <2>7 DEF RemoveTls, Removed, Stays
  <2>8. CASE Kill(p)
    BY <2>8 DEF Kill, Spoils, Leaves, Dirs
  <2>9. CASE Rerun(p)
    BY <2>9 DEF Rerun, Ended
  <2>10. QED
    BY <1>2, <2>1, <2>2, <2>3, <2>4, <2>5, <2>6, <2>7, <2>8, <2>9 DEF Step
<1>3. QED
  BY <1>1, <1>2 DEF Next

\* A context is refused only for a process that has the name, or for the
\* remains of one that failed in new(), was killed, or failed to remove the
\* meta directory.
THEOREM RefusalsJustified == Spec => []RefusalJustified
<1>1. Init => RefusalJustified
  BY DEF Init, RefusalJustified
<1>2. QED
  BY <1>1, StepRefusal, TypeCorrect, PTL DEF Spec

\* Keys and certificates stay only as long as somebody uses the name, or after
\* a failed new(), SIGKILL, or a failed removal of the keys themselves.
THEOREM KeysRemoved == Spec => []KeysAccounted
<1>1. Init => KeysAccounted
  BY DEF Init, KeysAccounted
<1>2. QED
  BY <1>1, StepKeys, TypeCorrect, PTL DEF Spec

-----------------------------------------------------------------------------
(* Names of their own keep contexts intact. *)

\* What a process has put on the disk by the time it is at a stage.
Written(p) ==
    /\ pc[p] \in {"tls", "live"} \union Files => Name[p] \in meta
    /\ pc[p] \in {"live"} \union Files => Name[p] \in tls
    /\ pc[p] \in {"ca", "cert", "key", "live"} => content[Name[p]]["json"] = p
    /\ pc[p] \in {"cert", "key", "live"} => content[Name[p]]["ca"] = p
    /\ pc[p] \in {"key", "live"} => content[Name[p]]["cert"] = p
    /\ pc[p] = "live" => content[Name[p]]["key"] = p

AllWritten == \A p \in Procs : Alone(p) => Written(p)

\* A step of another process does not touch what p has written.
LEMMA OthersApart ==
  ASSUME TypeOK, NEW p \in Procs, Alone(p), NEW q \in Procs, p # q, Step(q)
  PROVE  /\ pc'[p] = pc[p]
         /\ Name[p] \in meta => Name[p] \in meta'
         /\ Name[p] \in tls => Name[p] \in tls'
         /\ content'[Name[p]] = content[Name[p]]
<1>1. Name[p] # Name[q] /\ Name[p] \in Names /\ Name[q] \in Names
  BY NamesAssumption DEF Alone
<1> USE <1>1 DEF TypeOK, Moves
<1>2. CASE CheckFree(q)
  BY <1>2 DEF CheckFree
<1>3. CASE MakeMeta(q) \/ MakeTls(q)
  BY <1>3 DEF MakeMeta, MakeTls
<1>4. CASE WriteFile(q)
  BY <1>4 DEF WriteFile
<1>5. CASE CallFails(q) \/ Kill(q)
  BY <1>5 DEF CallFails, Kill
<1>6. CASE RemoveMeta(q)
  BY <1>6 DEF RemoveMeta, MetaLeft, Stays, Without
<1>7. CASE RemoveTls(q)
  BY <1>7 DEF RemoveTls, Stays, Without
<1>8. CASE Rerun(q)
  BY <1>8 DEF Rerun
<1>9. QED
  BY <1>2, <1>3, <1>4, <1>5, <1>6, <1>7, <1>8 DEF Step

\* A process's own step keeps the account of what it has written.
LEMMA OwnStep ==
  ASSUME TypeOK, NEW p \in Procs, Written(p), Step(p)
  PROVE  Written(p)'
<1>1. Name[p] \in Names
  BY NamesAssumption
<1> USE <1>1 DEF TypeOK, Written, Moves, Files, Pems, Ended
<1>2. CASE CheckFree(p)
  BY <1>2 DEF CheckFree
<1>3. CASE MakeMeta(p)
  BY <1>3 DEF MakeMeta
<1>4. CASE MakeTls(p)
  BY <1>4 DEF MakeTls
<1>5. CASE WriteFile(p)
  <2>1. /\ meta' = meta /\ tls' = tls /\ Name[p] \in tls
        /\ pc'[p] = Following[pc[p]]
        /\ content'[Name[p]] = [content[Name[p]] EXCEPT ![pc[p]] = p]
    BY <1>5 DEF WriteFile
  <2>2. content[Name[p]] \in [Files -> Procs \union {Nobody}]
    OBVIOUS
  <2>3. CASE pc[p] = "json"
    BY <2>1, <2>2, <2>3 DEF Following
  <2>4. CASE pc[p] = "ca"
    BY <2>1, <2>2, <2>4 DEF Following
  <2>5. CASE pc[p] = "cert"
    BY <2>1, <2>2, <2>5 DEF Following
  <2>6. CASE pc[p] = "key"
    BY <2>1, <2>2, <2>6 DEF Following
  <2>7. QED
    BY <1>5, <2>3, <2>4, <2>5, <2>6 DEF WriteFile
<1>6. CASE CallFails(p) \/ Kill(p)
  BY <1>6 DEF CallFails, Kill
<1>7. CASE RemoveMeta(p)
  BY <1>7 DEF RemoveMeta, AfterMeta
<1>8. CASE RemoveTls(p)
  BY <1>8 DEF RemoveTls
<1>9. CASE Rerun(p)
  BY <1>9 DEF Rerun
<1>10. QED
  BY <1>2, <1>3, <1>4, <1>5, <1>6, <1>7, <1>8, <1>9 DEF Step

LEMMA StepAllWritten ==
  ASSUME TypeOK, AllWritten, [Next]_vars
  PROVE  AllWritten'
<1>1. CASE UNCHANGED vars
  BY <1>1 DEF vars, AllWritten, Written, Alone
<1>2. ASSUME NEW q \in Procs, Step(q), NEW p \in Procs, Alone(p)
      PROVE  Written(p)'
  <2>1. CASE p = q
    BY <1>2, <2>1, OwnStep DEF AllWritten
  <2>2. CASE p # q
    BY <1>2, <2>2, OthersApart DEF AllWritten, Written
  <2>3. QED
    BY <2>1, <2>2
<1>3. QED
  BY <1>1, <1>2 DEF Next, AllWritten, Alone

\* Any number of processes may start, run, fail, be killed and be followed by
\* others under the same name: whoever is live and shares its name with nobody
\* at that time has all of its own files.
THEOREM OwnNamesIntact == Spec => []OwnIntact
<1>1. Init => AllWritten
  BY DEF Init, AllWritten, Written, Files, Pems
<1>2. TypeOK /\ AllWritten /\ [Next]_vars => AllWritten'
  BY StepAllWritten
<1>3. AllWritten => OwnIntact
  BY DEF AllWritten, Written, OwnIntact, Intact, Files, Pems
<1>4. QED
  BY <1>1, <1>2, <1>3, TypeCorrect, PTL DEF Spec
=============================================================================
