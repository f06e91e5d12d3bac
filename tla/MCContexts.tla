----------------------------- MODULE MCContexts -----------------------------
(***************************************************************************)
(* Instances of Contexts: processes that share one custom name, beside one *)
(* that has a name of its own, as the default names are.                   *)
(***************************************************************************)
EXTENDS Contexts

OneName == [p \in Procs |-> CHOOSE n \in Names : TRUE]

Loner == CHOOSE p \in Procs : TRUE
Theirs == CHOOSE n \in Names : TRUE

TwoShare ==
    [p \in Procs |-> IF p = Loner THEN CHOOSE n \in Names \ {Theirs} : TRUE ELSE Theirs]
=============================================================================
