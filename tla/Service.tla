------------------------------- MODULE Service -------------------------------
(***************************************************************************)
(* What fleeting promises to its user: a rented machine and a Docker       *)
(* context for the life of one process.  The machine is granted after it   *)
(* has been asked for, and given back for good; the context is made only   *)
(* for a machine that was granted, and goes with the process, unless that  *)
(* is killed.  Files of it may be left where they cannot be removed, or    *)
(* could not all be written: a user sees the error, and no context that    *)
(* still counts as made.  Session and Background implement this            *)
(* specification.                                                          *)
(***************************************************************************)
VARIABLES process,  \* "up", "ended" or "killed"
          machine,  \* "none", "asked", "held" or "gone"
          context   \* the Docker context: "none", "made", or "left" in parts

vars == <<process, machine, context>>

Init == process = "up" /\ machine = "none" /\ context = "none"

Granted == machine \in {"held", "gone"}

Ask ==
    /\ process = "up" /\ machine = "none"
    /\ machine' = "asked" /\ UNCHANGED <<process, context>>

\* Granted to whoever asked, even if the process has ended since.
Grant ==
    /\ machine = "asked"
    /\ machine' = "held" /\ UNCHANGED <<process, context>>

\* The machine has answered.  It may be gone again when the context is made,
\* and of a context that cannot be made, some files may stay.
Serve ==
    /\ process = "up" /\ Granted /\ context = "none"
    /\ context' \in {"made", "left"} /\ UNCHANGED <<process, machine>>

\* The machine has powered off, or was lost.
Release ==
    /\ machine = "held"
    /\ machine' = "gone" /\ UNCHANGED <<process, context>>

End ==
    /\ process = "up"
    /\ process' = "ended" /\ UNCHANGED machine
    /\ \/ context' = IF context = "made" THEN "none" ELSE context
       \/ Granted /\ context' = "left"

Kill ==
    /\ process = "up"
    /\ process' = "killed" /\ UNCHANGED <<machine, context>>

Next == Ask \/ Grant \/ Serve \/ Release \/ End \/ Kill

Spec == Init /\ [][Next]_vars
=============================================================================
