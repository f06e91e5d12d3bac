-------------------------------- MODULE Ec2 --------------------------------
(***************************************************************************)
(* The EC2 provider (vm_providers/ec2.rs): several runs of fleeting in one *)
(* AWS account.  They share one thing, the security group "fleeting", which *)
(* the first run that does not find it makes in two requests: create it,   *)
(* then let traffic in.  Each run then launches an instance of its own and *)
(* polls until it is running.                                              *)
(*                                                                         *)
(* Each request is one atomic step of AWS; runs interleave between them,   *)
(* fail, and are interrupted.  A new instance is not known to the          *)
(* DescribeInstances API at once (eventual consistency).                   *)
(***************************************************************************)
CONSTANT Runs  \* one after another, each stands for any number of runs

VARIABLES pc,        \* the request each run is about to send, or how it ended
          group,     \* the security group: "absent", "closed" or "open"
          instance,  \* each run's instance
          known,     \* runs whose instance DescribeInstances finds
          torn       \* history: a run ended between its two requests

vars == <<pc, group, instance, known, torn>>

Requests == {"lookup", "create", "authorize", "launch", "poll"}
Ended == {"done", "failed", "stopped"}

Init ==
    /\ pc = [r \in Runs |-> "lookup"]
    /\ group \in {"absent", "open"} /\ torn = FALSE
    /\ instance = [r \in Runs |-> "none"] /\ known = {}

Goes(r, from, to) == pc[r] = from /\ pc' = [pc EXCEPT ![r] = to]

-----------------------------------------------------------------------------
(* get_or_create_security_group. *)

\* A group that is found is used as it is.
AfterLookup == IF group = "absent" THEN "create" ELSE "launch"

Lookup(r) ==
    /\ Goes(r, "lookup", AfterLookup)
    /\ UNCHANGED <<group, instance, known, torn>>

\* AWS refuses a second group of the same name.
CreateGroup(r) ==
    /\ \/ group = "absent" /\ group' = "closed" /\ Goes(r, "create", "authorize")
       \/ group # "absent" /\ group' = group /\ Goes(r, "create", "failed")
    /\ UNCHANGED <<instance, known, torn>>

\* Seeded fault: the rule goes to another group, such as the default one.
Unopened == group
\* One rule for all traffic.
Opened == "open"

\* Only the run that made the group gets here (ClosedAccounted).
Authorize(r) ==
    /\ Goes(r, "authorize", "launch")
    /\ group' = Opened
    /\ UNCHANGED <<instance, known, torn>>

-----------------------------------------------------------------------------
(* run_instances and the status loop. *)

Launch(r) ==
    /\ Goes(r, "launch", "poll")
    /\ instance' = [instance EXCEPT ![r] = "pending"]
    /\ UNCHANGED <<group, known, torn>>

\* Seeded fault: an instance that is not found yet is an error.
NotFoundFails(r) == IF r \notin known THEN "failed" ELSE
    [pending |-> "poll", running |-> "done", terminated |-> "failed"][instance[r]]
\* What the loop makes of the answer: not found is expected and not an error.
Outcome(r) == IF r \notin known THEN "poll" ELSE
    [pending |-> "poll", running |-> "done", terminated |-> "failed"][instance[r]]

Poll(r) ==
    /\ Goes(r, "poll", Outcome(r))
    /\ UNCHANGED <<group, instance, known, torn>>

-----------------------------------------------------------------------------
\* Any request may fail, and a signal or SIGKILL may come before any: the
\* future is dropped, and nothing that was made in AWS is undone.
Interrupted(r) ==
    /\ pc[r] \in Requests
    /\ pc' = [pc EXCEPT ![r] = "stopped"]
    /\ torn' = (torn \/ pc[r] = "authorize")
    /\ UNCHANGED <<group, instance, known>>

\* The next run; the instance of the one before has ended.
Rerun(r) ==
    /\ pc[r] \in Ended /\ instance[r] \in {"none", "terminated"}
    /\ pc' = [pc EXCEPT ![r] = "lookup"]
    /\ instance' = [instance EXCEPT ![r] = "none"] /\ known' = known \ {r}
    /\ UNCHANGED <<group, torn>>

-----------------------------------------------------------------------------
(* AWS. *)

Boot(r) ==
    /\ instance[r] = "pending"
    /\ instance' = [instance EXCEPT ![r] = "running"]
    /\ UNCHANGED <<pc, group, known, torn>>

\* The machine shuts itself down (VmLease), which terminates it, or AWS does.
Terminate(r) ==
    /\ instance[r] \in {"pending", "running"}
    /\ instance' = [instance EXCEPT ![r] = "terminated"]
    /\ UNCHANGED <<pc, group, known, torn>>

BecomesKnown(r) ==
    /\ instance[r] # "none" /\ r \notin known
    /\ known' = known \union {r}
    /\ UNCHANGED <<pc, group, instance, torn>>

-----------------------------------------------------------------------------
Step(r) == Lookup(r) \/ CreateGroup(r) \/ Authorize(r) \/ Launch(r) \/ Poll(r)

Aws(r) == Boot(r) \/ Terminate(r) \/ BecomesKnown(r)

Next == \E r \in Runs : Step(r) \/ Interrupted(r) \/ Rerun(r) \/ Aws(r)

Spec == Init /\ [][Next]_vars

\* Requests are answered, instances boot and become known.  Nobody runs
\* fleeting again, or interrupts it, because it would be fair.
FairSpec ==
    /\ Spec
    /\ \A r \in Runs : WF_vars(Step(r)) /\ WF_vars(Boot(r)) /\ WF_vars(BecomesKnown(r))

-----------------------------------------------------------------------------
TypeOK ==
    /\ pc \in [Runs -> Requests \union Ended]
    /\ group \in {"absent", "closed", "open"}
    /\ instance \in [Runs -> {"none", "pending", "running", "terminated"}]
    /\ known \subseteq Runs /\ torn \in BOOLEAN
    /\ \A r \in Runs : (pc[r] \in {"poll", "done"} \/ r \in known) => instance[r] # "none"

\* A group that lets nothing in is about to be opened by the run that made it,
\* unless such a run ended halfway: runs that race for the creation neither
\* open a group twice nor leave it to each other.
ClosedAccounted ==
    /\ group = "closed" => torn \/ \E r \in Runs : pc[r] = "authorize"
    /\ \A r \in Runs : pc[r] = "authorize" => group = "closed"
    /\ \A r, s \in Runs : pc[r] = "authorize" /\ pc[s] = "authorize" => r = s

\* "launches an ephemeral VM instance with Docker Engine [..] so you can use
\* the Docker CLI (docker) against it" (README.md:7): the address that spawn
\* returns is of an instance that lets traffic in, now or in a moment.
ReachableWhenDone ==
    \A r \in Runs : pc[r] = "done" =>
        group = "open" \/ \E s \in Runs : pc[s] = "authorize"

\* The loop has no deadline, and needs none: a run that nobody stops gets the
\* address of its instance, or fails because the instance ended.  It neither
\* waits for an instance that will never run nor takes one that is not visible
\* yet, or still boots, for one that failed.
LaunchResolves ==
    \A r \in Runs : pc[r] = "poll" ~>
        \/ pc[r] \in {"done", "stopped"}
        \/ pc[r] = "failed" /\ instance[r] = "terminated"
=============================================================================
