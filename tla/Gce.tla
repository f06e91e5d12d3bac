-------------------------------- MODULE Gce --------------------------------
(***************************************************************************)
(* The GCE provider (vm_providers/gce.rs): several runs of fleeting in one *)
(* project.  An instance that shuts itself down is stopped, not deleted,   *)
(* so every run begins by listing the stopped instances of all runs and    *)
(* deleting them one by one.  It then makes the firewall rule if there is  *)
(* none, launches an instance and polls until that is running.             *)
(*                                                                         *)
(* Each request is one atomic step of Google's, who begin an operation and *)
(* finish it later: none of the answers, to a deletion, to the insertion   *)
(* of the rule or to that of an instance, is waited for beyond that.  Runs *)
(* interleave between requests and are interrupted.                        *)
(***************************************************************************)
CONSTANTS Runs,   \* one after another, each stands for any number of runs
          Names,  \* names of instances
          NoName  \* not one of them

ASSUME NamesAssumption == NoName \notin Names

VARIABLES pc,        \* the request each run is about to send, or how it ended
          todo,      \* the instances it has listed and not deleted yet
          mine,      \* the instance it has launched
          instance,  \* the status of the instance of each name
          rule,      \* the firewall rule: inserted and being made, or there, or not
          listed,    \* history: what each run has listed
          contested  \* history: runs whose next step another has taken already

vars == <<pc, todo, mine, instance, rule, listed, contested>>

Before == {"list", "delete", "firewall", "insert", "launch"}
Requests == Before \union {"poll"}
Ended == {"done", "refused", "failed", "stopped"}

Init ==
    /\ pc = [r \in Runs |-> "list"] /\ todo = [r \in Runs |-> {}]
    /\ mine = [r \in Runs |-> NoName]
    /\ instance = [i \in Names |-> "none"] /\ rule \in {"none", "ready"}
    /\ listed = [r \in Runs |-> {}] /\ contested = {}

Goes(r, from, to) == pc[r] = from /\ pc' = [pc EXCEPT ![r] = to]

-----------------------------------------------------------------------------
(* Collecting garbage. *)

\* Seeded fault: the filter on the status is dropped.
AnyStatus == {"starting", "running", "stopping", "terminated"}
\* Seeded fault: the filter is status != RUNNING.
NotRunning == {"stopping", "terminated", "deleting"}
\* status = TERMINATED
Collectible == {"terminated"}

Garbage == {i \in Names : instance[i] \in Collectible}

\* One page of the answer; further ones are not asked for.
List(r) ==
    /\ Goes(r, "list", "delete")
    /\ \E page \in SUBSET Garbage :
        /\ Garbage # {} => page # {}
        /\ todo' = [todo EXCEPT ![r] = page]
        /\ listed' = [listed EXCEPT ![r] = page]
    /\ UNCHANGED <<mine, instance, rule, contested>>

Others(r, i) == {s \in Runs \ {r} : i \in todo[s]}

\* Google takes the request, in whatever state the instance is; what is being
\* deleted already may be taken or refused.
Delete(r, i) ==
    /\ pc[r] = "delete" /\ i \in todo[r] /\ instance[i] # "none"
    /\ instance' = [instance EXCEPT ![i] = "deleting"]
    /\ todo' = [todo EXCEPT ![r] = @ \ {i}]
    /\ contested' = contested \union Others(r, i)
    /\ UNCHANGED <<pc, mine, rule, listed>>

\* The ? of a deletion: the run ends before it has launched anything.
DeleteRefused(r, i) ==
    /\ i \in todo[r] /\ instance[i] \in {"deleting", "none"}
    /\ Goes(r, "delete", "refused")
    /\ UNCHANGED <<todo, mine, instance, rule, listed, contested>>

\* Seeded fault: the loop is left after the first deletion (if for while).
FirstOnly(r) == todo[r] = {} \/ todo[r] # listed[r]
CollectionOver(r) == todo[r] = {}

Collected(r) ==
    /\ CollectionOver(r)
    /\ Goes(r, "delete", "firewall")
    /\ UNCHANGED <<todo, mine, instance, rule, listed, contested>>

-----------------------------------------------------------------------------
(* The firewall rule. *)

\* Seeded fault: 404 is taken for an answer.
StraightOn == "launch"
AfterMissing == "insert"

\* None was ever asked for, or Google has failed to make it.
NoRule == rule \in {"none", "lost"}

GetRule(r) ==
    /\ ~NoRule /\ Goes(r, "firewall", "launch")
    /\ UNCHANGED <<todo, mine, instance, rule, listed, contested>>

\* 404: there is no rule, or it is still being made.
RuleMissing(r) ==
    /\ rule # "ready" /\ Goes(r, "firewall", AfterMissing)
    /\ contested' = IF NoRule THEN contested ELSE contested \union {r}
    /\ UNCHANGED <<todo, mine, instance, rule, listed>>

\* The answer is an operation that has begun; the run goes on.
InsertRule(r) ==
    /\ NoRule /\ Goes(r, "insert", "launch")
    /\ rule' = "pending"
    /\ contested' = contested \union {s \in Runs \ {r} : pc[s] = "insert"}
    /\ UNCHANGED <<todo, mine, instance, listed>>

\* A rule of that name exists by now, or is being made.
InsertRefused(r) ==
    /\ ~NoRule /\ Goes(r, "insert", "refused")
    /\ UNCHANGED <<todo, mine, instance, rule, listed, contested>>

-----------------------------------------------------------------------------
(* The instance. *)

\* pid and random suffix: nobody knows the name of an instance that is gone.
Fresh(i) ==
    instance[i] = "none" /\ \A s \in Runs : i \notin listed[s] /\ mine[s] # i

Launch(r) ==
    /\ Goes(r, "launch", "poll")
    /\ \E i \in Names :
        /\ Fresh(i)
        /\ mine' = [mine EXCEPT ![r] = i]
        /\ instance' = [instance EXCEPT ![i] = "starting"]
    /\ UNCHANGED <<todo, rule, listed, contested>>

\* Seeded fault: an instance that still starts is an error.
ImpatientOutcome(r) == IF instance[mine[r]] = "running" THEN "done" ELSE "failed"
\* Provisioning, staging, running, and everything else (404 included).
Outcome(r) ==
    CASE instance[mine[r]] = "starting" -> "poll"
      [] instance[mine[r]] = "running" -> "done"
      [] OTHER -> "failed"

Poll(r) ==
    /\ Goes(r, "poll", Outcome(r))
    /\ UNCHANGED <<todo, mine, instance, rule, listed, contested>>

-----------------------------------------------------------------------------
\* Any request may fail, and a signal or SIGKILL may come before any.
Interrupted(r) ==
    /\ pc[r] \in Requests
    /\ pc' = [pc EXCEPT ![r] = "stopped"]
    /\ UNCHANGED <<todo, mine, instance, rule, listed, contested>>

\* The next run.
Rerun(r) ==
    /\ pc[r] \in Ended
    /\ pc' = [pc EXCEPT ![r] = "list"]
    /\ todo' = [todo EXCEPT ![r] = {}] /\ listed' = [listed EXCEPT ![r] = {}]
    /\ mine' = [mine EXCEPT ![r] = NoName]
    /\ contested' = contested \ {r}
    /\ UNCHANGED <<instance, rule>>

-----------------------------------------------------------------------------
(* Google. *)

Becomes(i, from, to) ==
    /\ instance[i] \in from
    /\ instance' = [instance EXCEPT ![i] = to]
    /\ UNCHANGED <<pc, todo, mine, rule, listed, contested>>

Boot(i) == Becomes(i, {"starting"}, "running")

\* The machine shuts itself down (VmLease), or Google preempts it.
Stop(i) == Becomes(i, {"starting", "running"}, "stopping")

Stopped(i) == Becomes(i, {"stopping"}, "terminated")

Vanish(i) == Becomes(i, {"deleting"}, "none")

\* The insertion of the rule ends, well or not.
RuleMade ==
    /\ rule = "pending"
    /\ rule' \in {"ready", "lost"}
    /\ UNCHANGED <<pc, todo, mine, instance, listed, contested>>

-----------------------------------------------------------------------------
Deletion(r) == \E i \in Names : Delete(r, i) \/ DeleteRefused(r, i)

Step(r) ==
    \/ List(r) \/ Deletion(r) \/ Collected(r)
    \/ GetRule(r) \/ RuleMissing(r) \/ InsertRule(r) \/ InsertRefused(r)
    \/ Launch(r) \/ Poll(r)

Google(i) == Boot(i) \/ Stop(i) \/ Stopped(i) \/ Vanish(i)

Next ==
    \/ \E r \in Runs : Step(r) \/ Interrupted(r) \/ Rerun(r)
    \/ \E i \in Names : Google(i)
    \/ RuleMade

Spec == Init /\ [][Next]_vars

\* Requests are answered and instances boot.
FairSpec ==
    /\ Spec
    /\ \A r \in Runs : WF_vars(Step(r))
    /\ \A i \in Names : WF_vars(Boot(i))

-----------------------------------------------------------------------------
TypeOK ==
    /\ pc \in [Runs -> Requests \union Ended]
    /\ todo \in [Runs -> SUBSET Names] /\ listed \in [Runs -> SUBSET Names]
    /\ mine \in [Runs -> Names \union {NoName}]
    /\ instance \in [Names -> {"none", "starting", "running", "stopping",
                               "terminated", "deleting"}]
    /\ rule \in {"none", "pending", "ready", "lost"} /\ contested \subseteq Runs
    /\ \A r \in Runs : /\ pc[r] \in Before => mine[r] = NoName
                       /\ pc[r] = "poll" => mine[r] # NoName

\* The list a run works through may be old: what is on it must still be
\* garbage when its turn comes.  No run ever has an instance deleted that runs,
\* or is about to, or has not stopped yet.
LiveSpared ==
    [][\A i \in Names : instance[i] \in {"starting", "running", "stopping"} =>
           instance'[i] # "deleting"]_vars

\* A run is turned away before its launch, by the collection or by the firewall
\* rule, only because another run was faster with the same step, or because the
\* rule was still being made when it looked: one run at a time never fails for
\* what earlier ones have left, once that is finished.
RefusalContested == \A r \in Runs : pc[r] = "refused" => r \in contested

\* "fleeting collects garbage at the beginning of the run" (gce.rs:42): when a
\* run goes on, all it has listed is being deleted, by whatever run.
GarbageCollected ==
    \A r \in Runs : pc[r] \in {"firewall", "insert", "launch", "poll", "done"} =>
        \A i \in listed[r] : instance[i] \in {"deleting", "none"}

\* Whatever the race for it, no instance is launched before the rule has been
\* asked for: it is there, on its way, or Google has failed to make it.  That it
\* is there in time is not promised: nothing waits for it.
RuleFirst == \A i \in Names : instance[i] # "none" => rule # "none"

\* The status loop ends with the address, or because the instance stopped.
LaunchResolves ==
    \A r \in Runs : pc[r] = "poll" ~>
        \/ pc[r] \in {"done", "stopped"}
        \/ pc[r] = "failed" /\ instance[mine[r]] \notin {"starting", "running"}
=============================================================================
