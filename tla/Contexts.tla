------------------------------ MODULE Contexts ------------------------------
(***************************************************************************)
(* The files of Docker contexts (docker_context.rs), under ~/.docker of a  *)
(* user who runs several fleeting processes.  A context is two directories *)
(* named after a hash of its name, one with meta.json and one with three   *)
(* PEM files; DockerContext::new makes them one call at a time and Drop    *)
(* removes them, the meta directory first.  Neither awaits anything, so    *)
(* only SIGKILL stops them halfway; other processes run in between.  Every *)
(* call may fail: new() returns at once and leaves what it made, drop()    *)
(* logs the error, leaves what it could not remove, and goes on.           *)
(*                                                                         *)
(* A process stands for all the runs that use its name one after another:  *)
(* the same --context-name, or "fleeting-<pid>" when a pid is used again.  *)
(***************************************************************************)
CONSTANTS Procs,  \* processes
          Names,  \* names of contexts
          Name,   \* the name each process uses
          Nobody  \* what is in a file that does not exist

ASSUME NamesAssumption == Name \in [Procs -> Names] /\ Nobody \notin Procs

VARIABLES pc,       \* where each process is in new() or drop()
          meta,     \* names whose meta directory exists
          tls,      \* names whose tls/.../docker directory exists
          content,  \* who wrote what is in each file
          spoiled,  \* history: directories left when new() failed or on SIGKILL
          undeleted \* history: directories whose removal failed

vars == <<pc, meta, tls, content, spoiled, undeleted>>
history == <<spoiled, undeleted>>

Pems == {"ca", "cert", "key"}
Files == {"json"} \union Pems
Ended == {"gone", "refused", "failed", "dead"}
Stages == {"idle", "meta", "tls", "live", "dropping"} \union Files \union Ended

\* The stages at which a process has made each directory and not yet come to
\* remove it.
Uses == [meta |-> {"tls", "live"} \union Files,
         tls  |-> {"live", "dropping"} \union Files]

NoFiles == [f \in Files |-> Nobody]

Init ==
    /\ pc = [p \in Procs |-> "idle"]
    /\ meta = {} /\ tls = {} /\ spoiled = {} /\ undeleted = {}
    /\ content = [n \in Names |-> NoFiles]

-----------------------------------------------------------------------------
(* DockerContext::new. *)

Moves(p, from, to) == pc[p] = from /\ pc' = [pc EXCEPT ![p] = to]

\* meta_dir.exists()
Taken(n) == n \in meta

CheckFree(p) ==
    /\ Moves(p, "idle", IF Taken(Name[p]) THEN "refused" ELSE "meta")
    /\ UNCHANGED <<meta, tls, content, history>>

\* create_dir_all is content with a directory that is there already.
MakeMeta(p) ==
    /\ Moves(p, "meta", "tls")
    /\ meta' = meta \union {Name[p]}
    /\ UNCHANGED <<tls, content, history>>

MakeTls(p) ==
    /\ Moves(p, "tls", "json")
    /\ tls' = tls \union {Name[p]}
    /\ UNCHANGED <<meta, content, history>>

\* Seeded fault: the client key is not written.
SkipKey == [json |-> "ca", ca |-> "cert", cert |-> "live", key |-> "live"]
\* The order of the four writes.
Following == [json |-> "ca", ca |-> "cert", cert |-> "key", key |-> "live"]

Dirs == [meta |-> meta, tls |-> tls]
Parent(f) == IF f = "json" THEN meta ELSE tls

WriteFile(p) ==
    /\ pc[p] \in Files
    /\ Name[p] \in Parent(pc[p])
    /\ content' = [content EXCEPT ![Name[p]][pc[p]] = p]
    /\ pc' = [pc EXCEPT ![p] = Following[pc[p]]]
    /\ UNCHANGED <<meta, tls, history>>

\* What a process that ends now leaves on the disk.
Leaves(p, d) == pc[p] \in Uses[d] /\ Name[p] \in Dirs[d]
Spoils(p) == spoiled \union {<<d, Name[p]>> : d \in {e \in DOMAIN Uses : Leaves(p, e)}}

\* A call fails, because a directory is gone or for any other reason: `?`
\* returns at once, there is no DockerContext yet, nothing is removed.
CallFails(p) ==
    /\ pc[p] \in {"meta", "tls"} \union Files
    /\ pc' = [pc EXCEPT ![p] = "failed"]
    /\ spoiled' = Spoils(p)
    /\ UNCHANGED <<meta, tls, content, undeleted>>

-----------------------------------------------------------------------------
(* Drop for DockerContext. *)

\* The files that are left when some of a name's are removed.
Without(n, fs) ==
    [content EXCEPT ![n] = [f \in Files |-> IF f \in fs THEN Nobody ELSE @[f]]]

\* Seeded fault: the meta directory stays.
KeepsMeta(n) == meta
MetaLeft(n) == meta \ {n}

\* Seeded fault: Drop returns at the first error, as `?` in place of the log.
GivesUp(failed) == IF failed THEN "gone" ELSE "dropping"
\* An error is logged, and the second directory is removed all the same.
AfterMeta(failed) == "dropping"

\* remove_dir_all has removed the directory, or found none.
Removed(d, n) ==
    /\ spoiled' = spoiled \ {<<d, n>>}
    /\ undeleted' = undeleted \ {<<d, n>>}

\* remove_dir_all fails: the directory stays, and any of its files with it.
Stays(d, n, files) ==
    /\ n \in Dirs[d]
    /\ \E fs \in SUBSET files : content' = Without(n, fs)
    /\ undeleted' = undeleted \union {<<d, n>>}
    /\ UNCHANGED <<meta, tls, spoiled>>

RemoveMeta(p) ==
    \/ /\ Moves(p, "live", AfterMeta(FALSE))
       /\ meta' = MetaLeft(Name[p])
       /\ content' = Without(Name[p], {"json"})
       /\ Removed("meta", Name[p])
       /\ UNCHANGED tls
    \/ /\ Moves(p, "live", AfterMeta(TRUE))
       /\ Stays("meta", Name[p], {"json"})

RemoveTls(p) ==
    \/ /\ Moves(p, "dropping", "gone")
       /\ tls' = tls \ {Name[p]}
       /\ content' = Without(Name[p], Pems)
       /\ Removed("tls", Name[p])
       /\ UNCHANGED meta
    \/ /\ Moves(p, "dropping", "gone")
       /\ Stays("tls", Name[p], Pems)

-----------------------------------------------------------------------------
(* SIGKILL, and the next process under the same name. *)

Kill(p) ==
    /\ pc[p] \notin Ended
    /\ pc' = [pc EXCEPT ![p] = "dead"]
    /\ spoiled' = Spoils(p)
    /\ UNCHANGED <<meta, tls, content, undeleted>>

\* What an earlier process left counts as nobody's from here on.
Rerun(p) ==
    /\ pc[p] \in Ended
    /\ pc' = [pc EXCEPT ![p] = "idle"]
    /\ content' = [content EXCEPT ![Name[p]] =
                      [f \in Files |-> IF @[f] = p THEN Nobody ELSE @[f]]]
    /\ UNCHANGED <<meta, tls, history>>

Step(p) ==
    \/ CheckFree(p) \/ MakeMeta(p) \/ MakeTls(p) \/ WriteFile(p) \/ CallFails(p)
    \/ RemoveMeta(p) \/ RemoveTls(p) \/ Kill(p) \/ Rerun(p)

Next == \E p \in Procs : Step(p)

Spec == Init /\ [][Next]_vars

-----------------------------------------------------------------------------
TypeOK ==
    /\ pc \in [Procs -> Stages]
    /\ meta \subseteq Names /\ tls \subseteq Names
    /\ spoiled \subseteq (DOMAIN Uses) \X Names
    /\ undeleted \subseteq (DOMAIN Uses) \X Names
    /\ content \in [Names -> [Files -> Procs \union {Nobody}]]
    /\ \A n \in Names : \A f \in Files : content[n][f] # Nobody => n \in Parent(f)

\* The directory d of n has a user, or is what is left since a process failed
\* in new() or was killed, or since the removal of this very directory failed.
Accounted(d, n) ==
    \/ <<d, n>> \in spoiled \union undeleted
    \/ \E p \in Procs : Name[p] = n /\ pc[p] \in Uses[d]

\* Whoever is told that a context already exists either meets a process that
\* has it, or the remains of one that failed in new(), was killed, or could
\* not remove the meta directory (then for good: nothing in fleeting removes
\* them).  Overlapping runs that end in drop() leave no others.
RefusalJustified == \A n \in meta : Accounted("meta", n)

\* Keys and certificates never outlive the last process that uses the name,
\* however its runs and those of others overlapped, unless new() failed, a
\* process was killed, or the removal of the tls directory itself failed: a
\* meta directory that could not be removed does not keep them.
KeysAccounted == \A n \in tls : Accounted("tls", n)

Intact(p) ==
    /\ Name[p] \in meta /\ Name[p] \in tls
    /\ \A f \in Files : content[Name[p]][f] = p

\* "This ensures the following commands have a fully-functioning Docker
\* context" (cli.rs:61): a context in use has all its files, and they are of
\* the VM of the process that uses it.
LiveIntact == \A p \in Procs : pc[p] = "live" => Intact(p)

\* Nobody else uses the name of p at the same time.
Alone(p) == \A q \in Procs : Name[q] = Name[p] => q = p

\* With a name of its own, as "fleeting-<pid>" is, a context in use has all its
\* own files, whatever earlier processes of the same name left when they failed,
\* were killed or could not remove it, and whatever the others do.
OwnIntact == \A p \in Procs : pc[p] = "live" /\ Alone(p) => Intact(p)
=============================================================================
