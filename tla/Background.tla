----------------------------- MODULE Background -----------------------------
(***************************************************************************)
(* "fleeting --while PID" (cli.rs): a launcher starts a detached worker,   *)
(* hands it the launch arguments on its stdin, proxies its stderr and      *)
(* waits until it announces the Docker context on its stdout.  The worker  *)
(* launches the VM, announces the context and keeps it while the watched   *)
(* process runs.  Launcher, worker, watched process, their parent (which   *)
(* reaps) and whoever sends signals interleave freely; what passes between *)
(* them are three pipes, the process table and the files of the context.   *)
(*                                                                         *)
(* The order of steps matters here, not their duration: the two waitpid    *)
(* loops are guards on the process table, seen some time after it changes. *)
(* The worker's machine is a Lease, as in Session, whose phases are the    *)
(* inside of this worker's "launching".                                    *)
(***************************************************************************)
EXTENDS Naturals

CONSTANTS Grace, Limit  \* of the lease

ASSUME LeaseAssumption == Grace \in Nat /\ Limit \in Nat /\ Grace < Limit

VARIABLES launcher,   \* where the launcher is in Cli::run
          exit,       \* how the launcher ended: 0, 1, or not by its own main()
          signalled,  \* history: the launcher was ended by SIGTERM or SIGINT
          listed,     \* the launcher is in the process table, be it a zombie
          stdin,      \* the worker's stdin: "open", "sent" (then EOF) or "closed"
          worker,     \* where the worker is in Cli::run
          ends,       \* the worker's ends of its pipes that are still open
          announced,  \* the ready line has been written to the worker's stdout
          healthy,    \* neither the keepalive nor dockerd has ended
          context,    \* the Docker context's files: "none", "made", or "left"
                      \* behind by a call that failed to make or remove them
          killed,     \* the worker was ended by SIGKILL
          watched,    \* the watched process is in the process table
          machine,    \* the state of the lease; before it, "none" or "asked",
                      \* after it, "off"
          idle        \* of the lease

L == INSTANCE Lease WITH state <- machine

leaseVars == <<machine, idle>>
vars == <<launcher, exit, signalled, listed, stdin, worker, ends, announced, healthy,
          context, killed, watched, leaseVars>>

launcherVars == <<launcher, exit, signalled, listed, stdin>>
workerVars == <<worker, ends, announced, context, killed>>

Pipes == {"stdin", "stdout", "stderr"}

\* The launcher has just spawned its child.  PID may name no process at all.
Init ==
    /\ launcher = "args" /\ exit = "none" /\ signalled = FALSE
    /\ listed = TRUE /\ stdin = "open"
    /\ worker = "starting" /\ ends = Pipes /\ announced = FALSE
    /\ healthy = TRUE /\ context = "none" /\ killed = FALSE
    /\ watched \in BOOLEAN
    /\ machine = "none" /\ idle = 0

Granted == machine \notin {"none", "asked"}
\* A machine whose lease has expired answers until it has shut down.
Answers == machine \in {"pending", "leased", "expired"}
MachineOver == machine \in {"off", "lost"}

-----------------------------------------------------------------------------
(* The launcher. *)

\* Seeded fault: the exit code is computed and not returned.
ExitsSilently(code) == launcher' = "over" /\ exit' = exit
Exits(code) == launcher' = "over" /\ exit' = code

\* write_all, then drop: the arguments fit the pipe, so this never blocks.
SendArgs ==
    /\ launcher = "args" /\ "stdin" \in ends
    /\ launcher' = "logs" /\ stdin' = "sent"
    /\ UNCHANGED <<exit, signalled, listed, workerVars, healthy, watched, leaseVars>>

\* EPIPE: the worker is gone already.
SendFails ==
    /\ launcher = "args" /\ "stdin" \notin ends
    /\ Exits("failure") /\ stdin' = "closed"
    /\ UNCHANGED <<signalled, listed, workerVars, healthy, watched, leaseVars>>

\* Seeded fault: one line of logs is read (if let) where all are (while let).
FirstLogLine == TRUE
LogsFinished == "stderr" \notin ends

\* select! { biased; .. } polls the end of the logs first ...
PollLogs ==
    /\ launcher = "logs"
    /\ IF LogsFinished THEN Exits("failure")
                       ELSE launcher' = "ready" /\ exit' = exit
    /\ UNCHANGED <<signalled, listed, stdin, workerVars, healthy, watched, leaseVars>>

\* Seeded fault: everything up to EOF is read (read_to_end) for the line.
WholeStream == "stdout" \notin ends
\* next_line() returns a line, or None at the end of the stream; either way
\* `ready` completes without an error.
ReadyResolved == announced \/ "stdout" \notin ends

\* ... and the ready line after it, with what the pipes hold by then.
PollReady ==
    /\ launcher = "ready"
    /\ IF ReadyResolved THEN Exits("success")
                        ELSE launcher' = "logs" /\ exit' = exit
    /\ UNCHANGED <<signalled, listed, stdin, workerVars, healthy, watched, leaseVars>>

Quits(code) ==
    /\ launcher # "over" /\ Exits(code)
    /\ stdin' = IF stdin = "open" THEN "closed" ELSE stdin
    /\ UNCHANGED <<listed, workerVars, healthy, watched, leaseVars>>

\* SIGTERM or SIGINT: main() returns ExitCode::FAILURE.
SignalLauncher == Quits("failure") /\ signalled' = TRUE

\* SIGKILL, or a panic on a closed stdout or stderr (exit code 101).
KillLauncher == Quits("killed") /\ UNCHANGED signalled

\* The launcher's parent waits for it: only now is its pid gone.
Reap ==
    /\ launcher = "over" /\ listed
    /\ listed' = FALSE
    /\ UNCHANGED <<launcher, exit, signalled, stdin, workerVars, healthy, watched, leaseVars>>

-----------------------------------------------------------------------------
(* The worker. *)

WorkerMoves(from, to) ==
    /\ worker = from /\ worker' = to
    /\ UNCHANGED <<launcherVars, ends, announced, healthy, killed, watched, leaseVars>>

\* Seeded fault: std::process::exit, which runs no destructor.
ExitAtOnce == "exiting"
\* A return, an error or a panic drops what Cli::run holds.
OnReturn == "leaving"

\* logging.init: a log file that cannot be opened ends the worker.
StartWorker ==
    /\ \/ WorkerMoves("starting", "reading")
       \/ WorkerMoves("starting", OnReturn)
    /\ UNCHANGED context

\* read_to_end returns at EOF; what it read decodes only if it was sent.
ReadArgs ==
    /\ \/ stdin = "sent" /\ WorkerMoves("reading", "launching")
       \/ stdin = "closed" /\ WorkerMoves("reading", OnReturn)
    /\ UNCHANGED context

\* The provider is asked for a machine, within WorkerConfig::spawn.
Ask ==
    /\ worker = "launching" /\ machine = "none"
    /\ machine' = "asked"
    /\ UNCHANGED <<launcherVars, workerVars, healthy, watched, idle>>

\* WorkerConfig::spawn returns, the context created in its last poll.  The
\* machine has answered; it may be shutting down or gone by now.
SpawnReady ==
    /\ Granted
    /\ WorkerMoves("launching", "created")
    /\ context' = "made"

\* An error in any phase of the launch.
SpawnFails == WorkerMoves("launching", OnReturn) /\ UNCHANGED context

\* DockerContext::new, the last call of the launch, fails halfway; what it has
\* made stays.
CreationFails ==
    /\ Granted
    /\ WorkerMoves("launching", OnReturn)
    /\ context' = "left"

\* Seeded fault: the launcher is not watched while the VM is launched.
NeverGone == FALSE
\* waitpid(launcher_pid) returns: a zombie still counts as running.
LauncherGone == ~listed

\* Seeded fault: kill -0, which cannot tell somebody else's process.
WatchUnseen == FALSE
\* waitpid(watch_pid) returns.
WatchGone == ~watched

AbortLaunch ==
    /\ LauncherGone \/ WatchGone
    /\ WorkerMoves("launching", OnReturn)
    /\ UNCHANGED context

\* println! panics when nobody can read the line any more.
Announce ==
    /\ worker = "created"
    /\ IF launcher # "over" THEN announced' = TRUE /\ worker' = "sanity"
                            ELSE announced' = announced /\ worker' = OnReturn
    /\ UNCHANGED <<launcherVars, ends, healthy, context, killed, watched, leaseVars>>

\* launcher_exited.await; nothing else is polled meanwhile.
LauncherSeen ==
    /\ LauncherGone
    /\ WorkerMoves("sanity", "serving")
    /\ UNCHANGED context

\* Seeded fault: wrap() forgets to poll the context.
ContextUnpolled == FALSE
ContextFailed == ~healthy

\* docker_context.wrap(watch_exited): whichever of the two ends first.
StopServing ==
    /\ ContextFailed \/ WatchGone
    /\ WorkerMoves("serving", OnReturn)
    /\ UNCHANGED context

\* SIGTERM or SIGINT: main's select! drops Cli::run at its next poll.  A read
\* of stdin sits in a thread of its own, for which the runtime waits.
Terminate ==
    /\ \/ WorkerMoves("reading", "blocked")
       \/ WorkerMoves("launching", OnReturn)
       \/ WorkerMoves("sanity", OnReturn)
       \/ WorkerMoves("serving", OnReturn)
    /\ UNCHANGED context

Unblock ==
    /\ stdin # "open"
    /\ WorkerMoves("blocked", OnReturn)
    /\ UNCHANGED context

\* Seeded fault: the destructor is skipped (mem::forget).
NotRemoved == {context}
\* Drop for DockerContext, if there is one: errors are logged, files then stay.
Removal == IF context = "made" THEN {"none", "left"} ELSE {context}

DropContext == WorkerMoves("leaving", "exiting") /\ context' \in Removal

\* SIGKILL, or the machine's OOM killer: no destructor runs.
KillWorker ==
    /\ worker \notin {"exiting", "over"}
    /\ worker' = "exiting" /\ killed' = TRUE
    /\ UNCHANGED <<launcherVars, ends, announced, healthy, context, watched, leaseVars>>

\* The kernel closes what the process had open, one descriptor at a time.
CloseEnd ==
    /\ worker = "exiting"
    /\ \E p \in ends : ends' = ends \ {p}
    /\ worker' = IF ends' = {} THEN "over" ELSE worker
    /\ UNCHANGED <<launcherVars, announced, healthy, context, killed, watched, leaseVars>>

-----------------------------------------------------------------------------
(* The rest of the world. *)

WatchedExits ==
    /\ watched /\ watched' = FALSE
    /\ UNCHANGED <<launcherVars, workerVars, healthy, leaseVars>>

\* The provider accepts a request, even of a worker that has ended since.
Accept ==
    /\ machine = "asked"
    /\ machine' = "pending" /\ idle' = 0
    /\ UNCHANGED <<launcherVars, workerVars, healthy, watched>>

\* Seeded fault: the remote shell touches on its own, without reading.
RenewAlone == L!Renew /\ UNCHANGED <<launcherVars, workerVars, healthy, watched>>
\* The keepalive task runs until its handle is dropped.
Renew ==
    /\ worker \in {"launching", "created", "sanity", "serving"} /\ L!Renew
    /\ UNCHANGED <<launcherVars, workerVars, healthy, watched>>

\* The end of the shutdown.
PowersOff == machine = "expired" /\ machine' = "off" /\ idle' = idle

LeaseRuns ==
    /\ L!Begin \/ L!Elapse \/ L!Expire \/ PowersOff
    /\ UNCHANGED <<launcherVars, workerVars, healthy, watched>>

LeaseFails ==
    /\ L!Abandon \/ L!Lose
    /\ UNCHANGED <<launcherVars, workerVars, healthy, watched>>

\* The keepalive task or dockerd ends, for whatever reason.
ContextFails ==
    /\ worker \in {"launching", "created", "sanity", "serving"}
    /\ healthy /\ healthy' = FALSE
    /\ UNCHANGED <<launcherVars, workerVars, watched, leaseVars>>

-----------------------------------------------------------------------------
LauncherStep == SendArgs \/ SendFails \/ PollLogs \/ PollReady

WorkerStep ==
    \/ StartWorker \/ ReadArgs \/ AbortLaunch \/ Announce \/ LauncherSeen
    \/ StopServing \/ Unblock \/ DropContext \/ CloseEnd

Next ==
    \/ LauncherStep \/ SignalLauncher \/ KillLauncher \/ Reap
    \/ WorkerStep \/ Ask \/ SpawnReady \/ SpawnFails \/ CreationFails
    \/ Terminate \/ KillWorker
    \/ WatchedExits \/ ContextFails \/ Accept \/ Renew \/ LeaseRuns \/ LeaseFails

Spec == Init /\ [][Next]_vars

\* Both processes run, the launcher's parent reaps, the machine's script runs,
\* and the keepalive of a context whose machine is gone fails in the end.
\* Nothing makes the launch of a VM return, or the watched process exit.
FairSpec ==
    /\ Spec
    /\ WF_vars(LauncherStep) /\ WF_vars(WorkerStep) /\ WF_vars(Reap)
    /\ WF_vars(LeaseRuns)
    /\ WF_vars(MachineOver /\ context = "made" /\ ContextFails)

-----------------------------------------------------------------------------
Gone == worker \in {"exiting", "over"}
Holds == worker \in {"created", "sanity", "serving", "leaving"}

TypeOK ==
    /\ launcher \in {"args", "logs", "ready", "over"}
    /\ exit \in {"none", "success", "failure", "killed"}
    /\ stdin \in {"open", "sent", "closed"}
    /\ worker \in {"starting", "reading", "blocked", "launching", "created",
                   "sanity", "serving", "leaving", "exiting", "over"}
    /\ ends \subseteq Pipes
    /\ signalled \in BOOLEAN /\ listed \in BOOLEAN /\ announced \in BOOLEAN
    /\ healthy \in BOOLEAN /\ killed \in BOOLEAN /\ watched \in BOOLEAN
    /\ context \in {"none", "made", "left"}
    /\ machine \in {"none", "asked", "pending", "leased", "expired", "lost", "off"}
    /\ idle \in 0..Limit
    /\ exit = "none" <=> launcher # "over"
    /\ launcher # "over" => listed
    /\ ends = {} <=> worker = "over"

\* A context never outlives the worker that made it, unless that was killed the
\* hard way: every other way out of Cli::run, the abort of a launch, a panic on a
\* launcher that is gone and signals included, comes to its removal.  Parts of it
\* stay where a call on its files failed, and no worker goes on with those.
ContextOwned ==
    /\ context = "made" => Holds \/ killed
    /\ context = "left" => worker \in {"leaving", "exiting", "over"}

\* When the launcher reports failure, the worker cannot come up with a context
\* any more and has come to remove the one it made (cli.rs:134-138).  The one
\* exception is a signal: that launcher ends with 1, too (main.rs:10-12), and
\* the worker serves on if it had announced its context by then.
FailureTruthful ==
    exit = "failure" =>
        \/ Gone /\ (context = "made" => killed)
        \/ signalled /\ (worker \in {"sanity", "serving"} => announced)

\* "The exit code is 0 is the VM started successfully or 1 if not"
\* (cli.rs:59-61): a launcher that reports success has been told so.
SuccessTruthful == exit = "success" => announced

\* "The worker monitors PID and exits when it is no longer running", in
\* whatever phase it is, and even if the launcher is still to be told.
WatchFollowed == ~watched ~> worker = "over"

\* A worker whose launcher ended before a context was ready aborts.
LauncherFollowed == (launcher = "over" /\ ~announced) ~> worker = "over"

\* A context that fails after it was announced, or whose machine does, ends the
\* worker, although nobody looks before the launcher is gone (cli.rs:192).
FailureNoticed == announced /\ (~healthy \/ MachineOver) ~> worker = "over"

\* When the watched process or the worker itself has ended, however it did, no
\* machine is left that is paid for, be it one that was just asked for.
NothingLeft == ~watched \/ Gone ~> ~Answers

\* The launcher does not hang once there is something to report.
LauncherAnswers == (announced \/ worker = "over") ~> launcher = "over"

S == INSTANCE Service WITH
       process <- IF ~Gone THEN "up" ELSE IF killed THEN "killed" ELSE "ended",
       machine <- CASE Answers -> "held" [] MachineOver -> "gone" [] OTHER -> machine

\* The background worker is the same service as a foreground run.
ImplementsService == S!Spec
=============================================================================
