------------------------------ MODULE Session ------------------------------
(***************************************************************************)
(* "fleeting <provider> COMMAND": one process launches a machine           *)
(* (WorkerConfig::spawn), runs COMMAND with a Docker context for it        *)
(* (DockerContext::wrap) and ends with the command's exit code.            *)
(*                                                                         *)
(* The machine is a Lease (which VmLease implements): the process requests *)
(* it, renews it through its keepalive task and has no other hold on it.   *)
(* When the lease has expired, the machine shuts down, and answers until   *)
(* it is off.                                                              *)
(* The process is one thread.  Its main task, its two background tasks,    *)
(* the command, the machine and whoever sends signals interleave.          *)
(***************************************************************************)
EXTENDS Naturals

CONSTANTS Grace, Limit  \* of the lease

ASSUME LeaseAssumption == Grace \in Nat /\ Limit \in Nat /\ Grace < Limit

VARIABLES phase,      \* what the main task awaits
          keepalive,  \* the keepalive task: "none", "running" or "failed"
          dockerd,    \* the task that runs dockerd: or "clean", after exit 0
          ssh,        \* the SSH connection: "none", "open" or "lost"
          context,    \* the Docker context's files: "none", "made", or "left"
                      \* behind by a call that failed to make or remove them
          command,    \* the user's command, or how it ended
          result,     \* how the process ended
          machine,    \* the state of the lease; before it, "none" or "asked",
                      \* after it, "off"
          idle        \* of the lease

L == INSTANCE Lease WITH state <- machine

taskVars == <<keepalive, dockerd, ssh>>
leaseVars == <<machine, idle>>
vars == <<phase, taskVars, context, command, result, leaseVars>>

Init ==
    /\ phase = "provider" /\ keepalive = "none" /\ dockerd = "none" /\ ssh = "none"
    /\ context = "none" /\ command = "none" /\ result = "none"
    /\ machine = "none" /\ idle = 0

Running == phase # "over"
Answers == machine \in {"pending", "leased", "expired"}
MachineOver == machine \in {"off", "lost"}

-----------------------------------------------------------------------------
(* How the process ends. *)

\* Seeded fault: the context's destructor is skipped (mem::forget).
ContextForgotten == {context}
\* Drop for DockerContext, which logs it when files cannot be removed.
ContextDropped == IF context = "made" THEN {"none", "left"} ELSE {context}

\* Seeded fault: the exit code is lost.
EndsSilently(how) ==
    /\ phase' = "over" /\ result' = result
    /\ context' \in ContextDropped
    /\ keepalive' = "none" /\ dockerd' = "none" /\ ssh' = "none"
\* Cli::run returns, panics or is dropped: with it go the context, the SSH
\* session and the handles that keep the two background tasks alive.
Ends(how) ==
    /\ phase' = "over" /\ result' = how
    /\ context' \in ContextDropped
    /\ keepalive' = "none" /\ dockerd' = "none" /\ ssh' = "none"

\* SIGTERM or SIGINT, seen at the next await.
Signal ==
    /\ Running /\ Ends("signal")
    /\ UNCHANGED <<command, leaseVars>>

Kill ==
    /\ Running
    /\ phase' = "over" /\ result' = "killed"
    /\ keepalive' = "none" /\ dockerd' = "none" /\ ssh' = "none"
    /\ UNCHANGED <<context, command, leaseVars>>

-----------------------------------------------------------------------------
(* WorkerConfig::spawn. *)

\* The phases that await an SSH channel, in one of them the handshake first.
OnChannel == phase \in {"auth", "otp", "install", "keys"}
Launching == {"provider", "connect", "auth", "otp", "install", "keys", "dockerd", "reached"}

\* An error or a deadline in any phase: `?` or bail!.
PhaseFails ==
    /\ phase \in Launching \ {"reached"} /\ Ends("error")
    /\ UNCHANGED <<command, leaseVars>>

Ask ==
    /\ phase = "provider" /\ machine = "none"
    /\ machine' = "asked"
    /\ UNCHANGED <<phase, taskVars, context, command, result, idle>>

\* The provider accepts the request, whether or not anybody waits for its
\* answer: a process that has ended cannot take back what it sent.
Accept ==
    /\ machine = "asked"
    /\ machine' = "pending" /\ idle' = 0
    /\ UNCHANGED <<phase, taskVars, context, command, result>>

\* The address of an instance that the provider has seen running.
ProviderReturns ==
    /\ phase = "provider" /\ machine \notin {"none", "asked"}
    /\ phase' = "connect"
    /\ UNCHANGED <<taskVars, context, command, result, leaseVars>>

\* The machine answers, even if it is shutting down.
Succeeds(from, to) ==
    /\ phase = from /\ phase' = to /\ Answers
    /\ UNCHANGED <<context, command, result, leaseVars>>

\* A TCP stream to port 22.
Connects == Succeeds("connect", "auth") /\ UNCHANGED taskVars

Handshake ==
    /\ Succeeds("auth", "auth") /\ ssh = "none"
    /\ ssh' = "open" /\ UNCHANGED <<keepalive, dockerd>>

\* One of the attempts of a minute is accepted.
Authenticates == Succeeds("auth", "otp") /\ ssh = "open" /\ UNCHANGED taskVars

\* The OTP that is read back is the one that was sent; the keepalive starts.
StartKeepalive ==
    /\ Succeeds("otp", "install") /\ ssh = "open"
    /\ keepalive' = "running" /\ UNCHANGED <<dockerd, ssh>>

\* uname, the list of releases and the install script.  The keepalive task
\* may have failed: nobody looks.
Install == Succeeds("install", "keys") /\ ssh = "open" /\ UNCHANGED taskVars

StartDockerd ==
    /\ Succeeds("keys", "dockerd") /\ ssh = "open"
    /\ dockerd' = "running" /\ UNCHANGED <<keepalive, ssh>>

\* select!: the keepalive's failure is seen here; that of dockerd is not, nor
\* is the loss of the connection as such.
LaunchAbandoned ==
    /\ phase \in {"dockerd", "reached"} /\ keepalive = "failed"
    /\ Ends("error")
    /\ UNCHANGED <<command, leaseVars>>

\* Port 2376 answers.  The poll that takes notice comes later.
PortReached == Succeeds("dockerd", "reached") /\ UNCHANGED taskVars

\* The context is created in that poll, whatever has become of the machine, of
\* dockerd and of the keepalive since.
CreateContext ==
    /\ phase = "reached" /\ phase' = "serving" /\ context' = "made"
    /\ UNCHANGED <<taskVars, command, result, leaseVars>>

\* DockerContext::new fails: the name is taken, or a call fails halfway and
\* what it has made stays.
CreationFails ==
    /\ phase = "reached" /\ phase' = "over" /\ result' = "error"
    /\ context' \in {"none", "left"}
    /\ keepalive' = "none" /\ dockerd' = "none" /\ ssh' = "none"
    /\ UNCHANGED <<command, leaseVars>>

-----------------------------------------------------------------------------
(* DockerContext::wrap(run_user_command), a select! in random order. *)

\* The first poll of the command's future spawns it.
StartCommand ==
    /\ phase = "serving" /\ command = "none"
    /\ \/ command' = "running" /\ UNCHANGED <<phase, taskVars, context, result>>
       \/ command' = command /\ Ends("error")
    /\ UNCHANGED leaseVars

\* Seeded fault: a command that was killed has exit code 0 (unwrap_or(0)).
CodeOrZero(how) == IF how = "signalled" THEN "zero" ELSE how
\* exit_status.code() is None for a command that a signal ended.
ExitOf(how) == IF how = "signalled" THEN "error" ELSE how

CommandSeen ==
    /\ phase = "serving" /\ command \in {"zero", "nonzero", "signalled"}
    /\ Ends(ExitOf(command))
    /\ UNCHANGED <<command, leaseVars>>

\* Seeded fault: only dockerd is polled, which may hang on a dead machine.
DockerdOnly ==
    IF dockerd = "failed" THEN "error" ELSE IF dockerd = "clean" THEN "panic" ELSE "pending"
\* DockerContext::poll looks at the keepalive first.  Ok(()) is unreachable!.
ContextPoll ==
    IF "failed" \in {keepalive, dockerd} THEN "error"
    ELSE IF dockerd = "clean" THEN "panic" ELSE "pending"

ContextSeen ==
    /\ phase = "serving" /\ ContextPoll # "pending"
    /\ Ends(ContextPoll)
    /\ UNCHANGED <<command, leaseVars>>

-----------------------------------------------------------------------------
(* The background tasks, the command and the machine. *)

\* The network fails, or TCP gives up on a peer that does not answer: every
\* channel ends, and whoever awaits one gets an error.
ConnectionLost ==
    /\ ssh = "open" /\ ssh' = "lost"
    /\ UNCHANGED <<phase, keepalive, dockerd, context, command, result, leaseVars>>

\* A write to its channel fails, for this or other reasons.
KeepaliveFails ==
    /\ keepalive = "running" /\ keepalive' = "failed"
    /\ UNCHANGED <<phase, dockerd, ssh, context, command, result, leaseVars>>

\* exec_passthru returns Ok only for exit status 0: dockerd stops that way
\* when it is told to, as in a machine that shuts down.
DockerdEnds ==
    /\ dockerd = "running" /\ dockerd' \in {"failed", "clean"}
    /\ UNCHANGED <<phase, keepalive, ssh, context, command, result, leaseVars>>

\* The command runs on when the process is gone: nothing kills it.
CommandEnds ==
    /\ command = "running" /\ command' \in {"zero", "nonzero", "signalled"}
    /\ UNCHANGED <<phase, taskVars, context, result, leaseVars>>

\* Seeded fault: the remote shell touches on its own, without reading.
RenewAlone == L!Renew /\ UNCHANGED <<phase, taskVars, context, command, result>>
\* The remote shell touches the file for each newline of the keepalive task.
Renew ==
    /\ keepalive = "running" /\ ssh = "open" /\ L!Renew
    /\ UNCHANGED <<phase, taskVars, context, command, result>>

\* The end of the shutdown.
PowersOff == machine = "expired" /\ machine' = "off" /\ idle' = idle

LeaseRuns ==
    /\ L!Begin \/ L!Elapse \/ L!Expire \/ PowersOff
    /\ UNCHANGED <<phase, taskVars, context, command, result>>

LeaseFails ==
    /\ L!Abandon \/ L!Lose
    /\ UNCHANGED <<phase, taskVars, context, command, result>>

-----------------------------------------------------------------------------
MainStep ==
    LaunchAbandoned \/ CreateContext \/ CreationFails \/ StartCommand \/ CommandSeen \/ ContextSeen

Next ==
    \/ Signal \/ Kill \/ PhaseFails \/ Ask \/ Accept \/ ProviderReturns \/ Connects
    \/ Handshake \/ Authenticates \/ StartKeepalive \/ Install \/ StartDockerd
    \/ PortReached \/ MainStep \/ ConnectionLost \/ KeepaliveFails \/ DockerdEnds
    \/ CommandEnds \/ Renew \/ LeaseRuns \/ LeaseFails

Spec == Init /\ [][Next]_vars

\* The main task is polled and the machine's script runs.  TCP gives a dead
\* peer up in the end if there is something to send, which the keepalive task
\* sees to; with the connection, whatever awaits a channel of it ends.
Fairness ==
    /\ WF_vars(MainStep) /\ WF_vars(LeaseRuns)
    /\ WF_vars(MachineOver /\ keepalive = "running" /\ ConnectionLost)
    /\ WF_vars(ssh = "lost" /\ KeepaliveFails)
    /\ WF_vars(ssh = "lost" /\ OnChannel /\ PhaseFails)

FairSpec == Spec /\ Fairness

-----------------------------------------------------------------------------
TypeOK ==
    /\ phase \in Launching \union {"serving", "over"}
    /\ keepalive \in {"none", "running", "failed"}
    /\ dockerd \in {"none", "running", "failed", "clean"}
    /\ ssh \in {"none", "open", "lost"}
    /\ context \in {"none", "made", "left"}
    /\ command \in {"none", "running", "zero", "nonzero", "signalled"}
    /\ result \in {"none", "zero", "nonzero", "error", "signal", "killed", "panic"}
    /\ machine \in {"none", "asked", "pending", "leased", "expired", "lost", "off"}
    /\ idle \in 0..Limit
    /\ Running <=> result = "none"

\* The process reports an exit code of the command only if the command has
\* ended with it: a context that fails at the same time, a command that could
\* not be started, a signal or a panic never look like one.
ExitTruthful ==
    /\ result = "zero" => command = "zero"
    /\ result = "nonzero" => command = "nonzero"

\* A context that stands is backed by a keepalive and a dockerd to look after,
\* or its process was killed.  Parts of one stay only when a process has ended:
\* some call on its files failed, at their creation or at their removal.
ContextBacked ==
    /\ context = "made" => result = "killed" \/ (keepalive # "none" /\ dockerd # "none")
    /\ context = "left" => result \notin {"none", "killed"}

\* wrap() "returns when either `task` completes or the context fails. [..] If
\* either the task or the context fail, `Err` is returned"
\* (docker_context.rs:57-59), so it never panics.
NoPanic == result # "panic"

\* Nobody writes to the connection and nobody looks at the keepalive task:
\* its channel ended on its own, and the launch awaits another one.
Unwatched == OnChannel /\ keepalive = "failed" /\ ssh = "open"

\* A machine that is gone is noticed, whether or not its dockerd said good-bye
\* and whatever the command does, from the start of the keepalive task on.  The
\* one exception is an Unwatched launch, which has no timeout (worker.rs:104).
LossNoticed ==
    MachineOver /\ (keepalive # "none" \/ ssh = "lost") ~> ~Running \/ Unwatched

\* "The instance will automatically terminate once fleeting exits"
\* (README.md:7), even if it was requested and never heard of again.
NothingLeft == ~Running ~> ~Answers

S == INSTANCE Service WITH
       process <- CASE Running -> "up" [] result = "killed" -> "killed" [] OTHER -> "ended",
       machine <- CASE Answers -> "held" [] MachineOver -> "gone" [] OTHER -> machine

\* A foreground run is the service: one machine, asked for once, and one
\* context, made for a machine that was granted and has answered, and gone with
\* the process as far as its files can be removed.
ImplementsService == S!Spec
=============================================================================
