# A verification model of fleeting

fleeting launches a VM with a Docker Engine, makes a Docker context for it, and
sees to it that both are gone when the task is. This directory has TLA+ modules
for the parts of it that are concurrent or can fail halfway, TLC configurations
that check them on small instances, and proofs, checked by TLAPS, that hold for
every value of the constants. Paths below are relative to the repository.

Contents: 1 inventory, 2 modules and their correspondence to the code, 3 runs,
4 disagreements with the documentation, 5 proofs, 6 what is only model-checked,
7 what is not modelled, 8 plan.

## 1. Inventory

| component | source | state | operations | talks to |
|---|---|---|---|---|
| entry point | `src/main.rs`, `src/shutdown.rs` | - | parse, race `Cli::run` against a signal | everything, by dropping it |
| CLI modes | `src/cli.rs` | the child, its three pipes, two `waitpid` loops | foreground run; launcher; worker | worker process, user command, launch pipeline |
| launch pipeline | `src/worker.rs` | phase, SSH session, two background tasks | `WorkerConfig::spawn` | provider, VM over SSH, Docker context |
| keepalive | `src/worker.rs:136-150`, `src/user_data_template.sh` | `/fleeting/keepalive`'s mtime, both sides' sleeps, bytes under way | touch, check, shut down | each other, over SSH |
| Docker context | `src/docker_context.rs` | two directories with four files; two task handles | `new`, `poll`, `wrap`, `drop` | file system, shared with other processes |
| EC2 | `src/vm_providers/ec2.rs` | none of its own; security group and instances in AWS | get or create group, launch, poll | AWS, shared with other runs |
| GCE | `src/vm_providers/gce.rs` | none of its own; instances and a firewall rule | collect garbage, get or insert rule, launch, poll | Google Cloud, shared |
| Multipass | `src/vm_providers/multipass.rs` | the list of orphans; local VMs named after pids | purge stopped, launch, look up | `multipass`, shared with other runs |
| dispatch | `src/vm_providers/mod.rs` | - | choose a provider | the three above |
| SSH helpers | `src/ssh.rs` | two buffers and an exit code per command | run to completion, read and write files | SSH channel |
| steps | `src/steps.rs` | the current step and the one last shown, both static | start, next, end, drop; prefix of a log line | logging, from every task |
| logging, helpers | `src/logging.rs`, `src/command_ext.rs` | log file | init; spawn detached | - |
| pure parts | `src/arch.rs`, `src/docker_releases.rs`, `src/docker_tls.rs`, `src/bin/update_readme.rs` | - | tables, parsing, certificates, docs | - |

fleeting is single-threaded per process (`tokio` with `current_thread`), and
still concurrent in five ways: tasks interleave at every await; launcher and
worker are two processes joined by three pipes and a process table; the VM runs
a script of its own, against a clock of its own; other fleeting processes share
the user's `~/.docker` and the cloud account; and a signal, a SIGKILL, a lost
connection or a failing call can come at any point.

What must hold, component by component:

- *keepalive*: a VM in use is not shut down, however sleeps and delays fall
  together; a VM without its worker always is, after a bounded time; whoever can
  authenticate can read the OTP.
- *background launch*: the worker follows the watched process and the launcher
  in whatever phase it is; the launcher always ends, and tells the truth unless it is
  interrupted; every way out of the worker except SIGKILL comes to the removal of the
  context.
- *foreground run*: an exit code of the command is reported only when the
  command ended with it; a machine that is gone is noticed; nothing is left
  running.
- *Docker context*: a context in use has all its files, and they are its own;
  keys outlive their user, and a name is refused, only for a reason, of which a call
  that failed on this very directory is one.
- *EC2*: concurrent first runs neither lose nor repeat the ingress rule; the
  status loop ends, and does not mistake "not visible yet" for a failure.
- *GCE*: runs that delete each other's stopped instances never delete one in use,
  leave nothing of what they listed, and turn each other away only when they
  overlap; no instance is launched before the firewall rule was asked for.
- *Multipass*: a purge deletes only what is stopped; a VM that an earlier run of the
  same pid left does not block the launch; a run connects to the VM it launched.
- *steps*: handles go from the innermost outwards however a run ends; headers are
  shown strictly in the order of the steps, and the last one is the current step's
  whenever another task may log.
- *a run as a whole*, foreground or background: one machine, one context, both gone
  with the process.
- *SSH helpers*: the outcome of a command, its captured output and its logged
  lines do not depend on how messages are cut and ordered.

`PROJECT.json` lists the hazards behind these properties, each at its line.

## 2. Modules

    Lease  <---implements---  VmLease  <---  VmLeaseProofs
      ^
      | INSTANCE (the machine)
    Session, Background  ---implement--->  Service
      ^          ^
      |          BackgroundProofs
    Progress  <---  SessionProofs (about Session and Progress)
    Contexts  <---  MCContexts, ContextsProofs
    Ec2  <---  Ec2Proofs
    Gce  <---  GceProofs
    Multipass  <---  MultipassProofs
    SshExec  <---  SshExecProofs

**Lease** is the abstract specification of a rented machine: it is held while
somebody renews it, not given back within `Grace` seconds of a renewal, and never
idle for longer than `Limit`.

**Service** is the abstract specification of fleeting for its user: a machine that
is asked for once, granted (even to a process that has ended since) and released for
good, and a context that is made only for a machine that was granted and ends with the
process, unless that is killed. It does not promise that the machine is still there
when the context is made: port 2376 of a VM that is shutting down answers, and neither
`worker.rs:228-241` nor anything else looks at the lease. Nor that every file goes: a
context is "left" in parts where it could not be made, or not be removed. A foreground
run and a background worker both implement it, so that a user may rely on the same thing
in either mode.

**VmLease** is how fleeting implements Lease. `script` walks through
`user_data_template.sh`: `RunSetup` executes one setup command (OTP, SSH keys,
keepalive file), `SetupFails` is `set -e`, `Check` is one test of the loop with
its sleep, `Shutdown` the EXIT trap. `worker` walks through
`WorkerConfig::spawn` as far as the protocol is concerned: `Authenticate`,
`StartKeepalive`, then `Beat` (write a newline, sleep) until `Stop`. `wire` holds
the age of every newline under way, `Deliver` is the remote `while read; do
touch`. Time is in seconds: `Tick` advances all timers and cannot pass one that
is due. A sleep of the worker may overrun by `MaxLag`, a newline may take
`MaxDelay`; before the keepalive runs, the worker has no deadline the VM knows
of, and the model gives it none: `held` records whether the first newline came, or
is sure to come, in time. The seconds of the script's clock are exact:
`date +%s` and mtime are both of the VM and truncate alike.

**Background** is `fleeting --while PID`. Launcher: `SendArgs`/`SendFails`
(`cli.rs:107-111`), then the biased `select!` as two alternating polls, `PollLogs` and
`PollReady`; between them pipes may change. Worker: `StartWorker`, `ReadArgs`, the
three-way `select!` (`SpawnReady`; `SpawnFails` and `CreationFails`, which leaves files
behind; `AbortLaunch`), `Announce` (which panics if nobody reads), `LauncherSeen`,
`StopServing`, and `Terminate` for signals, all of which but SIGKILL lead through
`DropContext`, whose `Removal` may fail. A signal ends the launcher with exit code 1
(`SignalLauncher`, `main.rs:10-12`), SIGKILL with none (`KillLauncher`); `signalled`
remembers which. The kernel closes a dead worker's descriptors one by one (`CloseEnd`).
`waitpid` is a guard on the process table, where a zombie still counts: `Reap` is the
parent's `wait`. The worker's machine is an instance of `Lease`, asked for while the
worker is "launching" and renewed while its keepalive handle lives (`Renew`); a request
that has been sent may be accepted after the worker has ended (`Accept`). A machine
whose lease has expired still `Answers` until it `PowersOff`.

**Contexts** is `DockerContext::new` one file system call at a time, and `Drop`,
for several processes. `content` says whose data is in each file, so that files
of the right name and the wrong VM are told apart. Every call may fail: in `new`
(`CallFails`) the rest is skipped and what was made stays, in `Drop` the error is logged,
any part of the directory stays (`Stays`) and the other directory is removed all the
same (`AfterMeta`). `spoiled` and `undeleted` are history: the directories that somebody
left half made, or could not remove. A process stands for all the
runs that use its name one after another (`Rerun`), which is what pid reuse and
`--context-name` amount to.

**Session** is a foreground run: the phases of `WorkerConfig::spawn`,
`wrap(run_user_command)` and `DockerContext::poll`. They are the seven awaits of
`spawn`, and "reached": port 2376 has answered, but the poll in which the main task
learns so and creates the context, or fails to, comes later. TCP (`Connects`) and SSH
(`Handshake`) are two steps, as in the code, and so are the lease's end and the
machine's: a machine that has expired answers, and the run goes on with it, until it
`PowersOff`. Its machine is an instance of `Lease`, of which it uses what `VmLease`
proves: the composition is through the abstract specification. `ssh` is the connection
that the launch and both background tasks share: when it is lost, no phase that awaits a
channel of it succeeds any more and the keepalive's write fails, each in its own time.
`Ends` is every way `Cli::run` can return, panic or be dropped, with the destructors
that then run.

**Progress** adds the steps to Session: every action of Session is conjoined with its
`Effect` on `ui`, which holds `CURRENT_STEP`, the live handles, `PREVIOUS_STEP` and
the headers shown. A step is the path of its numbers, so that "within" is `IsPrefix`
and a `Drop` removes the last number. `HeadersOnce` compares whole paths (`Precedes`), the
provider's steps included. It says that the last header is the current step's whenever
the run awaits something, which is when other tasks may log; the one line that stands
below another step's header, the address (`worker.rs:94`, of step 1, below the last one
of the provider), is logged within such a poll. `Unwound` drops all handles in the order in
which a dropped future drops them; `LogLine` is a line of any task at any time.

**Ec2** is several runs in one account, each AWS request an atomic step. The
security group is absent, closed (created, no rule) or open.

**Gce** is several runs in one project. Instances have names of their own, apart
from the runs: one is launched under a `Fresh` name, stops itself, and stays
(TERMINATED) until some run's collection deletes it. `List` takes one page of the
answer, so any non-empty part of the garbage; `Delete` accepts whatever state the
instance is in by then, so that sparing the live ones is a property and not a
guard. Google answers the insertion of the firewall rule with an operation that nobody
waits for, so that the rule is "pending" until `RuleMade`, which may also lose it; a run
that looks meanwhile may find it or not (`GetRule`, `RuleMissing`), and goes on to launch
without it. A request that fails for reasons of its own is `Interrupted`; a refusal
(`DeleteRefused`, `InsertRefused`) is told apart.

**Multipass** is several runs on one computer. A pid stands for all the runs that have
it one after another, and for the name `fleeting-<pid>` of their VM; one more VM is the
user's own. `List` takes the stopped ones, `Purge` deletes the whole list in whatever
state its VMs are by then, or fails halfway if one of them is gone (`PurgeRefused`);
`Interrupted` in a launch may leave the VM that `multipass launch` goes on to make.
`held`, `renewed` and `own` are history, for the properties only.

**SshExec** is `exec_to_completion` in the modes of its three callers in `ssh.rs`:
chunks of any size from two streams, an exit status at any time or never, the end of
the channel, a lost connection. The channel is in order and has one reader, so receiving
is one step (`ReceiveData`) and there is no queue. The code's loop over newlines takes a
step for each line (`LogLine`), until no newline is left (`LinesDone`) or a line is not
UTF-8 (`LineInvalid`); it awaits nothing, so that while `splitting` is set no other
action is enabled. `LinesFaithful` compares the log with `IsSplit`, which says without
any loop what the lines of a text are: what lies between its start, its newlines in
their order, and its end.

**Seeded faults.** Some definitions are preceded by a variant marked "Seeded
fault": the same definition as a plausible bug would have it. They are not part
of any specification. `PROJECT.json` names, for every property, one that
violates it.

## 3. Runs

| run | bounds | shows |
|---|---|---|
| `lease` (VmLease.cfg) | the code's interval 5, timeout 15 and check period 1; lag 2 and delay 8, the largest with `5 + lag + delay <= 15` | `NoPrematureShutdown` at the exact edge of tolerance; `OtpReadable`; `OrphanBounded`, `OrphanEnds`; `ImplementsLease` |
| `background` (Background.cfg) | grace 2, limit 3; otherwise the model is finite | `ContextOwned`, `FailureTruthful`, five liveness properties of launcher, worker and machine; `ImplementsService` |
| `background_exit` | same | violates `SuccessTruthful` (section 4) |
| `contexts` (Contexts.cfg) | two processes with one name and one with its own, each rerun any number of times | `RefusalJustified`, `KeysAccounted`, `OwnIntact` |
| `contexts_race` | two processes with one name | violates `LiveIntact` (section 4) |
| `session` (Session.cfg, module Progress) | grace 2, limit 3, two steps of the provider | `ExitTruthful`, `ContextBacked`, `StepsNested`, `HeadersOnce`, `LossNoticed`, `NothingLeft`; `ImplementsService` |
| `session_panic` (module Session) | grace 2, limit 3 | violates `NoPanic` (section 4) |
| `ec2` (Ec2.cfg) | two runs, each repeated any number of times | `ClosedAccounted`, `LaunchResolves` |
| `ec2_torn` | same | violates `ReachableWhenDone` (section 4) |
| `gce` (Gce.cfg) | two runs, each repeated, and two names | `RefusalContested`, `GarbageCollected`, `RuleFirst`, `LiveSpared`, `LaunchResolves` |
| `multipass` (Multipass.cfg) | two pids, each used again and again, and a VM of the user's | `RefusalJustified`, `OwnMachine`, `LiveSpared` |
| `ssh_exec` (SshExec.cfg) | all outputs of up to three bytes (newline, letter, invalid UTF-8) and one of stderr | `LinesFaithful`, `OutputWhole`, `ErrorJustified` |

`lease`, `background`, `session` and `ssh_exec` also check the type invariant of their
module; those of Contexts, Ec2, Gce and Multipass are proved (section 5).

Why the bounds are enough. `lease` has the constants of the code, and timers are
the only counters: they are bounded by what `Tick` waits for, not by a cut. Two
processes that share a name and are followed by others meet each other and the
remains of every kind of end; the third shows that they do not touch anybody
else. Two runs of EC2, each repeatable, make every pair of creators and every
later finder. Two runs of GCE with two names let both list the same instance, and
one launch while the other still deletes. With two pids of Multipass, a run can meet a
leftover of its own name, its own list grown old, and a run that purges what it has
listed or launched. A lease with grace 2 and limit 3 can be renewed in each of its
states, expire, and run out between any two steps of the main task. Two provider steps
are one `next` inside the provider. The proofs of section 5 remove these
bounds for the safety properties. Three bytes are enough for a line, an empty line
and a rest in every arrangement of chunks.

Fairness, and what justifies it:

- VmLease: the script is run (cloud-init starts it), its loop and the trap's
  `shutdown` make progress, the keepalive task is polled, time passes. Nothing
  makes the worker connect, and nothing repairs a link.
- Background: both processes are scheduled and the launcher's parent reaps it.
  The last is an assumption about the environment: a zombie launcher keeps the
  worker in its sanity wait (`cli.rs:192`), since `waitpid` looks for the pid.
  The machine's script runs, its shutdown included (`OrphanEnds` of VmLease: once the
  trap runs, the VM ends), and the keepalive of a context whose machine is gone fails in
  the end. No fairness makes a VM launch return or the watched process exit:
  so `WatchFollowed` holds even for a launch that hangs. That a pid is not
  used again between two polls is assumed too.
- Session and Progress: the main task is polled and the VM's script runs and shuts it
  down. TCP gives up
  on a dead peer to which somebody writes, and that is the keepalive task
  (`worker.rs:142-145`): so `ConnectionLost` is fair only while it runs. Once the
  connection is lost, the keepalive's write and any wait for a channel fail. No phase
  of the launch need succeed, and a healthy machine's command need not ever end.
- Ec2 and Gce: requests are answered, instances boot, and become visible. Nobody
  is obliged to run fleeting again, or to stop it.

`CHECK_DEADLOCK FALSE` appears for Background, Session, Progress and SshExec, which are
about one run of something that ends; the others never stop (time passes, another run
follows) and are checked for deadlock.

## 4. Disagreements with the documentation

Four of the repository's statements are violated by what the code does; each has
a run whose counterexample is the evidence.

1. `cli.rs:59-61` promises exit code 0 only for a VM that started. `ready` treats
   end of file as an answer, so a launcher that polls after a dying worker's
   stdout was closed and before its stderr was reports success (`SuccessTruthful`).
2. `cli.rs:61` promises a fully functioning context. `exists()` and
   `create_dir_all` (`docker_context.rs:41-44`) are not atomic: two processes with
   one `--context-name` mix their files (`LiveIntact`).
3. `docker_context.rs:57-59`: `wrap` returns `Err` when the context fails. If
   dockerd exits with status 0 it panics (`NoPanic`).
4. `README.md:7`: docker can be used against the instance. A run that ends
   between creating the EC2 security group and opening it leaves a group that
   every later run uses and that lets nothing in (`ReachableWhenDone`).

Four more behaviours surprise.

- A launcher that is interrupted ends with exit code 1 (`main.rs:10-12`), which
  `cli.rs:59-61` reserves for a VM that did not start; its worker, if it had announced its
  context by then, serves on. `FailureTruthful` states this as its one exception.
- A failure in the middle of `DockerContext::new` (`docker_context.rs:45-49`) leaves a
  directory that blocks its name for good, since there is no `DockerContext` yet whose
  destructor would remove it, and so does a meta directory that `Drop` could not remove
  (lines 95-97); a tls directory that it could not remove keeps the client's key (lines
  98-100). `RefusalJustified` and `KeysAccounted` of Contexts name these reasons besides a
  kill.
- The first run in a Google project launches its instance while the firewall rule is
  still being made (`gce.rs:156-175` waits for nothing), and another one in that time may
  be told that there is none and then have its insertion refused; `RefusalContested` names
  this.
- A Multipass purge (`multipass.rs:66-72`) can delete a VM in use, when its pid was used
  again since the list was made; `LiveSpared` of Multipass names it as the one
  exception.

## 5. Proofs

Every theorem is about the same `Spec` the runs check, for all constants that
satisfy the module's assumption.

- **VmLeaseProofs**. Constants: `ParametersAssumption` (interval and check period
  positive, the rest natural numbers). `NoPrematureShutdown` speaks of the moment
  of the check only, so it is not inductive; what is carried along is `Rhythm`:
  with nothing on the wire, the file's age plus the time to the next beat is at
  most interval + lag, and otherwise some newline under way is at most interval +
  lag younger than the file's last touch. Since no newline stays for longer than
  `MaxDelay`, a tolerant rhythm never lets the age pass the timeout (`Held`). It starts
  with the first newline that is in time (`held`), not before: a worker that is slow to
  authenticate may find its VM gone.
  `OrphanBounded` needs two bounds: `AgeBound` (age plus what is left of the nap)
  and `OrphanAge` (every newline under way was written before the machine was
  orphaned, so the age lags at most `MaxDelay` behind). `OtpReadable` needs the
  order of the setup commands (`PublishOrder`). From the invariant:
  `TypeCorrect`, `OtpPublished`, `LeaseHeld`, `OrphanCost`; and `Implementation`,
  the refinement: initial states map to initial states, each action to a step of
  Lease or a stutter.
- **BackgroundProofs**. The invariant adds to the properties that only a worker past its
  destructor, or killed, has closed any end of a pipe (`EndsKept`): that is why the end
  of the logs proves failure, and stays a proof of it. `ContextRemoved`, and
  `FailureMeansGone` with the signalled launcher as its exception, both with `Served`: a
  worker past its announcement has announced, and a context that stands was preceded by
  the grant of the machine. `Implementation`: each action of launcher, worker, machine
  and world is a step of Service or a stutter; the destructor is the end of the process
  in Service, and a kill is told apart from it by `KilledGone`.
- **ContextsProofs**. For any set of processes and names, and whatever calls fail:
  `RefusalsJustified` and `KeysRemoved`, each by cases on who has used the directory,
  who failed or was killed there and whose removal of it failed (`Accounted`), and
  `OwnNamesIntact`: its invariant says for each stage of `new` which files are already
  there (`Written`), for a process whose name nobody else has, and a lemma says that the
  steps of others leave those alone.
- **SessionProofs**. The invariant says which background task has been started in
  which phase, and that there is no context before "serving". All the ways a run
  ends are one lemma (`EndsSafe`). `ExitCodeTruthful`, `ContextsBacked`, for every
  lease. `Implementation`, the refinement of Service, goes action by action: a way to
  end is its `End` (`EndsService`), `TypeOK` gives the states of the machine that
  the mapping tells apart, and `Backed` (`ServedGranted`) that the machine was granted
  before anything connects to it: this, and not a guard on the machine's state at that
  moment, is why `CreateContext` is Service's `Serve`.
  About Progress, for any number of steps that a provider has (`StepsAssumption`):
  `ProgressIsSession` says that every behaviour of Progress is one of Session, so that
  all of the above holds of it. `Shape` is the invariant: it writes down the whole of
  `ui`, for each phase, as a `View` of the path of the step and the number `m` of headers
  shown, of which `Header` gives the i-th. That is necessary: whether a line shows a
  header depends on the step of the line before, and whether a drop hits the right step
  on every handle that is alive. The lemmas say what `Started`, `Ended`, `Followed`,
  `Logged` and `Unwound` do to a view; `EffectShape` goes through the phases, and
  `Resting` says that an ended process stays ended with its result.
  `StepsAlwaysNested` and `HeadersAlwaysOnce` follow from `Shape` alone (and `TypeOK`);
  the latter needs that the headers of `Header` come in the order of their paths
  (`HeadersApart`, by cases on whether each is of the pipeline or of the provider).
- **SshExecProofs**. For output of any length (`BoundsAssumption`). The invariant
  `Kept(s)` says that what has arrived on a stream is `Parted` into the logged lines and
  the buffer, also in the middle of the loop, where the buffer may still have newlines:
  there are increasing cuts of the text, with no newline skipped up to the last one.
  More bytes lengthen the rest (`PartedMore`), a turn of the loop adds one cut, which is
  the next newline (`PartedLine`), and when no newline is left the parting is a split
  (`PartedWhole`): `LinesExact`. `SplitUnique` says that a text has one split only, so
  that `LinesExact` determines the log: of two lists of cuts that differ, take the least
  index at which they do, and one list misses a cut of the other. A line that is refused
  has an invalid byte before a newline of the command's own output (`PartedBad`):
  `ErrorsJustified`. `OutputComplete` needs that a status which has arrived is the
  command's (`StatusKept`), and that the loop is left only at the end of the channel.
- **MultipassProofs**. For any set of pids. A stopped VM on an old list is either
  still stopped, or gone, or its name has been launched again since (`Listed`):
  `InUseSpared` follows for each purge. `RefusalsJustified` needs that until a run has
  purged its list, its own name is on it, or free, or was in use (`Freed`).
  `MachinesOwn`.
- **Ec2Proofs**. For any set of runs: `GroupAccounted`.
- **GceProofs**. For any sets of runs and names. `RunningSpared` is an action
  property; it needs that what is on an old list is still garbage (`TodoOld`),
  which in turn needs that names are not used again. `RefusalsContested` needs
  that whoever is late has been overtaken already (`LateContested`), and
  `CollectionComplete` that what is missing from a list is being deleted
  (`ListedGone`). `RuleRequested`: whoever is about to launch has found a rule, or
  asked for one (`LaunchAllowed`).

Each module also proves its type invariant (`TypeCorrect`).

## 6. What is only model-checked

The liveness properties (`OrphanEnds`, `WatchFollowed`, `LauncherFollowed`,
`FailureNoticed`, `LauncherAnswers`, `LossNoticed`, both `NothingLeft`, both
`LaunchResolves`): they rest on fairness, about which the provers cannot reason
here. All safety properties, action properties and refinements of the passing runs are
proved.

## 7. What is not modelled, and why

- Time in single SSH and HTTP requests. The 60 s deadlines of the pipeline are
  "may fail in this phase". An await that hangs is modelled, as a phase that need not
  succeed: there is no inactivity timeout (`worker.rs:104`), so a launch whose keepalive
  channel alone has ended, on a connection to a machine that is gone, may wait forever
  (`Unwatched`, the exception in `LossNoticed`), as may one whose machine goes while it
  authenticates, when nobody writes yet.
- `--quiet`, which shows no steps; log levels, widths and padding of the headers, the
  lines of the log file.
- A `multipass launch` that outlives its fleeting and creates its VM only after a run
  with the same pid has made its list. `multipass version`, which changes nothing.
- Steps of the wall clock: `date +%s` and mtime are taken to advance with time, so a VM
  whose clock is set forward may expire early.
- Multipass's states besides running, stopped and gone (suspended, deleted but not
  purged): nothing in `multipass.rs` leads to them, but a user could.
- The order in which a dropped future drops what it holds (Rust's), which `Unwound`
  assumes.
- What becomes of files that a failed call left: nothing in fleeting looks at them again,
  except `exists()` of a later run (Contexts).
- The answers to lookups (image, machine type, region): requests that may fail and
  change nothing. AWS's and Google's own consistency beyond what the status loops
  meet; deletion of the group or rule by somebody else.
- Exit codes beyond those of Unix: `code as u8` (`cli.rs:219`) would turn 256
  into 0 on Windows.
- Formatting, the releases list, certificates, architecture names, the
  README generator: no state that several actors share, no protocol.
- The user's command is an external actor that may run on after fleeting has
  ended, since nothing kills it.

## 8. Plan

Done, in this order: Lease and VmLease (the promise the whole program rests on),
Background, Contexts, Session, Ec2, Gce and SshExec; then the machine's lease in
Background, the loss of the connection in Session, Service with its two
implementations, Multipass and Progress; and the proofs of all of them.

Next: an abstract specification of one remote command (it has an outcome, and its output
is whole if that is success), implemented by SshExec and used by the phases of Session
that run one.
