------------------------------- MODULE VmLease -------------------------------
(***************************************************************************)
(* The lease a worker holds on its VM.  On the VM, user_data_template.sh   *)
(* publishes the OTP and the SSH keys, touches /fleeting/keepalive and     *)
(* then loops until that file is too old, when its EXIT trap shuts the     *)
(* machine down.  In the worker (worker.rs), a task writes a newline to an *)
(* SSH channel every KeepaliveInterval seconds, and a shell on the VM      *)
(* touches the file for each newline it reads.                             *)
(*                                                                         *)
(* Time advances in seconds (Tick).  Every clock is a timer relative to    *)
(* now, and Tick waits for what is due: the worker's timer, the script's   *)
(* loop, and a newline that has been on its way for MaxDelay seconds.      *)
(***************************************************************************)
EXTENDS Naturals

CONSTANTS KeepaliveInterval,  \* KEEPALIVE_INTERVAL
          KeepaliveTimeout,   \* KEEPALIVE_TIMEOUT
          CheckPeriod,        \* the script's sleep between two checks
          MaxLag,             \* how much the worker's sleep may overrun
          MaxDelay            \* how long an intact connection may hold a newline

ASSUME ParametersAssumption ==
    /\ KeepaliveInterval \in Nat \ {0}
    /\ CheckPeriod \in Nat \ {0}
    /\ KeepaliveTimeout \in Nat /\ MaxLag \in Nat /\ MaxDelay \in Nat

VARIABLES script,  \* where user_data_template.sh is; "off", "dead": no machine
          files,   \* what the script has put on the disk
          age,     \* seconds since /fleeting/keepalive was touched, in the loop
          nap,     \* seconds left of the script's sleep
          worker,  \* how far WorkerConfig::spawn is with this VM
          beat,    \* seconds until the keepalive task writes again
          wire,    \* ages of the newlines that are on their way
          link,    \* whether the SSH connection still carries data
          held,    \* history: a newline has come in time, or the first one will
          orphan   \* history: seconds the script has looped with no one to renew

vars == <<script, files, age, nap, worker, beat, wire, link, held, orphan>>

Setup == {"start", "otp", "keys"}

Init ==
    /\ script = "start" /\ files = {} /\ age = 0 /\ nap = 0
    /\ worker = "connect" /\ beat = 0
    /\ wire = {} /\ link = TRUE
    /\ held = FALSE /\ orphan = 0

-----------------------------------------------------------------------------
(* The script on the VM. *)

\* Seeded fault: the keys are authorized before the OTP is on the disk.
KeysFirst == [start |-> "keys", otp |-> "otp", keys |-> "keepalive"]
\* The file each setup command writes, in the order of the script.
Writes == [start |-> "otp", otp |-> "keys", keys |-> "keepalive"]

RunSetup ==
    /\ script \in Setup
    /\ files' = files \union {Writes[script]}
    /\ script' = [start |-> "otp", otp |-> "keys", keys |-> "loop"][script]
    /\ UNCHANGED <<age, nap, worker, beat, wire, link, held, orphan>>

\* Seeded fault: no EXIT trap, so the script ends and the machine stays.
JustExit == "exited"
\* set -e ends the script at the first command that fails; its trap runs.
OnExit == "trap"

SetupFails ==
    /\ script \in Setup
    /\ script' = OnExit
    /\ UNCHANGED <<files, age, nap, worker, beat, wire, link, held, orphan>>

\* Seeded fault: -lt for -le.
ExpiredEarly(a) == a >= KeepaliveTimeout
Expired(a) == a > KeepaliveTimeout

Check ==
    /\ script = "loop" /\ nap = 0
    /\ IF Expired(age) THEN script' = OnExit /\ nap' = nap
                       ELSE nap' = CheckPeriod /\ script' = script
    /\ UNCHANGED <<files, age, worker, beat, wire, link, held, orphan>>

\* shutdown -h now, run by the trap: the machine and its connections end.
Shutdown ==
    /\ script = "trap"
    /\ script' = "off" /\ link' = FALSE /\ wire' = {}
    /\ UNCHANGED <<files, age, nap, worker, beat, held, orphan>>

\* The provider loses or takes the machine.
HostDies ==
    /\ script \in Setup \union {"loop"}
    /\ script' = "dead" /\ link' = FALSE /\ wire' = {}
    /\ UNCHANGED <<files, age, nap, worker, beat, held, orphan>>

-----------------------------------------------------------------------------
(* The worker.  Before the keepalive task runs it has no deadline that the  *)
(* script knows of: provider calls and SSH requests take any time.          *)

\* authenticate_publickey returns Ok(true).
Authenticate ==
    /\ worker = "connect" /\ link /\ "keys" \in files
    /\ worker' = "otp"
    /\ UNCHANGED <<script, files, age, nap, beat, wire, link, held, orphan>>

\* The OTP that was read back matches; the remote read loop and the task start.
StartKeepalive ==
    /\ worker = "otp" /\ link /\ "otp" \in files
    /\ worker' = "beating" /\ beat' = 0
    /\ held' = (script \in Setup \/ (script = "loop" /\ age + MaxDelay <= KeepaliveTimeout))
    /\ UNCHANGED <<script, files, age, nap, wire, link, orphan>>

\* Seeded fault: the task is detached, and outlives the handle that owned it.
SendsDetached == worker \in {"beating", "stopped"}
Sends == worker = "beating"

\* write_all, then sleep.  A broken connection swallows the newline.
Beat ==
    /\ Sends /\ beat = 0
    /\ wire' = IF link THEN wire \union {0} ELSE wire
    /\ \E lag \in 0..MaxLag : beat' = KeepaliveInterval + lag
    /\ UNCHANGED <<script, files, age, nap, worker, link, held, orphan>>

\* Any failure, the end of the task, a signal or a crash: the keepalive task
\* is gone.  What it had written may still be delivered, or be lost with it.
Stop ==
    /\ worker # "stopped"
    /\ worker' = "stopped"
    /\ wire' \in SUBSET wire
    /\ UNCHANGED <<script, files, age, nap, beat, link, held, orphan>>

-----------------------------------------------------------------------------
(* The connection. *)

\* The shell on the VM reads a newline and touches the file.
Deliver ==
    /\ link
    /\ \E m \in wire : wire' = wire \ {m}
    /\ age' = IF script = "loop" THEN 0 ELSE age
    /\ held' = (held \/ script = "loop")
    /\ UNCHANGED <<script, files, nap, worker, beat, link, orphan>>

Cut ==
    /\ link
    /\ link' = FALSE /\ wire' = {}
    /\ UNCHANGED <<script, files, age, nap, worker, beat, held, orphan>>

-----------------------------------------------------------------------------
Orphaned == worker = "stopped" \/ ~link

Tick ==
    /\ script = "loop" => nap > 0
    /\ Sends => beat > 0
    /\ \A m \in wire : m < MaxDelay
    /\ wire' = {m + 1 : m \in wire}
    /\ beat' = IF Sends THEN beat - 1 ELSE beat
    /\ IF script = "loop"
       THEN /\ age' = age + 1 /\ nap' = nap - 1
            /\ orphan' = IF Orphaned THEN orphan + 1 ELSE orphan
       ELSE UNCHANGED <<age, nap, orphan>>
    /\ UNCHANGED <<script, files, worker, link, held>>

Next ==
    \/ RunSetup \/ SetupFails \/ Check \/ Shutdown \/ HostDies
    \/ Authenticate \/ StartKeepalive \/ Beat \/ Stop
    \/ Deliver \/ Cut \/ Tick

Spec == Init /\ [][Next]_vars

\* The script runs as soon as the machine has booted, the machine's own
\* shutdown ends, the keepalive task is polled and time passes.
FairSpec ==
    /\ Spec
    /\ WF_vars(RunSetup) /\ WF_vars(Check) /\ WF_vars(Shutdown)
    /\ WF_vars(Beat) /\ WF_vars(Deliver) /\ WF_vars(Tick)

-----------------------------------------------------------------------------
TypeOK ==
    /\ script \in Setup \union {"loop", "trap", "off", "dead"}
    /\ files \subseteq {"otp", "keys", "keepalive"}
    /\ age \in Nat
    /\ nap \in 0..CheckPeriod
    /\ worker \in {"connect", "otp", "beating", "stopped"}
    /\ beat \in 0..(KeepaliveInterval + MaxLag)
    /\ wire \subseteq 0..MaxDelay
    /\ link \in BOOLEAN /\ held \in BOOLEAN
    /\ orphan \in Nat

\* A worker that has authenticated finds the OTP on the disk: the script
\* publishes it before it lets anybody in, so reading it back never fails for
\* a file that is not there yet (worker.rs:130).
OtpReadable == worker = "otp" => "otp" \in files

\* Whether the worker's rhythm fits the script's patience.
Tolerant == KeepaliveInterval + MaxLag + MaxDelay <= KeepaliveTimeout

\* While the worker's keepalive task runs and the connection carries its
\* newlines, the script does not decide to shut the machine down: no
\* interleaving of the sleeps of both sides and the delays on the way makes the
\* file look too old.  The worker has no deadline before its first newline
\* (worker.rs:98-135), so this holds for one that logs in before the script
\* loops, or soon enough after it.
NoPrematureShutdown ==
    Tolerant /\ held /\ worker = "beating" /\ link /\ "keepalive" \in files =>
        script # "trap"

\* Cost control: a machine whose worker is gone or out of reach keeps looping
\* for a bounded time only, newlines still under way included.
OrphanBounded ==
    script = "loop" => orphan <= MaxDelay + KeepaliveTimeout + CheckPeriod

\* The machine ends after its worker is gone or out of reach, whatever either
\* of them was doing (README: "The VM instance will auto-terminate unless
\* fleeting sends keepalives").
OrphanEnds == Orphaned ~> script \in {"off", "dead"}

\* The lease the VM implements: it never shuts down within KeepaliveTimeout
\* seconds of a touch and never outlives one by more than a check period.
LeaseState ==
    CASE script \in Setup -> "pending"
      [] script = "loop" -> "leased"
      [] script \in {"trap", "off"} -> "expired"
      [] OTHER -> "lost"

L == INSTANCE Lease WITH Grace <- KeepaliveTimeout,
                         Limit <- KeepaliveTimeout + CheckPeriod,
                         state <- LeaseState, idle <- age

\* The detailed protocol implements the lease, step by step.
ImplementsLease == L!Spec
=============================================================================
