------------------------------ MODULE Progress ------------------------------
(***************************************************************************)
(* The progress that a foreground run shows (steps.rs, logging.rs), on top *)
(* of Session.  A static holds the current step, whose parents are the     *)
(* steps around it; a StepHandle puts itself there and takes itself away   *)
(* when it is dropped.  A log line shows the header "[2/6]" of its step if *)
(* the step of the line before it was not within that step.                *)
(*                                                                         *)
(* A step is the path of its numbers: <<3>> in WorkerConfig::spawn, and    *)
(* <<1, 2>> in the provider that it calls.                                 *)
(***************************************************************************)
EXTENDS Session, SequencesExt

CONSTANT ProviderSteps  \* how many steps the provider has

ASSUME StepsAssumption == ProviderSteps \in Nat \ {0}

VARIABLE ui  \* current: CURRENT_STEP; handles: alive, outer ones first;
             \* previous: PREVIOUS_STEP; headers: those shown so far;
             \* overlap: Drop's assertion has failed

allVars == <<vars, ui>>

-----------------------------------------------------------------------------
(* Step handles and log lines. *)

\* StepHandle::new
Started(u, n) ==
    LET step == Append(u.current, n)
    IN  [u EXCEPT !.current = step, !.handles = Append(@, step)]

\* Drop for StepHandle: the current step must be its own; its parent follows.
Dropped(h, u) ==
    [u EXCEPT !.current = Front(u.current), !.handles = Front(@),
              !.overlap = @ \/ u.current # h]

Ended(u) == Dropped(Last(u.handles), u)

\* StepHandle::next
Followed(u) == Started(Ended(u), Last(Last(u.handles)) + 1)

\* Seeded fault: only the previous step itself counts, not those around it.
LoggedAfter(u) ==
    IF u.current = <<>> THEN u
    ELSE [u EXCEPT !.previous = u.current,
                   !.headers = IF u.current = u.previous THEN @ ELSE Append(@, u.current)]
\* write_log_prefix: no header if the previous line was of the current step or
\* of one within it.  A line outside of all steps leaves no trace.
Logged(u) ==
    IF u.current = <<>> THEN u
    ELSE [u EXCEPT !.previous = u.current,
                   !.headers = IF IsPrefix(u.current, u.previous) THEN @
                               ELSE Append(@, u.current)]

\* Seeded fault: outer handles go first.
UnwoundOutwards(u) ==
    CASE Len(u.handles) = 2 -> Ended(Dropped(u.handles[1], u))
      [] Len(u.handles) = 1 -> Ended(u)
      [] OTHER -> u
\* A future that is dropped drops what it awaits before its own variables: the
\* step of the provider, if there is one, before that of spawn.
Unwound(u) ==
    CASE Len(u.handles) = 2 -> Ended(Ended(u))
      [] Len(u.handles) = 1 -> Ended(u)
      [] OTHER -> u

-----------------------------------------------------------------------------
(* What each step of the run does with them. *)

\* steps::start and the first line are in one poll, as are next and the line
\* that follows it.
ProgressInit ==
    /\ Init
    /\ ui = Logged(Started([current |-> <<>>, handles |-> <<>>, previous |-> <<>>,
                            headers |-> <<>>, overlap |-> FALSE], 1))

\* The provider starts its steps, and goes from one to the next.
ProviderStep ==
    /\ phase = "provider"
    /\ \/ Len(ui.handles) = 1 /\ ui' = Logged(Started(ui, 1))
       \/ Len(ui.handles) = 2 /\ Last(ui.current) < ProviderSteps /\ ui' = Logged(Followed(ui))
    /\ UNCHANGED vars

\* A line of the main task or, whatever its step is, of the dockerd task.
LogLine ==
    /\ Running /\ ui' = Logged(ui) /\ UNCHANGED vars

\* The types see to it that all steps were taken when the last handle is ended.
Effect ==
    \/ phase' = phase /\ ui' = ui
    \/ phase = "provider" /\ phase' = "connect"
       /\ ui.current = <<1, ProviderSteps>> /\ ui' = Logged(Followed(Logged(Ended(ui))))
    \/ <<phase, phase'>> \in {<<"auth", "otp">>, <<"dockerd", "reached">>} /\ ui' = ui
    \/ <<phase, phase'>> \in {<<"connect", "auth">>, <<"otp", "install">>,
                             <<"install", "keys">>, <<"keys", "dockerd">>}
       /\ ui' = Logged(Followed(ui))
    \/ phase = "reached" /\ phase' = "serving" /\ ui' = Ended(Logged(ui))
    \/ phase # "over" /\ phase' = "over" /\ ui' = IF result' = "killed" THEN ui ELSE Unwound(ui)

ProgressNext == (Next /\ Effect) \/ ProviderStep \/ LogLine

ProgressSpec == ProgressInit /\ [][ProgressNext]_allVars

FairProgress == ProgressSpec /\ Fairness

-----------------------------------------------------------------------------
\* "overlapping intervals?" (steps.rs:45) never panics, in whatever await the
\* run is dropped; the current step is that of the innermost handle; and none
\* is left for the lines that follow the launch.
StepsNested ==
    /\ ~ui.overlap
    /\ result # "killed" => ui.current = (IF ui.handles = <<>> THEN <<>> ELSE Last(ui.handles))
    /\ phase = "serving" \/ result \notin {"none", "killed"} => ui.current = <<>>

\* The step a has its header above that of b: it is around b, or comes before
\* it where their paths part.
Precedes(a, b) ==
    \E i \in DOMAIN b :
        /\ \A k \in 1..(i - 1) : k \in DOMAIN a /\ a[k] = b[k]
        /\ i \in DOMAIN a => a[i] < b[i]

\* The headers are shown in the order of the steps, those of the provider below
\* that of the step they are within, and none twice.  Whenever the run awaits
\* something, the last one is the current step's, so that a line of any task
\* stands below it.  (The address, worker.rs:94, is a line of step 1 and stands
\* below the provider's last header: no await comes before the next step.)
HeadersOnce ==
    /\ \A i, j \in DOMAIN ui.headers : i < j => Precedes(ui.headers[i], ui.headers[j])
    /\ ui.current # <<>> => Last(ui.headers) = ui.current
=============================================================================
