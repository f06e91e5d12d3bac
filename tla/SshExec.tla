------------------------------ MODULE SshExec ------------------------------
(***************************************************************************)
(* Running a command over an SSH channel (exec_to_completion in ssh.rs).   *)
(* The server sends the output of the command in chunks of any size, both  *)
(* streams interleaved, and its exit status once, which need not come      *)
(* last; then it closes the channel.  A command that is killed has no exit *)
(* status, and the connection may break at any point.  Each stream is      *)
(* captured, or logged line by line.                                       *)
(*                                                                         *)
(* The channel is in order and has one reader, so that receiving a message *)
(* is one step; the loop over the lines that a message completes is a step *)
(* for each line, and awaits nothing: no other step comes in between.      *)
(***************************************************************************)
EXTENDS Sequences, SequencesExt, Naturals

CONSTANTS MaxOut, MaxErr  \* bounds: bytes the command writes to each stream

ASSUME BoundsAssumption == MaxOut \in Nat /\ MaxErr \in Nat

VARIABLES command,   \* what the command writes, and its exit status
          mode,      \* what to do with each stream
          received,  \* how many bytes of each stream have arrived
          code,      \* the exit status, or "none"
          buf,       \* the client's buffers
          splitting, \* the stream whose lines are being logged, or "none"
          logged,    \* the lines that went to the log
          result     \* of exec_to_completion

vars == <<command, mode, received, code, buf, splitting, logged, result>>

Streams == {"out", "err"}
\* A newline, an ordinary byte, and one that is not UTF-8.
Bytes == {"nl", "a", "bad"}

\* What the three helpers ask for: a command or a file to be written (which
\* differs in what goes to its stdin, and is sent at once), logged as they run,
\* and a file to be read, whose errors are logged.
ExecPassthru == [out |-> "log", err |-> "log"]
WriteFile == ExecPassthru
ReadFile == [out |-> "capture", err |-> "log"]

Init ==
    /\ command \in [out : BoundedSeq(Bytes, MaxOut), err : BoundedSeq(Bytes, MaxErr),
                    code : {"zero", "nonzero", "killed"}]
    /\ mode \in {ExecPassthru, WriteFile, ReadFile}
    /\ received = [s \in Streams |-> 0] /\ code = "none"
    /\ buf = [s \in Streams |-> <<>>] /\ logged = [s \in Streams |-> <<>>]
    /\ splitting = "none" /\ result = "none"

Running == result = "none"
\* The reader waits for the next message.
Waiting == Running /\ splitting = "none"
Rest(s) == Len(command[s]) - received[s]

-----------------------------------------------------------------------------
(* handle_data_msg. *)

\* Seeded fault: a captured stream is logged as well.
LogsAlike(s) == TRUE
Logs(s) == mode[s] = "log"

ReceiveData(s) ==
    /\ Waiting
    /\ \E n \in 1..Rest(s) :
        /\ received' = [received EXCEPT ![s] = @ + n]
        /\ buf' = [buf EXCEPT ![s] = @ \o SubSeq(command[s], received[s] + 1, received[s] + n)]
    /\ splitting' = IF Logs(s) THEN s ELSE "none"
    /\ UNCHANGED <<command, mode, code, logged, result>>

\* buf.iter().position(..): nothing before it is one.
FirstNewline(b, at) == b[at] = "nl" /\ \A i \in 1..(at - 1) : b[i] # "nl"

\* Seeded fault: one line for each message (if let for while let).
LeaveAtLine(s) == "none"
\* The loop looks for the next newline.
AfterLine(s) == s

LogLine(s) ==
    /\ Running /\ splitting = s
    /\ \E at \in DOMAIN buf[s] : LET line == SubSeq(buf[s], 1, at - 1) IN
        /\ FirstNewline(buf[s], at) /\ ~Contains(line, "bad")
        /\ logged' = [logged EXCEPT ![s] = Append(@, line)]
        /\ buf' = [buf EXCEPT ![s] = SubSeq(@, at + 1, Len(@))]
    /\ splitting' = AfterLine(s)
    /\ UNCHANGED <<command, mode, received, code, result>>

\* from_utf8(..)? ends the whole command.
LineInvalid(s) ==
    /\ Running /\ splitting = s
    /\ \E at \in DOMAIN buf[s] :
        FirstNewline(buf[s], at) /\ Contains(SubSeq(buf[s], 1, at - 1), "bad")
    /\ result' = "error" /\ splitting' = "none"
    /\ UNCHANGED <<command, mode, received, code, buf, logged>>

LinesDone(s) ==
    /\ Running /\ splitting = s /\ ~Contains(buf[s], "nl")
    /\ splitting' = "none"
    /\ UNCHANGED <<command, mode, received, code, buf, logged, result>>

-----------------------------------------------------------------------------
(* The loop over the messages of the channel. *)

\* Seeded fault: the loop is left at the exit status.
LeaveAtStatus == IF command.code = "zero" THEN "ok" ELSE "error"
\* "cannot leave the loop immediately, there might still be more data"
AfterStatus == result

ReceiveStatus ==
    /\ Waiting /\ code = "none" /\ command.code # "killed"
    /\ code' = command.code /\ result' = AfterStatus
    /\ UNCHANGED <<command, mode, received, buf, splitting, logged>>

\* err_on_nonzero, which every caller sets.
Outcome == IF code = "zero" THEN "ok" ELSE "error"

\* The server closes when it has sent all it had; wait() returns None.
ChannelEnds ==
    /\ Waiting /\ \A s \in Streams : Rest(s) = 0
    /\ code = "none" => command.code = "killed"
    /\ result' = Outcome
    /\ UNCHANGED <<command, mode, received, code, buf, splitting, logged>>

\* exec, data and eof fail, or wait() returns None and close() fails then.
ConnectionLost ==
    /\ Waiting /\ result' = "lost"
    /\ UNCHANGED <<command, mode, received, code, buf, splitting, logged>>

Next ==
    \/ \E s \in Streams : ReceiveData(s) \/ LogLine(s) \/ LineInvalid(s) \/ LinesDone(s)
    \/ ReceiveStatus \/ ChannelEnds \/ ConnectionLost

Spec == Init /\ [][Next]_vars

-----------------------------------------------------------------------------
TypeOK ==
    /\ code \in {"none", "zero", "nonzero"}
    /\ splitting \in Streams \union {"none"}
    /\ result \in {"none", "ok", "error", "lost"}
    /\ \A s \in Streams : /\ received[s] \in 0..Len(command[s])
                          /\ buf[s] \in Seq(Bytes) /\ logged[s] \in Seq(Seq(Bytes))
                          /\ mode[s] = "capture" => logged[s] = <<>>

\* The reference for the splitting: the lines of a text, and the rest of it,
\* are what lies between its start, its newlines in their order, and its end.
Cuts(text) == {0} \union {i \in DOMAIN text : text[i] = "nl"}
IsSplit(text, lines, rest) ==
    \E cut \in [0..Len(lines) -> Cuts(text)] :
        /\ \A j, k \in DOMAIN cut : j < k => cut[j] < cut[k]
        /\ Cuts(text) \subseteq Range(cut)
        /\ lines = [k \in 1..Len(lines) |-> SubSeq(text, cut[k - 1] + 1, cut[k] - 1)]
        /\ rest = SubSeq(text, cut[Len(lines)] + 1, Len(text))

\* However the output is cut into chunks and mixed, the log has exactly the
\* complete lines that have arrived, and the rest waits in the buffer.
LinesFaithful ==
    Waiting => \A s \in Streams : mode[s] = "log" =>
        IsSplit(SubSeq(command[s], 1, received[s]), logged[s], buf[s])

\* "there might still be more data to receive" (ssh.rs:87): a command counts as
\* successful only if it ended with status 0 and all of its output is there,
\* whatever the order in which status and output arrive.
OutputWhole ==
    result = "ok" =>
        /\ command.code = "zero"
        /\ \A s \in Streams : received[s] = Len(command[s])
        /\ mode.out = "capture" => buf.out = command.out

\* A failure has a reason: the status, its absence, or a line that cannot be
\* logged.  An unfinished last line and captured bytes are never one.
ErrorJustified ==
    result = "error" =>
        \/ command.code # "zero"
        \/ \E s \in Streams : mode[s] = "log" /\
               \E i, j \in DOMAIN command[s] :
                   i < j /\ command[s][i] = "bad" /\ command[s][j] = "nl"
=============================================================================
