---------------------------- MODULE SessionProofs ----------------------------
(***************************************************************************)
(* Proofs about Session, for every lease: the exit code, the context, and  *)
(* the refinement of Service; and about Progress, for every provider: the  *)
(* nesting of steps and the headers.  What wraps the main task up (Ends)   *)
(* is treated once, in a lemma.                                            *)
(***************************************************************************)
EXTENDS Progress, SequenceTheorems, TLAPS

Safe == ExitTruthful /\ ContextBacked

\* From its start on, each task has a handle.
TasksStarted ==
    /\ phase \in {"install", "keys", "dockerd", "reached", "serving"} => keepalive # "none"
    /\ phase \in {"dockerd", "reached", "serving"} => dockerd # "none"

\* Nothing runs and nothing stands before it was started.
Early ==
    /\ phase \in Launching => context = "none"
    /\ Running => result = "none"

IInv == TasksStarted /\ Early /\ Safe

USE DEF taskVars, leaseVars, Running, Launching

LEMMA InitIInv == Init => IInv
  BY DEF Init, IInv, TasksStarted, Early, Safe, ExitTruthful, ContextBacked

\* However the process ends, the invariant holds if it tells the truth.
LEMMA EndsSafe ==
  ASSUME NEW how, Ends(how), command' = command,
         how = "zero" => command = "zero", how = "nonzero" => command = "nonzero",
         how \notin {"none", "killed"}
  PROVE  IInv'
  BY DEF Ends, ContextDropped, IInv, TasksStarted, Early, Safe, ExitTruthful, ContextBacked

LEMMA StepIInv == IInv /\ [Next]_vars => IInv'
<1> SUFFICES ASSUME IInv, [Next]_vars PROVE IInv'
  OBVIOUS
<1>1. CASE Signal \/ PhaseFails \/ LaunchAbandoned
  BY <1>1, EndsSafe DEF Signal, PhaseFails, LaunchAbandoned
<1>2. CASE CommandSeen
  <2>1. ExitOf(command) \in {"zero", "nonzero", "error"}
        /\ (ExitOf(command) \in {"zero", "nonzero"} => ExitOf(command) = command)
    BY <1>2 DEF CommandSeen, ExitOf
  <2>2. QED
    BY <1>2, <2>1, EndsSafe DEF CommandSeen
<1>3. CASE ContextSeen
  <2>1. ContextPoll \in {"error", "panic"}
    BY <1>3 DEF ContextSeen, ContextPoll
  <2>2. QED
    BY <1>3, <2>1, EndsSafe DEF ContextSeen
<1>4. CASE StartCommand
  <2>1. CASE Ends("error") /\ command' = command
    BY <2>1, EndsSafe
  <2>2. CASE phase = "serving" /\ UNCHANGED <<phase, taskVars, context, result>>
    BY <2>2 DEF IInv, TasksStarted, Early, Safe, ExitTruthful, ContextBacked
  <2>3. QED
    BY <1>4, <2>1, <2>2 DEF StartCommand
<1> USE DEF IInv, TasksStarted, Early, Safe, ExitTruthful, ContextBacked
<1>5. CASE Kill
  BY <1>5 DEF Kill
<1>6. CASE Ask \/ Accept
  BY <1>6 DEF Ask, Accept
<1>7. CASE ProviderReturns \/ Connects \/ Handshake \/ Authenticates \/ Install
  BY <1>7 DEF ProviderReturns, Connects, Handshake, Authenticates, Install, Succeeds
<1>8. CASE StartKeepalive
  BY <1>8 DEF StartKeepalive, Succeeds
<1>9. CASE StartDockerd
  BY <1>9 DEF StartDockerd, Succeeds
<1>10. CASE PortReached \/ CreateContext \/ CreationFails
  BY <1>10 DEF PortReached, Succeeds, CreateContext, CreationFails
<1>11. CASE ConnectionLost \/ KeepaliveFails \/ DockerdEnds
  BY <1>11 DEF ConnectionLost, KeepaliveFails, DockerdEnds
<1>12. CASE CommandEnds
  BY <1>12 DEF CommandEnds
<1>13. CASE Renew \/ LeaseRuns \/ LeaseFails
  BY <1>13 DEF Renew, LeaseRuns, LeaseFails
<1>14. CASE UNCHANGED vars
  BY <1>14 DEF vars
<1>15. QED
  BY <1>1, <1>2, <1>3, <1>4, <1>5, <1>6, <1>7, <1>8, <1>9, <1>10, <1>11,
     <1>12, <1>13, <1>14 DEF Next, MainStep

-----------------------------------------------------------------------------
\* The invariant is inductive, for every lease.
THEOREM Inductive == Spec => []IInv
<1>1. QED
  BY InitIInv, StepIInv, PTL DEF Spec

\* The exit code that is reported is the command's own: no failure of the
\* machine, no signal and no panic looks like one.
THEOREM ExitCodeTruthful == Spec => []ExitTruthful
<1>1. IInv => ExitTruthful
  BY DEF IInv, Safe
<1>2. QED
  BY <1>1, Inductive, PTL

\* A context stands only with a keepalive and a dockerd behind it, or after its
\* process was killed; parts of one that some call on its files has left are
\* there only when the process has ended otherwise.
THEOREM ContextsBacked == Spec => []ContextBacked
<1>1. IInv => ContextBacked
  BY DEF IInv, Safe
<1>2. QED
  BY <1>1, Inductive, PTL

-----------------------------------------------------------------------------
(* Type correctness, which is inductive on its own. *)

LEMMA EndsTyped ==
  ASSUME TypeOK, NEW how, Ends(how), UNCHANGED <<command, leaseVars>>,
         how \in {"zero", "nonzero", "error", "signal", "killed", "panic"}
  PROVE  TypeOK'
  BY DEF TypeOK, Ends, ContextDropped

LEMMA StepTyped == TypeOK /\ [Next]_vars => TypeOK'
<1> SUFFICES ASSUME TypeOK, [Next]_vars PROVE TypeOK'
  OBVIOUS
<1>1. CASE Signal \/ PhaseFails \/ LaunchAbandoned
  BY <1>1, EndsTyped DEF Signal, PhaseFails, LaunchAbandoned
<1>2. CASE CommandSeen
  BY <1>2, EndsTyped DEF CommandSeen, ExitOf
<1>3. CASE ContextSeen
  <2>1. ContextPoll \in {"error", "panic"}
    BY <1>3 DEF ContextSeen, ContextPoll
  <2>2. QED
    BY <1>3, <2>1, EndsTyped DEF ContextSeen
<1>4. CASE StartCommand
  <2>1. CASE Ends("error") /\ UNCHANGED <<command, leaseVars>>
    BY <2>1, EndsTyped
  <2>2. CASE /\ command' = "running"
             /\ UNCHANGED <<phase, taskVars, context, result, leaseVars>>
    BY <2>2 DEF TypeOK
  <2>3. QED
    BY <1>4, <2>1, <2>2 DEF StartCommand
<1> USE DEF TypeOK
<1>5. CASE Kill
  BY <1>5 DEF Kill
<1>6. CASE Ask \/ Accept
  BY <1>6, LeaseAssumption DEF Ask, Accept
<1>7. CASE ProviderReturns \/ Connects \/ Handshake \/ Authenticates \/ Install
  BY <1>7 DEF ProviderReturns, Connects, Handshake, Authenticates, Install, Succeeds
<1>8. CASE StartKeepalive \/ StartDockerd
  BY <1>8 DEF StartKeepalive, StartDockerd, Succeeds
<1>9. CASE PortReached \/ CreateContext \/ CreationFails
  BY <1>9 DEF PortReached, Succeeds, CreateContext, CreationFails
<1>10. CASE ConnectionLost \/ KeepaliveFails \/ DockerdEnds \/ CommandEnds
  BY <1>10 DEF ConnectionLost, KeepaliveFails, DockerdEnds, CommandEnds
<1>11. CASE Renew \/ LeaseRuns \/ LeaseFails
  <2>1. idle' \in 0..Limit
    BY <1>11, LeaseAssumption
    DEF Renew, LeaseRuns, LeaseFails, PowersOff,
        L!Renew, L!Begin, L!Elapse, L!Expire, L!Abandon, L!Lose
  <2>2. machine' \in {"none", "asked", "pending", "leased", "expired", "lost", "off"}
    BY <1>11
    DEF Renew, LeaseRuns, LeaseFails, PowersOff,
        L!Renew, L!Begin, L!Elapse, L!Expire, L!Abandon, L!Lose
  <2>3. QED
    BY <1>11, <2>1, <2>2 DEF Renew, LeaseRuns, LeaseFails
<1>12. CASE UNCHANGED vars
  BY <1>12 DEF vars
<1>13. QED
  BY <1>1, <1>2, <1>3, <1>4, <1>5, <1>6, <1>7, <1>8, <1>9, <1>10, <1>11, <1>12
  DEF Next, MainStep

\* The states of the main task, its tasks, the command and the lease, and
\* that a process which runs has no result.
THEOREM TypeCorrect == Spec => []TypeOK
<1>1. Init => TypeOK
  <2> SUFFICES ASSUME Init PROVE TypeOK
    OBVIOUS
  <2>1. 0 \in 0..Limit
    BY LeaseAssumption
  <2>2. Running <=> result = "none"
    BY DEF Init
  <2>3. QED
    BY <2>1, <2>2 DEF Init, TypeOK
<1>2. QED
  BY <1>1, StepTyped, PTL DEF Spec

-----------------------------------------------------------------------------
(* Session implements Service. *)

\* A context, or a machine that has answered, was preceded by the grant.
Backed ==
    context = "made" \/ phase \notin {"provider", "over"} => machine \notin {"none", "asked"}

LEMMA BackedStep == IInv /\ Backed /\ [Next]_vars => Backed'
<1> SUFFICES ASSUME IInv, Backed, [Next]_vars PROVE Backed'
  OBVIOUS
<1> USE DEF IInv, Early, Backed
<1>1. CASE Signal \/ Kill \/ PhaseFails \/ LaunchAbandoned \/ CreationFails \/ CommandSeen \/ ContextSeen
  BY <1>1 DEF Signal, Kill, PhaseFails, LaunchAbandoned, CreationFails, CommandSeen, ContextSeen,
              Ends, ContextDropped
<1>2. CASE StartCommand
  BY <1>2 DEF StartCommand, Ends, ContextDropped
<1>3. CASE Ask \/ Accept
  BY <1>3 DEF Ask, Accept
<1>4. CASE ProviderReturns \/ Connects \/ Handshake \/ Authenticates \/ Install
  BY <1>4 DEF ProviderReturns, Connects, Handshake, Authenticates, Install, Succeeds
<1>5. CASE StartKeepalive \/ StartDockerd \/ PortReached \/ CreateContext
  BY <1>5 DEF StartKeepalive, StartDockerd, PortReached, CreateContext, Succeeds
<1>6. CASE ConnectionLost \/ KeepaliveFails \/ DockerdEnds \/ CommandEnds
  BY <1>6 DEF ConnectionLost, KeepaliveFails, DockerdEnds, CommandEnds
<1>7. CASE Renew \/ LeaseRuns \/ LeaseFails
  BY <1>7 DEF Renew, LeaseRuns, LeaseFails, PowersOff,
     L!Renew, L!Begin, L!Elapse, L!Expire, L!Abandon, L!Lose
<1>8. CASE UNCHANGED vars
  BY <1>8 DEF vars
<1>9. QED
  BY <1>1, <1>2, <1>3, <1>4, <1>5, <1>6, <1>7, <1>8 DEF Next, MainStep

\* Nothing is served by a machine that was not granted.
THEOREM ServedGranted == Spec => []Backed
<1>1. Init => Backed
  BY DEF Init, Backed
<1>2. QED
  BY <1>1, BackedStep, Inductive, PTL DEF Spec

LEMMA ServiceInit == Init => S!Init
  BY DEF Init, S!Init, Answers, MachineOver

LEMMA EndsService ==
  ASSUME TypeOK, Backed, Running, NEW how, Ends(how), UNCHANGED leaseVars,
         how \in {"zero", "nonzero", "error", "signal", "panic"}
  PROVE  S!Next
<1>1. S!End
  BY DEF TypeOK, Backed, Ends, ContextDropped, S!End, S!Granted, Answers, MachineOver
<1>2. QED
  BY <1>1 DEF S!Next

LEMMA ServiceStep == TypeOK /\ IInv /\ Backed /\ [Next]_vars => [S!Next]_(S!vars)
<1> SUFFICES ASSUME TypeOK, IInv, Backed, [Next]_vars PROVE [S!Next]_(S!vars)
  OBVIOUS
<1>1. CASE Signal \/ PhaseFails \/ LaunchAbandoned
  BY <1>1, EndsService DEF Signal, PhaseFails, LaunchAbandoned
<1>2. CASE CommandSeen
  BY <1>2, EndsService DEF CommandSeen, ExitOf
<1>3. CASE ContextSeen
  <2>1. ContextPoll \in {"error", "panic"}
    BY <1>3 DEF ContextSeen, ContextPoll
  <2>2. QED
    BY <1>3, <2>1, EndsService DEF ContextSeen
<1> USE DEF S!vars, Answers, MachineOver
<1>4. CASE StartCommand
  <2>1. CASE Ends("error") /\ UNCHANGED leaseVars
    BY <1>4, <2>1, EndsService DEF StartCommand
  <2>2. CASE UNCHANGED <<phase, context, result, leaseVars>>
    BY <2>2
  <2>3. QED
    BY <1>4, <2>1, <2>2 DEF StartCommand
<1>5. CASE Kill
  BY <1>5 DEF TypeOK, Kill, S!Next, S!Kill
<1>6. CASE Ask
  BY <1>6 DEF TypeOK, Ask, S!Next, S!Ask
<1>7. CASE Accept
  BY <1>7 DEF Accept, S!Next, S!Grant
<1>8. CASE ProviderReturns \/ Connects \/ Handshake \/ Authenticates \/ Install
  BY <1>8 DEF ProviderReturns, Connects, Handshake, Authenticates, Install, Succeeds
<1>9. CASE StartKeepalive \/ StartDockerd \/ PortReached
  BY <1>9 DEF StartKeepalive, StartDockerd, PortReached, Succeeds
<1>10. CASE CreateContext
  <2>1. S!Serve
    BY <1>10 DEF CreateContext, TypeOK, IInv, Early, Backed, S!Serve, S!Granted
  <2>2. QED
    BY <2>1 DEF S!Next
<1>c. CASE CreationFails
  <2>1. S!End
    BY <1>c DEF CreationFails, TypeOK, IInv, Early, Backed, S!End, S!Granted
  <2>2. QED
    BY <2>1 DEF S!Next
<1>11. CASE ConnectionLost \/ KeepaliveFails \/ DockerdEnds \/ CommandEnds
  BY <1>11 DEF ConnectionLost, KeepaliveFails, DockerdEnds, CommandEnds
<1>12. CASE Renew \/ LeaseRuns \/ LeaseFails
  <2>1. \/ machine' = machine
        \/ Answers /\ machine' \in {"leased", "expired", "lost", "off"}
    BY <1>12 DEF Renew, LeaseRuns, LeaseFails, PowersOff,
       L!Renew, L!Begin, L!Elapse, L!Expire, L!Abandon, L!Lose
  <2>2. UNCHANGED <<phase, result, context>>
    BY <1>12 DEF Renew, LeaseRuns, LeaseFails
  <2>3. QED
    BY <2>1, <2>2 DEF S!Next, S!Release
<1>13. CASE UNCHANGED vars
  BY <1>13 DEF vars
<1>14. QED
  BY <1>1, <1>2, <1>3, <1>4, <1>5, <1>6, <1>7, <1>8, <1>9, <1>10, <1>c, <1>11, <1>12,
     <1>13 DEF Next, MainStep

\* For every lease, a foreground run is the service that fleeting promises:
\* a machine and a context for the life of one process.
THEOREM Implementation == Spec => ImplementsService
  BY ServiceInit, ServiceStep, ServedGranted, Inductive, TypeCorrect, PTL
  DEF Spec, ImplementsService, S!Spec

-----------------------------------------------------------------------------
(* Progress is Session with a view of its phases. *)

\* What a foreground run shows changes nothing that it does.
THEOREM ProgressIsSession == ProgressSpec => Spec
<1>1. ProgressInit => Init
  BY DEF ProgressInit
<1>2. [ProgressNext]_allVars => [Next]_vars
  BY DEF ProgressNext, ProviderStep, LogLine, allVars
<1>3. QED
  BY <1>1, <1>2, PTL DEF ProgressSpec, Spec

\* The i-th header of a run.
Header(i) ==
    IF i = 1 THEN <<1>> ELSE IF i <= ProviderSteps + 1 THEN <<1, i - 1>> ELSE <<i - ProviderSteps>>

\* The first m headers were shown, and previous is the step of the last line.
Shown(m) == [i \in 1..m |-> Header(i)]
View(current, handles, previous, m) ==
    [current |-> current, handles |-> handles, previous |-> previous,
     headers |-> Shown(m), overlap |-> FALSE]

InSpawn(k, m) == View(<<k>>, <<<<k>>>>, Header(m), m)
InProvider(j) == View(<<1, j>>, <<<<1>>, <<1, j>>>>, Header(j + 1), j + 1)
Outside(m) == View(<<>>, <<>>, Header(m), m)

\* The step of each phase after the provider's.
StepOf == [connect |-> 2, auth |-> 3, otp |-> 3, install |-> 4, keys |-> 5, dockerd |-> 6, reached |-> 6]

InStep(p, u) ==
    \/ p = "provider" /\ (u = InSpawn(1, 1) \/ \E j \in 1..ProviderSteps : u = InProvider(j))
    \/ p \in DOMAIN StepOf /\ u = InSpawn(StepOf[p], ProviderSteps + StepOf[p])
    \/ p = "serving" /\ u = Outside(ProviderSteps + 6)

Shape ==
    IF phase # "over" THEN InStep(phase, ui)
    ELSE IF result = "killed" THEN \E p \in Launching \union {"serving"} : InStep(p, ui)
    ELSE \E m \in 1..(ProviderSteps + 6) : ui = Outside(m)

-----------------------------------------------------------------------------
(* What the operations on steps do to paths of one and of two steps. *)

LEMMA Tuples ==
  ASSUME NEW T, NEW a \in T, NEW b \in T
  PROVE  /\ <<a>> \in Seq(T) /\ Len(<<a>>) = 1 /\ <<a>>[1] = a
         /\ <<a, b>> \in Seq(T) /\ Len(<<a, b>>) = 2 /\ <<a, b>>[1] = a /\ <<a, b>>[2] = b
  OBVIOUS

LEMMA Paths ==
  ASSUME NEW T, NEW a \in T, NEW b \in T
  PROVE  /\ Front(<<a>>) = <<>> /\ Last(<<a>>) = a /\ Front(<<a, b>>) = <<a>> /\ Last(<<a, b>>) = b
         /\ Append(<<>>, a) = <<a>> /\ Append(<<a>>, b) = <<a, b>>
<1>1. SubSeq(<<a>>, 1, 0) = <<>>
  BY SubSeqEmpty
<1>2. PICK one : one = <<a>> /\ one \in Seq(T) /\ Len(one) = 1 /\ one[1] = a
  BY Tuples
<1>3. PICK two : two = <<a, b>> /\ two \in Seq(T) /\ Len(two) = 2 /\ two[1] = a /\ two[2] = b
  <2>1. <<a, b>> \in Seq(T) /\ Len(<<a, b>>) = 2 /\ <<a, b>>[1] = a /\ <<a, b>>[2] = b
    BY Tuples
  <2>2. QED
    BY <2>1
<1>4. SubSeq(two, 1, 1) = one
  <2>1. \A i \in 1..1 : two[i] \in T
    BY <1>3
  <2>2. /\ SubSeq(two, 1, 1) \in Seq(T) /\ Len(SubSeq(two, 1, 1)) = 1
        /\ \A i \in 1..1 : SubSeq(two, 1, 1)[i] = two[1 + i - 1]
    BY <2>1, SubSeqProperties
  <2>3. \A i \in 1..1 : SubSeq(two, 1, 1)[i] = one[i]
    BY <1>2, <1>3, <2>2
  <2>4. QED
    BY <1>2, <2>2, <2>3, SeqEqual
<1>5. Append(one, b) = two
  <2>1. /\ Append(one, b) \in Seq(T) /\ Len(Append(one, b)) = 2
        /\ Append(one, b)[1] = one[1] /\ Append(one, b)[2] = b
    BY <1>2, AppendProperties
  <2>2. \A i \in 1..2 : Append(one, b)[i] = two[i]
    BY <1>2, <1>3, <2>1
  <2>3. QED
    BY <1>3, <2>1, <2>2, SeqEqual
<1>6. Front(one) = <<>> /\ Last(one) = a /\ Front(two) = one /\ Last(two) = b
  BY <1>1, <1>2, <1>3, <1>4 DEF Front, Last
<1>7. QED
  BY <1>2, <1>3, <1>5, <1>6

LEMMA Heads ==
  ASSUME NEW T, NEW a \in T, NEW b \in T
  PROVE  /\ SubSeq(<<a>>, 1, 1) = <<a>>
         /\ SubSeq(<<a, b>>, 1, 1) = <<a>>
         /\ SubSeq(<<a, b>>, 1, 2) = <<a, b>>
<1>1. SubSeq(<<a>>, 1, 1) = <<a>>
  BY Tuples, SubSeqFull
<1>2. SubSeq(<<a, b>>, 1, 1) = <<a>>
  <2>1. Len(<<a, b>>) = 2 /\ Front(<<a, b>>) = <<a>>
    BY Tuples, Paths
  <2>2. QED
    BY <2>1 DEF Front
<1>3. SubSeq(<<a, b>>, 1, 2) = <<a, b>>
  <2>1. <<a, b>> \in Seq(T) /\ Len(<<a, b>>) = 2
    BY Tuples
  <2>2. SubSeq(<<a, b>>, 1, Len(<<a, b>>)) = <<a, b>>
    BY <2>1, SubSeqFull
  <2>3. QED
    BY <2>1, <2>2
<1>4. QED
  BY <1>1, <1>2, <1>3

LEMMA Within ==
  ASSUME NEW T, NEW a \in T, NEW b \in T
  PROVE  /\ IsPrefix(<<a>>, <<a>>) /\ IsPrefix(<<a>>, <<a, b>>)
         /\ IsPrefix(<<a, b>>, <<a, b>>)
<1>1. Len(<<a>>) = 1 /\ Len(<<a, b>>) = 2
  BY Tuples
<1>2. SubSeq(<<a>>, 1, 1) = SubSeq(<<a, b>>, 1, 1)
  BY Heads
<1>3. QED
  BY <1>1, <1>2 DEF IsPrefix

LEMMA NotWithin ==
  ASSUME NEW T, NEW a \in T, NEW b \in T
  PROVE  ~IsPrefix(<<a>>, <<>>) /\ ~IsPrefix(<<a, b>>, <<a>>)
  BY Tuples DEF IsPrefix

LEMMA StepsApart ==
  ASSUME NEW T, NEW a \in T, NEW b \in T, NEW c \in T, a # b
  PROVE  ~IsPrefix(<<a>>, <<b>>) /\ ~IsPrefix(<<a>>, <<b, c>>)
<1>1. SubSeq(<<a>>, 1, 1) = <<a>> /\ Len(<<a>>) = 1 /\ <<a>>[1] = a
  BY Heads, Tuples
<1>2. SubSeq(<<b>>, 1, 1) = <<b>> /\ SubSeq(<<b, c>>, 1, 1) = <<b>> /\ <<b>>[1] = b
  BY Heads, Tuples
<1>3. QED
  BY <1>1, <1>2 DEF IsPrefix

LEMMA InnerApart ==
  ASSUME NEW T, NEW a \in T, NEW b \in T, NEW c \in T, b # c
  PROVE  ~IsPrefix(<<a, b>>, <<a, c>>)
<1>1. SubSeq(<<a, b>>, 1, 2) = <<a, b>> /\ Len(<<a, b>>) = 2 /\ <<a, b>>[2] = b
  BY Heads, Tuples
<1>2. SubSeq(<<a, c>>, 1, 2) = <<a, c>> /\ <<a, c>>[2] = c
  BY Heads, Tuples
<1>3. QED
  BY <1>1, <1>2 DEF IsPrefix

LEMMA StartedView ==
  ASSUME NEW current, NEW handles, NEW previous, NEW m, NEW n
  PROVE  Started(View(current, handles, previous, m), n)
         = View(Append(current, n), Append(handles, Append(current, n)), previous, m)
<1>1. PICK u, v : u = View(current, handles, previous, m) /\ v = Started(u, n)
  OBVIOUS
<1>2. v = View(Append(current, n), Append(handles, Append(current, n)), previous, m)
  BY <1>1 DEF Started, View
<1>3. QED
  BY <1>1, <1>2

\* The innermost handle is the current step's: no overlap.
LEMMA EndedView ==
  ASSUME NEW current, NEW handles, NEW previous, NEW m, Last(handles) = current
  PROVE  Ended(View(current, handles, previous, m))
         = View(Front(current), Front(handles), previous, m)
<1>1. PICK u, v : u = View(current, handles, previous, m) /\ v = Ended(u)
  OBVIOUS
<1>2. v = View(Front(current), Front(handles), previous, m)
  BY <1>1 DEF Ended, Dropped, View
<1>3. QED
  BY <1>1, <1>2

LEMMA LoggedOutside ==
  ASSUME NEW handles, NEW previous, NEW m
  PROVE  Logged(View(<<>>, handles, previous, m)) = View(<<>>, handles, previous, m)
  BY DEF Logged, View

LEMMA LoggedAgain ==
  ASSUME NEW current, NEW handles, NEW previous, NEW m,
         current # <<>>, IsPrefix(current, previous)
  PROVE  Logged(View(current, handles, previous, m)) = View(current, handles, current, m)
  BY DEF Logged, View

LEMMA LoggedFirst ==
  ASSUME NEW current, NEW handles, NEW previous, NEW m \in Nat,
         current # <<>>, ~IsPrefix(current, previous), current = Header(m + 1)
  PROVE  Logged(View(current, handles, previous, m)) = View(current, handles, current, m + 1)
<1>1. Append(Shown(m), current) = Shown(m + 1)
  BY DEF Shown
<1>2. QED
  BY <1>1 DEF Logged, View

LEMMA Fields ==
  ASSUME NEW current, NEW handles, NEW previous, NEW m
  PROVE  /\ View(current, handles, previous, m).current = current
         /\ View(current, handles, previous, m).handles = handles
         /\ View(current, handles, previous, m).previous = previous
         /\ View(current, handles, previous, m).headers = Shown(m)
         /\ ~View(current, handles, previous, m).overlap
  BY DEF View

\* From one step of spawn to the next.
LEMMA FollowedInSpawn ==
  ASSUME NEW k \in Nat, NEW previous, NEW m
  PROVE  Followed(View(<<k>>, <<<<k>>>>, previous, m))
         = View(<<k + 1>>, <<<<k + 1>>>>, previous, m)
<1>1. /\ Last(<<<<k>>>>) = <<k>> /\ Front(<<<<k>>>>) = <<>>
      /\ Append(<<>>, <<k + 1>>) = <<<<k + 1>>>>
  <2>1. <<k>> \in Seq(Nat) /\ <<k + 1>> \in Seq(Nat)
    BY Tuples
  <2>2. QED
    BY <2>1, Paths
<1>2. Last(<<k>>) = k /\ Front(<<k>>) = <<>> /\ Append(<<>>, k + 1) = <<k + 1>>
  BY Paths
<1>3. Ended(View(<<k>>, <<<<k>>>>, previous, m)) = View(<<>>, <<>>, previous, m)
  BY <1>1, <1>2, EndedView
<1>4. Started(View(<<>>, <<>>, previous, m), k + 1)
      = View(<<k + 1>>, <<<<k + 1>>>>, previous, m)
  <2>1. PICK none, n : none = <<>> /\ n = k + 1
    OBVIOUS
  <2>2. Started(View(none, none, previous, m), n)
        = View(Append(none, n), Append(none, Append(none, n)), previous, m)
    BY StartedView
  <2>3. QED
    BY <1>1, <1>2, <2>1, <2>2
<1>5. View(<<k>>, <<<<k>>>>, previous, m).handles = <<<<k>>>>
  BY Fields
<1>6. QED
  BY <1>1, <1>2, <1>3, <1>4, <1>5 DEF Followed

\* From one step of the provider to the next.
LEMMA FollowedInProvider ==
  ASSUME NEW j \in Nat, NEW previous, NEW m
  PROVE  Followed(View(<<1, j>>, <<<<1>>, <<1, j>>>>, previous, m))
         = View(<<1, j + 1>>, <<<<1>>, <<1, j + 1>>>>, previous, m)
<1>1. /\ Last(<<<<1>>, <<1, j>>>>) = <<1, j>> /\ Front(<<<<1>>, <<1, j>>>>) = <<<<1>>>>
      /\ Append(<<<<1>>>>, <<1, j + 1>>) = <<<<1>>, <<1, j + 1>>>>
  <2>1. <<1>> \in Seq(Nat) /\ <<1, j>> \in Seq(Nat) /\ <<1, j + 1>> \in Seq(Nat)
    BY Tuples
  <2>2. QED
    BY <2>1, Paths
<1>2. Last(<<1, j>>) = j /\ Front(<<1, j>>) = <<1>> /\ Append(<<1>>, j + 1) = <<1, j + 1>>
  <2>1. 1 \in Nat /\ j + 1 \in Nat
    OBVIOUS
  <2>2. QED
    BY <2>1, Paths
<1>3. Ended(View(<<1, j>>, <<<<1>>, <<1, j>>>>, previous, m))
      = View(<<1>>, <<<<1>>>>, previous, m)
  BY <1>1, <1>2, EndedView
<1>4. Started(View(<<1>>, <<<<1>>>>, previous, m), j + 1)
      = View(<<1, j + 1>>, <<<<1>>, <<1, j + 1>>>>, previous, m)
  <2>1. Started(View(<<1>>, <<<<1>>>>, previous, m), j + 1)
        = View(Append(<<1>>, j + 1), Append(<<<<1>>>>, Append(<<1>>, j + 1)), previous, m)
    BY StartedView
  <2>2. QED
    BY <1>1, <1>2, <2>1
<1>5. View(<<1, j>>, <<<<1>>, <<1, j>>>>, previous, m).handles = <<<<1>>, <<1, j>>>>
  BY Fields
<1>6. QED
  BY <1>1, <1>2, <1>3, <1>4, <1>5 DEF Followed

-----------------------------------------------------------------------------
(* From one state of the steps to the next. *)

LEMMA Headers ==
  /\ Header(1) = <<1>>
  /\ \A j \in 1..ProviderSteps : Header(j + 1) = <<1, j>>
  /\ \A k \in Nat \ {0, 1} : Header(ProviderSteps + k) = <<k>>
<1>1. Header(1) = <<1>>
  BY DEF Header
<1>2. ASSUME NEW j \in 1..ProviderSteps PROVE Header(j + 1) = <<1, j>>
  <2>1. j + 1 # 1 /\ j + 1 <= ProviderSteps + 1 /\ (j + 1) - 1 = j
    BY StepsAssumption
  <2>2. QED
    BY <2>1 DEF Header
<1>3. ASSUME NEW k \in Nat \ {0, 1} PROVE Header(ProviderSteps + k) = <<k>>
  <2>1. /\ ProviderSteps + k # 1 /\ ~(ProviderSteps + k <= ProviderSteps + 1)
        /\ (ProviderSteps + k) - ProviderSteps = k
    BY StepsAssumption
  <2>2. QED
    BY <2>1 DEF Header
<1>4. QED
  BY <1>1, <1>2, <1>3

LEMMA LineInSpawn ==
  ASSUME NEW k \in Nat, NEW m, Header(m) = <<k>>
  PROVE  Logged(InSpawn(k, m)) = InSpawn(k, m)
<1>1. <<k>> # <<>> /\ IsPrefix(<<k>>, <<k>>)
  BY Tuples, Within
<1>2. QED
  BY <1>1, LoggedAgain DEF InSpawn

LEMMA LineInProvider ==
  ASSUME NEW j \in 1..ProviderSteps
  PROVE  Logged(InProvider(j)) = InProvider(j)
<1>1. <<1, j>> # <<>> /\ IsPrefix(<<1, j>>, <<1, j>>) /\ Header(j + 1) = <<1, j>>
  <2>1. 1 \in Nat /\ j \in Nat
    OBVIOUS
  <2>2. IsPrefix(<<1, j>>, <<1, j>>)
    BY <2>1, Within
  <2>3. QED
    BY <2>2, Headers
<1>2. QED
  BY <1>1, LoggedAgain DEF InProvider

LEMMA LineOutside == ASSUME NEW m PROVE Logged(Outside(m)) = Outside(m)
  BY LoggedOutside DEF Outside

\* The first line of a step of spawn, after a line of the one before.
LEMMA NextInSpawn ==
  ASSUME NEW k \in Nat \ {0}, NEW m \in Nat, Header(m + 1) = <<k + 1>>
  PROVE  Logged(Followed(View(<<k>>, <<<<k>>>>, <<k>>, m))) = InSpawn(k + 1, m + 1)
<1>1. Followed(View(<<k>>, <<<<k>>>>, <<k>>, m)) = View(<<k + 1>>, <<<<k + 1>>>>, <<k>>, m)
  BY FollowedInSpawn
<1>2. <<k + 1>> # <<>> /\ ~IsPrefix(<<k + 1>>, <<k>>)
  <2>1. PICK next : next = k + 1 /\ next \in Nat /\ next # k
    OBVIOUS
  <2>2. ~IsPrefix(<<next>>, <<k>>)
    BY <2>1, StepsApart
  <2>3. QED
    BY <2>1, <2>2
<1>3. Logged(View(<<k + 1>>, <<<<k + 1>>>>, <<k>>, m))
      = View(<<k + 1>>, <<<<k + 1>>>>, <<k + 1>>, m + 1)
  BY <1>2, LoggedFirst
<1>4. QED
  BY <1>1, <1>3 DEF InSpawn

LEMMA FirstInProvider == Logged(Started(InSpawn(1, 1), 1)) = InProvider(1)
<1>1. Append(<<1>>, 1) = <<1, 1>> /\ Append(<<<<1>>>>, <<1, 1>>) = <<<<1>>, <<1, 1>>>>
  <2>1. 1 \in Nat /\ <<1>> \in Seq(Nat) /\ <<1, 1>> \in Seq(Nat)
    BY Tuples
  <2>2. QED
    BY <2>1, Paths
<1>2. Started(View(<<1>>, <<<<1>>>>, <<1>>, 1), 1)
      = View(Append(<<1>>, 1), Append(<<<<1>>>>, Append(<<1>>, 1)), <<1>>, 1)
  BY StartedView
<1>3. <<1, 1>> # <<>> /\ ~IsPrefix(<<1, 1>>, <<1>>)
  BY NotWithin
<1>4. 1 \in 1..ProviderSteps
  BY StepsAssumption
<1>5. Header(1) = <<1>> /\ Header(1 + 1) = <<1, 1>>
  BY <1>4, Headers
<1>6. Logged(View(<<1, 1>>, <<<<1>>, <<1, 1>>>>, <<1>>, 1))
      = View(<<1, 1>>, <<<<1>>, <<1, 1>>>>, <<1, 1>>, 1 + 1)
  BY <1>3, <1>5, LoggedFirst
<1>7. QED
  BY <1>1, <1>2, <1>5, <1>6 DEF InSpawn, InProvider

LEMMA NextInProvider ==
  ASSUME NEW j \in 1..ProviderSteps, j < ProviderSteps
  PROVE  Logged(Followed(InProvider(j))) = InProvider(j + 1)
<1>1. j \in Nat /\ j + 1 \in 1..ProviderSteps
  BY StepsAssumption
<1>2. Header(j + 1) = <<1, j>> /\ Header((j + 1) + 1) = <<1, j + 1>>
  BY <1>1, Headers
<1>3. Followed(View(<<1, j>>, <<<<1>>, <<1, j>>>>, <<1, j>>, j + 1))
      = View(<<1, j + 1>>, <<<<1>>, <<1, j + 1>>>>, <<1, j>>, j + 1)
  BY <1>1, FollowedInProvider
<1>4. <<1, j + 1>> # <<>> /\ ~IsPrefix(<<1, j + 1>>, <<1, j>>)
  <2>1. 1 \in Nat /\ j + 1 \in Nat /\ j + 1 # j
    BY <1>1
  <2>2. QED
    BY <1>1, <2>1, InnerApart
<1>5. Logged(View(<<1, j + 1>>, <<<<1>>, <<1, j + 1>>>>, <<1, j>>, j + 1))
      = View(<<1, j + 1>>, <<<<1>>, <<1, j + 1>>>>, <<1, j + 1>>, (j + 1) + 1)
  BY <1>1, <1>2, <1>4, LoggedFirst
<1>6. QED
  BY <1>2, <1>3, <1>5 DEF InProvider

\* Back in its own step, spawn shows no header for a line, and goes on.
LEMMA ProviderLeft ==
    Logged(Followed(Logged(Ended(InProvider(ProviderSteps))))) = InSpawn(2, ProviderSteps + 2)
<1> DEFINE n == ProviderSteps
<1>1. n \in Nat /\ n \in 1..n
  BY StepsAssumption
<1>2. Header(n + 1) = <<1, n>> /\ Header((n + 1) + 1) = <<1 + 1>>
  <2>1. Header(n + 1) = <<1, n>> /\ Header(n + 2) = <<2>>
    <3>1. Header(n + 1) = <<1, n>>
      BY <1>1, Headers
    <3>2. 2 \in Nat \ {0, 1}
      OBVIOUS
    <3>3. Header(n + 2) = <<2>>
      BY <3>2, Headers
    <3>4. QED
      BY <3>1, <3>3
  <2>2. (n + 1) + 1 = n + 2 /\ 1 + 1 = 2
    BY <1>1
  <2>3. QED
    BY <2>1, <2>2
<1>3. Ended(View(<<1, n>>, <<<<1>>, <<1, n>>>>, <<1, n>>, n + 1))
      = View(<<1>>, <<<<1>>>>, <<1, n>>, n + 1)
  <2>1. /\ Last(<<<<1>>, <<1, n>>>>) = <<1, n>> /\ Front(<<<<1>>, <<1, n>>>>) = <<<<1>>>>
        /\ Front(<<1, n>>) = <<1>>
    <3>1. 1 \in Nat /\ <<1>> \in Seq(Nat) /\ <<1, n>> \in Seq(Nat)
      BY <1>1, Tuples
    <3>2. QED
      BY <1>1, <3>1, Paths
  <2>2. QED
    BY <2>1, EndedView
<1>4. Logged(View(<<1>>, <<<<1>>>>, <<1, n>>, n + 1)) = View(<<1>>, <<<<1>>>>, <<1>>, n + 1)
  <2>1. 1 \in Nat /\ <<1>> # <<>> /\ IsPrefix(<<1>>, <<1, n>>)
    BY <1>1, Within
  <2>2. QED
    BY <2>1, LoggedAgain
<1>5. Logged(Followed(View(<<1>>, <<<<1>>>>, <<1>>, n + 1))) = InSpawn(1 + 1, (n + 1) + 1)
  <2>1. 1 \in Nat \ {0} /\ n + 1 \in Nat
    BY <1>1
  <2>2. QED
    BY <1>2, <2>1, NextInSpawn
<1>6. InSpawn(1 + 1, (n + 1) + 1) = InSpawn(2, n + 2)
  <2>1. 1 + 1 = 2 /\ (n + 1) + 1 = n + 2
    BY <1>1
  <2>2. QED
    BY <2>1
<1>7. QED
  BY <1>2, <1>3, <1>4, <1>5, <1>6 DEF InProvider

LEMMA EndedInSpawn ==
  ASSUME NEW k \in Nat, NEW previous, NEW m
  PROVE  Ended(View(<<k>>, <<<<k>>>>, previous, m)) = View(<<>>, <<>>, previous, m)
<1>1. Last(<<<<k>>>>) = <<k>> /\ Front(<<<<k>>>>) = <<>> /\ Front(<<k>>) = <<>>
  <2>1. <<k>> \in Seq(Nat)
    BY Tuples
  <2>2. QED
    BY <2>1, Paths
<1>2. QED
  BY <1>1, EndedView

\* Wherever the run is dropped, no step is left and no header is added.
LEMMA Dropping ==
  /\ \A k \in Nat, m \in Nat : Unwound(InSpawn(k, m)) = Outside(m)
  /\ \A j \in 1..ProviderSteps : Unwound(InProvider(j)) = Outside(j + 1)
  /\ \A m \in Nat : Unwound(Outside(m)) = Outside(m)
<1>1. ASSUME NEW k \in Nat, NEW m \in Nat PROVE Unwound(InSpawn(k, m)) = Outside(m)
  <2>1. Len(<<<<k>>>>) = 1
    OBVIOUS
  <2>2. InSpawn(k, m).handles = <<<<k>>>>
    BY Fields DEF InSpawn
  <2>3. Unwound(InSpawn(k, m)) = Ended(InSpawn(k, m))
    BY <2>1, <2>2 DEF Unwound
  <2>4. QED
    BY <2>3, EndedInSpawn DEF InSpawn, Outside
<1>2. ASSUME NEW j \in 1..ProviderSteps PROVE Unwound(InProvider(j)) = Outside(j + 1)
  <2>1. InProvider(j).handles = <<<<1>>, <<1, j>>>>
    BY Fields DEF InProvider
  <2>2. Unwound(InProvider(j)) = Ended(Ended(InProvider(j)))
    BY <2>1 DEF Unwound
  <2>3. Ended(InProvider(j)) = View(<<1>>, <<<<1>>>>, Header(j + 1), j + 1)
    <3>1. /\ Last(<<<<1>>, <<1, j>>>>) = <<1, j>> /\ Front(<<<<1>>, <<1, j>>>>) = <<<<1>>>>
          /\ Front(<<1, j>>) = <<1>>
      <4>1. 1 \in Nat /\ j \in Nat /\ <<1>> \in Seq(Nat) /\ <<1, j>> \in Seq(Nat)
        BY Tuples
      <4>2. QED
        BY <4>1, Paths
    <3>2. QED
      BY <3>1, EndedView DEF InProvider
  <2>4. Ended(View(<<1>>, <<<<1>>>>, Header(j + 1), j + 1)) = Outside(j + 1)
    BY EndedInSpawn DEF Outside
  <2>5. QED
    BY <2>2, <2>3, <2>4
<1>3. ASSUME NEW m \in Nat PROVE Unwound(Outside(m)) = Outside(m)
  <2>1. Outside(m).handles = <<>>
    BY Fields DEF Outside
  <2>2. QED
    BY <2>1 DEF Unwound
<1>4. QED
  BY <1>1, <1>2, <1>3

-----------------------------------------------------------------------------
(* Shape is inductive, for every provider. *)

LEMMA LaterSteps ==
  ASSUME NEW p \in DOMAIN StepOf
  PROVE  /\ StepOf[p] \in 2..6
         /\ ProviderSteps + StepOf[p] \in 1..(ProviderSteps + 6)
         /\ Header(ProviderSteps + StepOf[p]) = <<StepOf[p]>>
<1>1. StepOf[p] \in 2..6
  BY DEF StepOf
<1>2. StepOf[p] \in Nat \ {0, 1} /\ ProviderSteps + StepOf[p] \in 1..(ProviderSteps + 6)
  BY <1>1, StepsAssumption
<1>3. QED
  BY <1>1, <1>2, Headers

\* A line within a step that has its header adds nothing.
LEMMA LineInStep ==
  ASSUME NEW p, NEW u, InStep(p, u)
  PROVE  Logged(u) = u
<1>1. CASE u = InSpawn(1, 1)
  BY <1>1, Headers, LineInSpawn
<1>2. CASE \E j \in 1..ProviderSteps : u = InProvider(j)
  BY <1>2, LineInProvider
<1>3. CASE p \in DOMAIN StepOf /\ u = InSpawn(StepOf[p], ProviderSteps + StepOf[p])
  <2>1. StepOf[p] \in Nat
    BY <1>3, LaterSteps
  <2>2. QED
    BY <1>3, <2>1, LaterSteps, LineInSpawn
<1>4. CASE u = Outside(ProviderSteps + 6)
  BY <1>4, LineOutside
<1>5. QED
  BY <1>1, <1>2, <1>3, <1>4 DEF InStep

LEMMA StepDropped ==
  ASSUME NEW p, NEW u, InStep(p, u)
  PROVE  \E m \in 1..(ProviderSteps + 6) : Unwound(u) = Outside(m)
<1>1. CASE u = InSpawn(1, 1)
  <2>1. 1 \in Nat /\ 1 \in 1..(ProviderSteps + 6)
    BY StepsAssumption
  <2>2. QED
    BY <1>1, <2>1, Dropping
<1>2. CASE \E j \in 1..ProviderSteps : u = InProvider(j)
  <2>1. PICK j \in 1..ProviderSteps : u = InProvider(j)
    BY <1>2
  <2>2. j + 1 \in 1..(ProviderSteps + 6)
    BY StepsAssumption
  <2>3. QED
    BY <2>1, <2>2, Dropping
<1>3. CASE p \in DOMAIN StepOf /\ u = InSpawn(StepOf[p], ProviderSteps + StepOf[p])
  <2>1. PICK k, m : k = StepOf[p] /\ m = ProviderSteps + StepOf[p]
    OBVIOUS
  <2>2. k \in Nat /\ m \in Nat /\ m \in 1..(ProviderSteps + 6)
    BY <1>3, <2>1, LaterSteps
  <2>3. Unwound(InSpawn(k, m)) = Outside(m)
    BY <2>2, Dropping
  <2>4. QED
    BY <1>3, <2>1, <2>2, <2>3
<1>4. CASE u = Outside(ProviderSteps + 6)
  <2>1. ProviderSteps + 6 \in Nat /\ ProviderSteps + 6 \in 1..(ProviderSteps + 6)
    BY StepsAssumption
  <2>2. QED
    BY <1>4, <2>1, Dropping
<1>5. QED
  BY <1>1, <1>2, <1>3, <1>4 DEF InStep

LEMMA ShapeInit == ProgressInit => Shape
<1> SUFFICES ASSUME ProgressInit PROVE Shape
  OBVIOUS
<1> DEFINE u == [current |-> <<>>, handles |-> <<>>, previous |-> <<>>,
                 headers |-> <<>>, overlap |-> FALSE]
<1>1. u = View(<<>>, <<>>, <<>>, 0)
  <2>1. Shown(0) = <<>>
    BY DEF Shown
  <2>2. QED
    BY <2>1 DEF View
<1>2. Started(u, 1) = View(<<1>>, <<<<1>>>>, <<>>, 0)
  <2>1. PICK none, n : none = <<>> /\ n = 1
    OBVIOUS
  <2>2. Started(View(none, none, none, 0), n)
        = View(Append(none, n), Append(none, Append(none, n)), none, 0)
    BY StartedView
  <2>3. <<1>> \in Seq(Nat) /\ 1 \in Nat
    BY Tuples
  <2>4. Append(<<>>, 1) = <<1>> /\ Append(<<>>, <<1>>) = <<<<1>>>>
    BY <2>3, Paths
  <2>5. QED
    BY <1>1, <2>1, <2>2, <2>4
<1>3. Logged(View(<<1>>, <<<<1>>>>, <<>>, 0)) = InSpawn(1, 1)
  <2>1. <<1>> # <<>> /\ ~IsPrefix(<<1>>, <<>>) /\ Header(0 + 1) = <<1>> /\ 0 + 1 = 1
    <3>1. 1 \in Nat /\ 0 + 1 = 1
      OBVIOUS
    <3>2. QED
      BY <3>1, NotWithin, Headers
  <2>2. Logged(View(<<1>>, <<<<1>>>>, <<>>, 0)) = View(<<1>>, <<<<1>>>>, <<1>>, 0 + 1)
    BY <2>1, LoggedFirst
  <2>3. QED
    BY <2>1, <2>2 DEF InSpawn
<1>4. ui = InSpawn(1, 1)
  BY <1>2, <1>3 DEF ProgressInit
<1>5. QED
  BY <1>4 DEF ProgressInit, Init, Shape, InStep

\* An ended process stays ended, with its result.
LEMMA Resting == ~Running /\ [Next]_vars => ~Running' /\ result' = result
<1> SUFFICES ASSUME phase = "over", [Next]_vars PROVE phase' = "over" /\ result' = result
  OBVIOUS
<1>1. ~Signal /\ ~Kill /\ ~PhaseFails /\ ~Ask /\ ~MainStep
  BY DEF Signal, Kill, PhaseFails, Ask, MainStep, LaunchAbandoned, CreateContext,
     CreationFails, StartCommand, CommandSeen, ContextSeen
<1>2. /\ ~ProviderReturns /\ ~Connects /\ ~Handshake /\ ~Authenticates /\ ~StartKeepalive
      /\ ~Install /\ ~StartDockerd /\ ~PortReached
  BY DEF ProviderReturns, Connects, Handshake, Authenticates, StartKeepalive, Install,
     StartDockerd, PortReached, Succeeds
<1>3. CASE Accept \/ ConnectionLost \/ KeepaliveFails \/ DockerdEnds \/ CommandEnds
  BY <1>3 DEF Accept, ConnectionLost, KeepaliveFails, DockerdEnds, CommandEnds
<1>4. CASE Renew \/ LeaseRuns \/ LeaseFails \/ UNCHANGED vars
  BY <1>4 DEF Renew, LeaseRuns, LeaseFails, vars
<1>5. QED
  BY <1>1, <1>2, <1>3, <1>4 DEF Next

LEMMA ProviderStepShape == Shape /\ ProviderStep => Shape'
<1> SUFFICES ASSUME Shape, ProviderStep PROVE InStep("provider", ui')
  BY DEF ProviderStep, vars, Shape
<1>1. InStep("provider", ui)
  BY DEF ProviderStep, Shape
<1>2. ui = InSpawn(1, 1) \/ \E j \in 1..ProviderSteps : ui = InProvider(j)
  BY <1>1 DEF InStep, StepOf
<1>3. CASE ui = InSpawn(1, 1)
  <2>1. ui.handles = <<<<1>>>>
    BY <1>3, Fields DEF InSpawn
  <2>2. ui' = Logged(Started(ui, 1))
    BY <2>1 DEF ProviderStep
  <2>3. 1 \in 1..ProviderSteps /\ ui' = InProvider(1)
    BY <1>3, <2>2, FirstInProvider, StepsAssumption
  <2>4. QED
    BY <2>3 DEF InStep
<1>4. CASE \E j \in 1..ProviderSteps : ui = InProvider(j)
  <2>1. PICK j \in 1..ProviderSteps : ui = InProvider(j)
    BY <1>4
  <2>2. ui.handles = <<<<1>>, <<1, j>>>> /\ ui.current = <<1, j>>
    BY <2>1, Fields DEF InProvider
  <2>3. Last(<<1, j>>) = j
    <3>1. 1 \in Nat /\ j \in Nat
      OBVIOUS
    <3>2. QED
      BY <3>1, Paths
  <2>4. Len(ui.handles) = 2
    BY <2>2
  <2>5. j < ProviderSteps /\ ui' = Logged(Followed(ui))
    BY <2>2, <2>3, <2>4 DEF ProviderStep
  <2>6. j + 1 \in 1..ProviderSteps /\ ui' = InProvider(j + 1)
    BY <2>1, <2>5, NextInProvider, StepsAssumption
  <2>7. QED
    BY <2>6 DEF InStep
<1>5. QED
  BY <1>2, <1>3, <1>4

\* The first line of the step that follows a step of spawn.
LEMMA NextPhase ==
  ASSUME NEW p \in DOMAIN StepOf, NEW q \in DOMAIN StepOf, StepOf[q] = StepOf[p] + 1,
         NEW u, InStep(p, u)
  PROVE  InStep(q, Logged(Followed(u)))
<1>1. u = InSpawn(StepOf[p], ProviderSteps + StepOf[p])
  BY DEF InStep, StepOf
<1>2. PICK k : k = StepOf[p]
  OBVIOUS
<1>3. /\ k \in Nat \ {0} /\ ProviderSteps + k \in Nat
      /\ Header(ProviderSteps + k) = <<k>>
      /\ ProviderSteps + (k + 1) = (ProviderSteps + k) + 1
      /\ Header((ProviderSteps + k) + 1) = <<k + 1>>
  <2>1. StepOf[p] \in 2..6 /\ StepOf[q] \in 2..6
    BY LaterSteps
  <2>2. ProviderSteps + (k + 1) = (ProviderSteps + k) + 1
    BY <1>2, <2>1, StepsAssumption
  <2>3. Header(ProviderSteps + k) = <<k>> /\ Header(ProviderSteps + (k + 1)) = <<k + 1>>
    BY <1>2, LaterSteps
  <2>4. QED
    BY <1>2, <2>1, <2>2, <2>3, StepsAssumption
<1>4. u = View(<<k>>, <<<<k>>>>, <<k>>, ProviderSteps + k)
  BY <1>1, <1>2, <1>3 DEF InSpawn
<1>5. Logged(Followed(u)) = InSpawn(k + 1, (ProviderSteps + k) + 1)
  BY <1>3, <1>4, NextInSpawn
<1>6. QED
  BY <1>2, <1>3, <1>5 DEF InStep

LEMMA EffectShape == Shape /\ Next /\ Effect => Shape'
<1> SUFFICES ASSUME Shape, Next, Effect PROVE Shape'
  OBVIOUS
<1>1. CASE phase = "over"
  <2>1. phase' = "over" /\ result' = result
    BY <1>1, Resting
  <2>2. ui' = ui
    BY <1>1, <2>1 DEF Effect
  <2>3. QED
    BY <1>1, <2>1, <2>2 DEF Shape
<1>2. CASE phase # "over"
  <2>1. InStep(phase, ui)
    BY <1>2 DEF Shape
  <2>2. CASE phase' = phase /\ ui' = ui
    BY <1>2, <2>1, <2>2 DEF Shape
  <2>3. CASE /\ phase = "provider" /\ phase' = "connect"
             /\ ui.current = <<1, ProviderSteps>> /\ ui' = Logged(Followed(Logged(Ended(ui))))
    <3>1. ui # InSpawn(1, 1)
      <4>1. ui.current = <<1, ProviderSteps>> /\ Len(<<1, ProviderSteps>>) = 2
        BY <2>3
      <4>2. InSpawn(1, 1).current = <<1>> /\ Len(<<1>>) = 1
        BY Fields DEF InSpawn
      <4>3. QED
        BY <4>1, <4>2
    <3>2. PICK j \in 1..ProviderSteps : ui = InProvider(j)
      BY <2>1, <2>3, <3>1 DEF InStep, StepOf
    <3>3. ui.current = <<1, j>>
      BY <3>2, Fields DEF InProvider
    <3>4. j = ProviderSteps
      <4>1. <<1, j>> = <<1, ProviderSteps>>
        BY <2>3, <3>3
      <4>2. QED
        BY <4>1
    <3>5. ui' = InSpawn(2, ProviderSteps + 2)
      BY <2>3, <3>2, <3>4, ProviderLeft
    <3>6. "connect" \in DOMAIN StepOf /\ StepOf["connect"] = 2
      BY DEF StepOf
    <3>7. InStep("connect", ui')
      BY <3>5, <3>6 DEF InStep
    <3>8. QED
      BY <2>3, <3>7 DEF Shape
  <2>4. CASE /\ <<phase, phase'>> \in {<<"auth", "otp">>, <<"dockerd", "reached">>}
             /\ ui' = ui
    BY <2>1, <2>4 DEF Shape, InStep, StepOf
  <2>5. CASE /\ <<phase, phase'>> \in {<<"connect", "auth">>, <<"otp", "install">>,
                                      <<"install", "keys">>, <<"keys", "dockerd">>}
             /\ ui' = Logged(Followed(ui))
    <3>1. PICK p, q : p = phase /\ q = phase'
      OBVIOUS
    <3>2. /\ p \in DOMAIN StepOf /\ q \in DOMAIN StepOf /\ StepOf[q] = StepOf[p] + 1
          /\ q # "over"
      BY <2>5, <3>1 DEF StepOf
    <3>3. InStep(q, Logged(Followed(ui)))
      BY <2>1, <3>1, <3>2, NextPhase
    <3>4. QED
      BY <2>5, <3>1, <3>2, <3>3 DEF Shape
  <2>6. CASE phase = "reached" /\ phase' = "serving" /\ ui' = Ended(Logged(ui))
    <3>1. Logged(ui) = ui
      BY <2>1, LineInStep
    <3>2. ui = InSpawn(6, ProviderSteps + 6)
      BY <2>1, <2>6 DEF InStep, StepOf
    <3>3. Ended(InSpawn(6, ProviderSteps + 6)) = Outside(ProviderSteps + 6)
      <4>1. 6 \in Nat
        OBVIOUS
      <4>2. QED
        BY <4>1, EndedInSpawn DEF InSpawn, Outside
    <3>4. InStep("serving", ui')
      BY <2>6, <3>1, <3>2, <3>3 DEF InStep
    <3>5. QED
      BY <2>6, <3>4 DEF Shape
  <2>7. CASE phase' = "over" /\ ui' = IF result' = "killed" THEN ui ELSE Unwound(ui)
    <3>1. CASE result' = "killed"
      <4>1. phase \in Launching \union {"serving"}
        BY <2>1 DEF InStep, StepOf
      <4>2. QED
        BY <2>1, <2>7, <3>1, <4>1 DEF Shape
    <3>2. CASE result' # "killed"
      BY <2>1, <2>7, <3>2, StepDropped DEF Shape
    <3>3. QED
      BY <3>1, <3>2
  <2>8. QED
    BY <2>2, <2>3, <2>4, <2>5, <2>6, <2>7 DEF Effect
<1>3. QED
  BY <1>1, <1>2

LEMMA ShapeStep == Shape /\ [ProgressNext]_allVars => Shape'
<1> SUFFICES ASSUME Shape, [ProgressNext]_allVars PROVE Shape'
  OBVIOUS
<1>1. CASE LogLine
  <2>1. InStep(phase, ui) /\ ui' = Logged(ui)
    BY <1>1 DEF LogLine, Shape
  <2>2. ui' = ui
    BY <2>1, LineInStep
  <2>3. QED
    BY <1>1, <2>2 DEF LogLine, vars, Shape
<1>2. CASE UNCHANGED allVars
  BY <1>2 DEF allVars, vars, Shape
<1>3. QED
  BY <1>1, <1>2, EffectShape, ProviderStepShape DEF ProgressNext

\* The steps, the handles and the headers of each phase, for every provider.
THEOREM ShapeInductive == ProgressSpec => []Shape
  BY ShapeInit, ShapeStep, PTL DEF ProgressSpec

-----------------------------------------------------------------------------
(* What the shape says about handles and headers. *)

LEMMA NestedInStep ==
  ASSUME NEW p, NEW u, InStep(p, u)
  PROVE  /\ ~u.overlap
         /\ u.current = (IF u.handles = <<>> THEN <<>> ELSE Last(u.handles))
<1>1. ASSUME NEW k \in Nat, NEW m, u = InSpawn(k, m)
      PROVE  /\ ~u.overlap
             /\ u.current = (IF u.handles = <<>> THEN <<>> ELSE Last(u.handles))
  <2>1. u.handles = <<<<k>>>> /\ u.current = <<k>> /\ ~u.overlap
    BY <1>1, Fields DEF InSpawn
  <2>2. <<<<k>>>> # <<>> /\ Last(<<<<k>>>>) = <<k>>
    <3>1. <<k>> \in Seq(Nat)
      BY Tuples
    <3>2. QED
      BY <3>1, Paths
  <2>3. QED
    BY <2>1, <2>2
<1>2. CASE \E j \in 1..ProviderSteps : u = InProvider(j)
  <2>1. PICK j \in 1..ProviderSteps : u = InProvider(j)
    BY <1>2
  <2>2. u.handles = <<<<1>>, <<1, j>>>> /\ u.current = <<1, j>> /\ ~u.overlap
    BY <2>1, Fields DEF InProvider
  <2>3. <<<<1>>, <<1, j>>>> # <<>> /\ Last(<<<<1>>, <<1, j>>>>) = <<1, j>>
    <3>1. 1 \in Nat /\ j \in Nat /\ <<1>> \in Seq(Nat) /\ <<1, j>> \in Seq(Nat)
      BY Tuples
    <3>2. QED
      BY <3>1, Paths
  <2>4. QED
    BY <2>2, <2>3
<1>3. CASE u = Outside(ProviderSteps + 6)
  BY <1>3, Fields DEF Outside
<1>4. CASE p \in DOMAIN StepOf /\ u = InSpawn(StepOf[p], ProviderSteps + StepOf[p])
  <2>1. StepOf[p] \in Nat
    BY <1>4, LaterSteps
  <2>2. QED
    BY <1>1, <1>4, <2>1
<1>5. QED
  BY <1>1, <1>2, <1>3, <1>4 DEF InStep

\* For every provider and wherever the run is dropped, the step that ends is
\* the current one, and none is left for the lines after the launch.
THEOREM StepsAlwaysNested == ProgressSpec => []StepsNested
<1>1. Shape /\ TypeOK => StepsNested
  <2> SUFFICES ASSUME Shape, TypeOK PROVE StepsNested
    OBVIOUS
  <2>1. CASE phase # "over"
    <3>1. InStep(phase, ui)
      BY <2>1 DEF Shape
    <3>2. phase = "serving" => ui.current = <<>>
      <4>1. phase = "serving" => ui = Outside(ProviderSteps + 6)
        BY <3>1 DEF InStep, StepOf
      <4>2. QED
        BY <4>1, Fields DEF Outside
    <3>3. result = "none"
      BY <2>1 DEF TypeOK
    <3>4. QED
      BY <3>1, <3>2, <3>3, NestedInStep DEF StepsNested
  <2>2. CASE phase = "over" /\ result = "killed"
    <3>1. \E p : InStep(p, ui)
      BY <2>2 DEF Shape
    <3>2. QED
      BY <2>2, <3>1, NestedInStep DEF StepsNested
  <2>3. CASE phase = "over" /\ result # "killed"
    <3>1. PICK m \in 1..(ProviderSteps + 6) : ui = Outside(m)
      BY <2>3 DEF Shape
    <3>2. ui.handles = <<>> /\ ui.current = <<>> /\ ~ui.overlap
      BY <3>1, Fields DEF Outside
    <3>3. QED
      BY <3>2 DEF StepsNested
  <2>4. QED
    BY <2>1, <2>2, <2>3
<1>2. QED
  BY <1>1, ShapeInductive, ProgressIsSession, TypeCorrect, PTL

LEMMA HeadersApart ==
  ASSUME NEW i \in Nat \ {0}, NEW j \in Nat \ {0}, i < j
  PROVE  Precedes(Header(i), Header(j))
<1>1. CASE i = 1 /\ j <= ProviderSteps + 1
  <2>1. PICK n : n = j - 1
    OBVIOUS
  <2>2. Header(i) = <<1>> /\ Header(j) = <<1, n>>
    BY <1>1, <2>1 DEF Header
  <2>3. DOMAIN <<1>> = {1} /\ DOMAIN <<1, n>> = {1, 2} /\ <<1>>[1] = <<1, n>>[1]
    OBVIOUS
  <2>4. Precedes(<<1>>, <<1, n>>)
    BY <2>3 DEF Precedes
  <2>5. QED
    BY <2>2, <2>4
<1>2. CASE i # 1 /\ j <= ProviderSteps + 1
  <2>1. PICK m, n : m = i - 1 /\ n = j - 1 /\ m \in Nat /\ n \in Nat /\ m < n
    OBVIOUS
  <2>2. Header(i) = <<1, m>> /\ Header(j) = <<1, n>>
    BY <1>2, <2>1, StepsAssumption DEF Header
  <2>3. /\ DOMAIN <<1, m>> = {1, 2} /\ DOMAIN <<1, n>> = {1, 2}
        /\ <<1, m>>[1] = <<1, n>>[1] /\ <<1, m>>[2] < <<1, n>>[2]
    BY <2>1
  <2>4. Precedes(<<1, m>>, <<1, n>>)
    BY <2>3 DEF Precedes
  <2>5. QED
    BY <2>2, <2>4
<1>3. CASE ~(j <= ProviderSteps + 1)
  <2>1. PICK n : n = j - ProviderSteps /\ n \in Nat /\ n > 1
    BY <1>3, StepsAssumption
  <2>2. Header(j) = <<n>> /\ DOMAIN <<n>> = {1} /\ <<n>>[1] = n
    BY <1>3, <2>1, StepsAssumption DEF Header
  <2>3. Header(i)[1] < n
    <3>1. CASE i <= ProviderSteps + 1
      <4>1. Header(i)[1] = 1
        BY <3>1 DEF Header
      <4>2. QED
        BY <2>1, <4>1
    <3>2. CASE ~(i <= ProviderSteps + 1)
      <4>1. Header(i)[1] = i - ProviderSteps
        BY <3>2, StepsAssumption DEF Header
      <4>2. QED
        BY <2>1, <4>1, StepsAssumption
    <3>3. QED
      BY <3>1, <3>2
  <2>4. Precedes(Header(i), <<n>>)
    BY <2>2, <2>3 DEF Precedes
  <2>5. QED
    BY <2>2, <2>4
<1>4. QED
  BY <1>1, <1>2, <1>3

LEMMA ShownInOrder ==
  ASSUME NEW m \in Nat \ {0}
  PROVE  /\ \A i, j \in DOMAIN Shown(m) : i < j => Precedes(Shown(m)[i], Shown(m)[j])
         /\ Last(Shown(m)) = Header(m)
<1>1. DOMAIN Shown(m) = 1..m /\ \A i \in 1..m : Shown(m)[i] = Header(i)
  BY DEF Shown
<1>2. ASSUME NEW i \in 1..m, NEW j \in 1..m, i < j PROVE Precedes(Shown(m)[i], Shown(m)[j])
  <2>1. i \in Nat \ {0} /\ j \in Nat \ {0}
    OBVIOUS
  <2>2. QED
    BY <1>1, <1>2, <2>1, HeadersApart
<1>3. Len(Shown(m)) = m
  BY DEF Shown
<1>4. Last(Shown(m)) = Header(m)
  BY <1>1, <1>3 DEF Last
<1>5. QED
  BY <1>1, <1>2, <1>4

\* For every provider, the header of a step is shown once, in the order of the
\* steps, and between two polls the last one shown is the current step's,
\* however the lines of the tasks mix.
THEOREM HeadersAlwaysOnce == ProgressSpec => []HeadersOnce
<1>1. ASSUME NEW c, NEW h, NEW q, NEW m \in Nat \ {0},
             ui = View(c, h, q, m), c \in {<<>>, Header(m)}
      PROVE  HeadersOnce
  <2>1. ui.headers = Shown(m) /\ ui.current = c
    BY <1>1, Fields
  <2>2. QED
    BY <1>1, <2>1, ShownInOrder DEF HeadersOnce
<1>2. ASSUME NEW p, InStep(p, ui) PROVE HeadersOnce
  <2>1. CASE ui = InSpawn(1, 1)
    BY <1>1, <2>1, Headers DEF InSpawn
  <2>2. CASE \E j \in 1..ProviderSteps : ui = InProvider(j)
    <3>1. PICK j \in 1..ProviderSteps : ui = InProvider(j)
      BY <2>2
    <3>2. j + 1 \in Nat \ {0} /\ Header(j + 1) = <<1, j>>
      BY Headers
    <3>3. QED
      BY <1>1, <3>1, <3>2 DEF InProvider
  <2>3. CASE p \in DOMAIN StepOf /\ ui = InSpawn(StepOf[p], ProviderSteps + StepOf[p])
    <3>1. /\ ProviderSteps + StepOf[p] \in Nat \ {0}
          /\ Header(ProviderSteps + StepOf[p]) = <<StepOf[p]>>
      BY <2>3, LaterSteps, StepsAssumption
    <3>2. QED
      BY <1>1, <2>3, <3>1 DEF InSpawn
  <2>4. CASE ui = Outside(ProviderSteps + 6)
    <3>1. ProviderSteps + 6 \in Nat \ {0}
      BY StepsAssumption
    <3>2. QED
      BY <1>1, <2>4, <3>1 DEF Outside
  <2>5. QED
    BY <1>2, <2>1, <2>2, <2>3, <2>4 DEF InStep
<1>3. ASSUME NEW m \in 1..(ProviderSteps + 6), ui = Outside(m) PROVE HeadersOnce
  <2>1. m \in Nat \ {0}
    BY StepsAssumption
  <2>2. QED
    BY <1>1, <1>3, <2>1 DEF Outside
<1>4. Shape => HeadersOnce
  BY <1>2, <1>3 DEF Shape
<1>5. QED
  BY <1>4, ShapeInductive, PTL
=============================================================================
