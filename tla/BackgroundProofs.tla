-------------------------- MODULE BackgroundProofs --------------------------
(***************************************************************************)
(* Proofs about Background: the safety properties of its passing run, by   *)
(* one inductive invariant.                                                *)
(***************************************************************************)
EXTENDS Background, TLAPS

\* A pipe of the worker is closed by the end of its process and nothing else.
EndsKept == ends # Pipes => Gone

\* A worker that was killed is gone.
KilledGone == killed => Gone

\* A worker serves what it has announced, for a machine that was granted.
Served ==
    /\ worker \in {"sanity", "serving"} => announced
    /\ context = "made" => Granted

IInv == TypeOK /\ EndsKept /\ KilledGone /\ Served /\ ContextOwned /\ FailureTruthful

-----------------------------------------------------------------------------
LEMMA InitIInv == Init => IInv
<1> SUFFICES ASSUME Init PROVE IInv
  OBVIOUS
<1>1. TypeOK
  <2>1. ends \subseteq Pipes /\ ends # {}
    BY Zenon DEF Init, Pipes
  <2>2. /\ signalled \in BOOLEAN /\ listed \in BOOLEAN /\ announced \in BOOLEAN
        /\ healthy \in BOOLEAN /\ killed \in BOOLEAN /\ watched \in BOOLEAN
    BY Zenon DEF Init
  <2>3. 0 \in 0..Limit
    BY LeaseAssumption
  <2>4. QED
    BY <2>1, <2>2, <2>3 DEF Init, TypeOK
<1>2. EndsKept /\ KilledGone /\ Served /\ ContextOwned /\ FailureTruthful
  BY DEF Init, EndsKept, KilledGone, Served, ContextOwned, FailureTruthful
<1>3. QED
  BY <1>1, <1>2 DEF IInv

LEMMA StepTypeOK == TypeOK /\ [Next]_vars => TypeOK'
<1> SUFFICES ASSUME TypeOK, [Next]_vars PROVE TypeOK'
  OBVIOUS
<1> USE DEF TypeOK, launcherVars, workerVars, leaseVars, WorkerMoves, OnReturn, Exits
<1>1. CASE SendArgs
  BY <1>1 DEF SendArgs
<1>2. CASE SendFails
  BY <1>2 DEF SendFails
<1>3. CASE PollLogs
  BY <1>3 DEF PollLogs
<1>4. CASE PollReady
  BY <1>4 DEF PollReady
<1>5. CASE SignalLauncher \/ KillLauncher
  <2>1. signalled' \in BOOLEAN
    BY <1>5, Zenon DEF SignalLauncher, KillLauncher
  <2>2. launcher' = "over" /\ exit' \in {"failure", "killed"} /\ stdin' \in {"open", "sent", "closed"}
    BY <1>5 DEF SignalLauncher, KillLauncher, Quits
  <2>3. UNCHANGED <<listed, worker, ends, announced, healthy, context, killed, watched, leaseVars>>
    BY <1>5 DEF SignalLauncher, KillLauncher, Quits
  <2>4. QED
    BY <2>1, <2>2, <2>3
<1>6. CASE Reap
  <2>1. listed' \in BOOLEAN /\ launcher' = "over"
    BY <1>6, Zenon DEF Reap
  <2>2. UNCHANGED <<launcher, exit, signalled, stdin, worker, ends, announced, healthy,
                    context, killed, watched, leaseVars>>
    BY <1>6 DEF Reap
  <2>3. QED
    BY <2>1, <2>2
<1>7. CASE StartWorker
  BY <1>7 DEF StartWorker
<1>8. CASE ReadArgs
  BY <1>8 DEF ReadArgs
<1>9. CASE AbortLaunch
  BY <1>9 DEF AbortLaunch
<1>10. CASE Announce
  <2>1. announced' \in BOOLEAN /\ worker' \in {"sanity", "leaving"}
    BY <1>10 DEF Announce
  <2>2. UNCHANGED <<launcher, exit, signalled, listed, stdin, ends, healthy, context,
                    killed, watched, leaseVars>>
    BY <1>10 DEF Announce
  <2>3. worker # "over"
    BY <1>10 DEF Announce
  <2>4. QED
    BY <2>1, <2>2, <2>3
<1>11. CASE LauncherSeen
  BY <1>11 DEF LauncherSeen
<1>12. CASE StopServing
  BY <1>12 DEF StopServing
<1>13. CASE Unblock
  BY <1>13 DEF Unblock
<1>14. CASE DropContext
  BY <1>14 DEF DropContext, Removal
<1>15. CASE CloseEnd
  <2>1. ends' \subseteq Pipes
    BY <1>15 DEF CloseEnd
  <2>2. worker' \in {"exiting", "over"} /\ (ends' = {} <=> worker' = "over")
    BY <1>15 DEF CloseEnd
  <2>3. UNCHANGED <<launcher, exit, signalled, listed, stdin, announced, healthy,
                    context, killed, watched, leaseVars>>
    BY <1>15 DEF CloseEnd
  <2>4. QED
    BY <2>1, <2>2, <2>3
<1>16. CASE SpawnReady
  BY <1>16 DEF SpawnReady
<1>17. CASE SpawnFails \/ CreationFails
  BY <1>17 DEF SpawnFails, CreationFails
<1>18. CASE Terminate
  BY <1>18 DEF Terminate
<1>19. CASE KillWorker
  BY <1>19 DEF KillWorker
<1>20. CASE WatchedExits
  <2>1. watched' \in BOOLEAN
    BY <1>20, Zenon DEF WatchedExits
  <2>2. UNCHANGED <<launcher, exit, signalled, listed, stdin, worker, ends, announced,
                    healthy, context, killed, leaseVars>>
    BY <1>20 DEF WatchedExits
  <2>3. QED
    BY <2>1, <2>2
<1>21. CASE ContextFails
  <2>1. healthy' \in BOOLEAN
    BY <1>21, Zenon DEF ContextFails
  <2>2. UNCHANGED <<launcher, exit, signalled, listed, stdin, worker, ends, announced,
                    context, killed, watched, leaseVars>>
    BY <1>21 DEF ContextFails
  <2>3. QED
    BY <2>1, <2>2
<1>22. CASE Ask \/ Accept
  BY <1>22, LeaseAssumption DEF Ask, Accept
<1>23. CASE Renew \/ LeaseRuns \/ LeaseFails
  <2>1. idle' \in 0..Limit
    BY <1>23, LeaseAssumption
    DEF Renew, LeaseRuns, LeaseFails, PowersOff,
        L!Renew, L!Begin, L!Elapse, L!Expire, L!Abandon, L!Lose
  <2>2. machine' \in {"none", "asked", "pending", "leased", "expired", "lost", "off"}
    BY <1>23
    DEF Renew, LeaseRuns, LeaseFails, PowersOff,
        L!Renew, L!Begin, L!Elapse, L!Expire, L!Abandon, L!Lose
  <2>3. QED
    BY <1>23, <2>1, <2>2 DEF Renew, LeaseRuns, LeaseFails
<1>24. CASE UNCHANGED vars
  BY <1>24 DEF vars
<1>25. QED
  BY <1>1, <1>2, <1>3, <1>4, <1>5, <1>6, <1>7, <1>8, <1>9, <1>10, <1>11,
     <1>12, <1>13, <1>14, <1>15, <1>16, <1>17, <1>18, <1>19, <1>20, <1>21,
     <1>22, <1>23, <1>24 DEF Next, LauncherStep, WorkerStep

LEMMA StepRest ==
    IInv /\ [Next]_vars =>
        EndsKept' /\ KilledGone' /\ Served' /\ ContextOwned' /\ FailureTruthful'
<1> SUFFICES ASSUME IInv, [Next]_vars
             PROVE  EndsKept' /\ KilledGone' /\ Served' /\ ContextOwned' /\ FailureTruthful'
  OBVIOUS
<1> USE DEF IInv, TypeOK, EndsKept, KilledGone, Served, ContextOwned, FailureTruthful, Gone,
            Holds, Granted
<1> USE DEF launcherVars, workerVars, leaseVars, WorkerMoves, OnReturn, Exits
<1>1. CASE SendArgs
  BY <1>1 DEF SendArgs
<1>2. CASE SendFails
  \* The read end of stdin is closed, so the worker is gone.
  <2>1. Gone /\ (context = "made" => killed)
    BY <1>2 DEF SendFails, Pipes
  <2>2. QED
    BY <1>2, <2>1 DEF SendFails
<1>3. CASE PollLogs
  <2>1. LogsFinished => Gone /\ (context = "made" => killed)
    BY DEF LogsFinished, Pipes
  <2>2. QED
    BY <1>3, <2>1 DEF PollLogs
<1>4. CASE PollReady
  BY <1>4 DEF PollReady
<1>5. CASE SignalLauncher \/ KillLauncher
  BY <1>5 DEF SignalLauncher, KillLauncher, Quits
<1>6. CASE Reap
  BY <1>6 DEF Reap
<1>7. CASE StartWorker
  BY <1>7 DEF StartWorker
<1>8. CASE ReadArgs
  BY <1>8 DEF ReadArgs
<1>9. CASE AbortLaunch
  BY <1>9 DEF AbortLaunch
<1>10. CASE Announce
  BY <1>10 DEF Announce
<1>11. CASE LauncherSeen
  BY <1>11 DEF LauncherSeen
<1>12. CASE StopServing
  BY <1>12 DEF StopServing
<1>13. CASE Unblock
  BY <1>13 DEF Unblock
<1>14. CASE DropContext
  BY <1>14 DEF DropContext, Removal
<1>15. CASE CloseEnd
  BY <1>15 DEF CloseEnd
<1>16. CASE SpawnReady
  BY <1>16 DEF SpawnReady
<1>17. CASE SpawnFails \/ CreationFails
  BY <1>17 DEF SpawnFails, CreationFails
<1>18. CASE Terminate
  BY <1>18 DEF Terminate
<1>19. CASE KillWorker
  BY <1>19 DEF KillWorker
<1>20. CASE WatchedExits
  BY <1>20 DEF WatchedExits
<1>21. CASE ContextFails
  BY <1>21 DEF ContextFails
<1>22. CASE Ask \/ Accept \/ Renew \/ LeaseRuns \/ LeaseFails
  <2>1. /\ Granted => Granted'
        /\ UNCHANGED <<launcherVars, workerVars>>
    BY <1>22 DEF Ask, Accept, Renew, LeaseRuns, LeaseFails, PowersOff,
       L!Renew, L!Begin, L!Elapse, L!Expire, L!Abandon, L!Lose
  <2>2. QED
    BY <2>1
<1>23. CASE UNCHANGED vars
  BY <1>23 DEF vars
<1>24. QED
  BY <1>1, <1>2, <1>3, <1>4, <1>5, <1>6, <1>7, <1>8, <1>9, <1>10, <1>11,
     <1>12, <1>13, <1>14, <1>15, <1>16, <1>17, <1>18, <1>19, <1>20, <1>21,
     <1>22, <1>23 DEF Next, LauncherStep, WorkerStep

\* IInv holds in every reachable state.
THEOREM Inductive == Spec => []IInv
<1>1. IInv /\ [Next]_vars => IInv'
  BY StepTypeOK, StepRest DEF IInv
<1>2. QED
  BY InitIInv, <1>1, PTL DEF Spec

\* Type correctness.
THEOREM TypeCorrect == Spec => []TypeOK
<1>1. IInv => TypeOK
  BY DEF IInv
<1>2. QED
  BY <1>1, Inductive, PTL

\* No way out of the worker but SIGKILL skips the removal of its Docker context,
\* and no worker goes on with what a failed creation or removal has left.
THEOREM ContextRemoved == Spec => []ContextOwned
<1>1. IInv => ContextOwned
  BY DEF IInv
<1>2. QED
  BY <1>1, Inductive, PTL

\* A launcher that reports failure leaves no worker that could still serve,
\* unless a signal made it report failure: then only one that had announced.
THEOREM FailureMeansGone == Spec => []FailureTruthful
<1>1. IInv => FailureTruthful
  BY DEF IInv
<1>2. QED
  BY <1>1, Inductive, PTL

-----------------------------------------------------------------------------
(* Background implements Service. *)

\* Every step of the two processes and the machine is one of the service, or
\* none: the launcher and the watched process are no part of it.
LEMMA ServiceStep == IInv /\ [Next]_vars => [S!Next]_(S!vars)
<1> SUFFICES ASSUME IInv, [Next]_vars PROVE [S!Next]_(S!vars)
  OBVIOUS
<1> USE DEF Gone, Answers, MachineOver, S!vars
<1> USE DEF launcherVars, workerVars, leaseVars, WorkerMoves, OnReturn
<1>1. CASE LauncherStep \/ SignalLauncher \/ KillLauncher \/ Reap
  BY <1>1 DEF LauncherStep, SendArgs, SendFails, PollLogs, PollReady, SignalLauncher,
              KillLauncher, Quits, Reap
<1>2. CASE StartWorker \/ ReadArgs \/ AbortLaunch \/ SpawnFails
  BY <1>2 DEF StartWorker, ReadArgs, AbortLaunch, SpawnFails
<1>3. CASE Announce \/ LauncherSeen \/ StopServing \/ Unblock \/ Terminate
  BY <1>3 DEF Announce, LauncherSeen, StopServing, Unblock, Terminate
<1>4. CASE DropContext
  <2>1. ~killed
    BY <1>4 DEF DropContext, IInv, KilledGone
  <2>2. /\ worker = "leaving" /\ worker' = "exiting" /\ UNCHANGED <<killed, machine>>
        /\ \/ context' = IF context = "made" THEN "none" ELSE context
           \/ context = "made" /\ context' = "left"
    BY <1>4 DEF DropContext, Removal
  <2>3. context = "made" => S!Granted
    BY DEF IInv, Served, TypeOK, Granted, S!Granted
  <2>4. S!End
    BY <2>1, <2>2, <2>3 DEF S!End
  <2>5. QED
    BY <2>4 DEF S!Next
<1>5. CASE KillWorker
  BY <1>5 DEF KillWorker, S!Next, S!Kill
<1>6. CASE CloseEnd
  <2>1. worker = "exiting" /\ worker' \in {"exiting", "over"}
    BY <1>6 DEF CloseEnd
  <2>2. UNCHANGED <<machine, context, killed>>
    BY <1>6 DEF CloseEnd
  <2>3. QED
    BY <2>1, <2>2
<1>7. CASE SpawnReady \/ CreationFails
  <2>1. context = "none"
    BY <1>7 DEF SpawnReady, CreationFails, IInv, TypeOK, ContextOwned, Holds, KilledGone
  <2>2. S!Granted /\ context' \in {"made", "left"} /\ ~Gone /\ ~Gone' /\ machine' = machine
    BY <1>7 DEF SpawnReady, CreationFails, S!Granted, Granted, IInv, TypeOK
  <2>3. S!Serve
    BY <1>7, <2>1, <2>2 DEF S!Serve
  <2>4. QED
    BY <2>3 DEF S!Next
<1>8. CASE Ask
  BY <1>8 DEF Ask, S!Next, S!Ask
<1>9. CASE Accept
  BY <1>9 DEF Accept, S!Next, S!Grant
<1>10. CASE Renew \/ LeaseRuns \/ LeaseFails
  <2>1. \/ machine' = machine
        \/ Answers /\ machine' \in {"leased", "expired", "lost", "off"}
    BY <1>10 DEF Renew, LeaseRuns, LeaseFails, PowersOff,
       L!Renew, L!Begin, L!Elapse, L!Expire, L!Abandon, L!Lose
  <2>2. UNCHANGED <<worker, killed, context>>
    BY <1>10 DEF Renew, LeaseRuns, LeaseFails
  <2>3. QED
    BY <2>1, <2>2 DEF S!Next, S!Release
<1>11. CASE WatchedExits \/ ContextFails
  BY <1>11 DEF WatchedExits, ContextFails
<1>12. CASE UNCHANGED vars
  BY <1>12 DEF vars
<1>13. QED
  BY <1>1, <1>2, <1>3, <1>4, <1>5, <1>6, <1>7, <1>8, <1>9, <1>10, <1>11, <1>12
  DEF Next, WorkerStep

\* The worker of a background launch is the service that fleeting promises:
\* a machine and a context for the life of one process.
THEOREM Implementation == Spec => ImplementsService
<1>1. Init => S!Init
  BY DEF Init, S!Init, Gone, Answers, MachineOver
<1>2. QED
  BY <1>1, ServiceStep, Inductive, PTL DEF Spec, ImplementsService, S!Spec
=============================================================================
