--------------------------- MODULE VmLeaseProofs ---------------------------
(***************************************************************************)
(* Proofs about VmLease, for all values of its parameters.  One inductive  *)
(* invariant, IInv, carries the three safety invariants and the refinement *)
(* of Lease.                                                               *)
(***************************************************************************)
EXTENDS VmLease, TLAPS

-----------------------------------------------------------------------------
(* The inductive invariant. *)

\* The script publishes the OTP before the keys, and lets in no one earlier.
PublishOrder ==
    /\ script \in {"otp", "keys", "loop"} => "otp" \in files
    /\ "keys" \in files => "otp" \in files
    /\ worker = "otp" => "keys" \in files
    /\ script \in Setup => "keepalive" \notin files

\* Nothing is counted before the loop; in it, the next check comes in time.
AgeBound ==
    /\ script \in Setup => age = 0 /\ nap = 0
    /\ script = "loop" => age + nap <= KeepaliveTimeout + CheckPeriod

\* Nobody has written before the keepalive task runs.
QuietBefore == worker \in {"connect", "otp"} => ~held /\ wire = {}

\* A newline under way was written before the machine was orphaned.
OrphanAge ==
    /\ ~Orphaned => orphan = 0
    /\ \A m \in wire : orphan <= m
    /\ orphan <= age + MaxDelay

\* How old the file may be, given what is under way or written next: the next
\* newline, however slow, arrives before the file has expired.
Rhythm ==
    IF wire = {} THEN age + beat + MaxDelay <= KeepaliveTimeout
    ELSE \E m \in wire : age + MaxDelay <= m + KeepaliveTimeout

Held ==
    Tolerant /\ held /\ worker = "beating" /\ link =>
        \/ script = "loop" /\ Rhythm
        \/ script \in Setup \union {"trap"} /\ "keepalive" \notin files

IInv == TypeOK /\ PublishOrder /\ AgeBound /\ QuietBefore /\ OrphanAge /\ Held

-----------------------------------------------------------------------------
LEMMA InitIInv == Init => IInv
<1> SUFFICES ASSUME Init PROVE IInv
  OBVIOUS
<1>1. TypeOK
  <2>1. files \subseteq {"otp", "keys", "keepalive"} /\ wire \subseteq 0..MaxDelay
    BY Zenon DEF Init
  <2>2. link \in BOOLEAN /\ held \in BOOLEAN
    BY Zenon DEF Init
  <2>3. script \in Setup /\ worker \in {"connect", "otp", "beating", "stopped"}
    BY Zenon DEF Init, Setup
  <2>4. age \in Nat /\ orphan \in Nat
    BY DEF Init
  <2>5. nap \in 0..CheckPeriod /\ beat \in 0..(KeepaliveInterval + MaxLag)
    <3>1. nap = 0 /\ beat = 0
      BY DEF Init
    <3>2. QED
      BY <3>1, ParametersAssumption
  <2>6. QED
    BY <2>1, <2>2, <2>3, <2>4, <2>5 DEF TypeOK
<1>2. PublishOrder /\ QuietBefore /\ Held
  BY DEF Init, PublishOrder, QuietBefore, Held
<1>3. AgeBound
  BY DEF Init, AgeBound, Setup
<1>4. OrphanAge
  BY ParametersAssumption DEF Init, OrphanAge, Orphaned
<1>5. QED
  BY <1>1, <1>2, <1>3, <1>4 DEF IInv

LEMMA StepTypeOK == TypeOK /\ [Next]_vars => TypeOK'
<1> SUFFICES ASSUME TypeOK, [Next]_vars PROVE TypeOK'
  OBVIOUS
<1> USE ParametersAssumption DEF TypeOK, Setup
<1>1. CASE RunSetup
  <2>1. files' \subseteq {"otp", "keys", "keepalive"}
    <3>1. CASE script = "start"
      BY <1>1, <3>1 DEF RunSetup, Writes
    <3>2. CASE script = "otp"
      BY <1>1, <3>2 DEF RunSetup, Writes
    <3>3. CASE script = "keys"
      BY <1>1, <3>3 DEF RunSetup, Writes
    <3>4. QED
      BY <1>1, <3>1, <3>2, <3>3 DEF RunSetup
  <2>2. QED
    BY <1>1, <2>1 DEF RunSetup
<1>2. CASE SetupFails
  BY <1>2 DEF SetupFails, OnExit
<1>3. CASE Check
  BY <1>3 DEF Check, OnExit
<1>4. CASE Shutdown
  BY <1>4 DEF Shutdown
<1>5. CASE HostDies
  BY <1>5 DEF HostDies
<1>6. CASE Cut
  BY <1>6 DEF Cut
<1>7. CASE Authenticate
  BY <1>7 DEF Authenticate
<1>8. CASE StartKeepalive
  BY <1>8 DEF StartKeepalive
<1>9. CASE Beat
  BY <1>9 DEF Beat, Sends
<1>10. CASE Stop
  BY <1>10 DEF Stop
<1>11. CASE Deliver
  BY <1>11 DEF Deliver
<1>12. CASE Tick
  BY <1>12 DEF Tick, Sends
<1>13. CASE UNCHANGED vars
  BY <1>13 DEF vars
<1>14. QED
  BY <1>1, <1>2, <1>3, <1>4, <1>5, <1>6, <1>7,
     <1>8, <1>9, <1>10, <1>11, <1>12, <1>13 DEF Next

LEMMA StepPublishOrder == TypeOK /\ PublishOrder /\ [Next]_vars => PublishOrder'
<1> SUFFICES ASSUME TypeOK, PublishOrder, [Next]_vars PROVE PublishOrder'
  OBVIOUS
<1> USE DEF TypeOK, PublishOrder, Setup
<1>1. CASE RunSetup
  <2>1. CASE script = "start"
    BY <1>1, <2>1 DEF RunSetup, Writes
  <2>2. CASE script = "otp"
    BY <1>1, <2>2 DEF RunSetup, Writes
  <2>3. CASE script = "keys"
    BY <1>1, <2>3 DEF RunSetup, Writes
  <2>4. QED
    BY <1>1, <2>1, <2>2, <2>3 DEF RunSetup
<1>2. CASE SetupFails \/ Check
  BY <1>2 DEF SetupFails, Check, OnExit
<1>3. CASE Shutdown \/ HostDies \/ Cut
  BY <1>3 DEF Shutdown, HostDies, Cut
<1>4. CASE Authenticate \/ StartKeepalive \/ Stop
  BY <1>4 DEF Authenticate, StartKeepalive, Stop
<1>5. CASE Beat \/ Deliver \/ Tick
  BY <1>5 DEF Beat, Deliver, Tick
<1>6. CASE UNCHANGED vars
  BY <1>6 DEF vars
<1>7. QED
  BY <1>1, <1>2, <1>3, <1>4, <1>5, <1>6 DEF Next

LEMMA StepAgeBound == TypeOK /\ AgeBound /\ [Next]_vars => AgeBound'
<1> SUFFICES ASSUME TypeOK, AgeBound, [Next]_vars PROVE AgeBound'
  OBVIOUS
<1> USE ParametersAssumption DEF TypeOK, AgeBound, Setup
<1>1. CASE RunSetup
  BY <1>1 DEF RunSetup
<1>2. CASE SetupFails \/ Check
  BY <1>2 DEF SetupFails, Check, OnExit, Expired
<1>3. CASE Shutdown \/ HostDies \/ Cut
  BY <1>3 DEF Shutdown, HostDies, Cut
<1>4. CASE Authenticate \/ StartKeepalive \/ Stop \/ Beat
  BY <1>4 DEF Authenticate, StartKeepalive, Stop, Beat
<1>5. CASE Deliver
  BY <1>5 DEF Deliver
<1>6. CASE Tick
  BY <1>6 DEF Tick
<1>7. CASE UNCHANGED vars
  BY <1>7 DEF vars
<1>8. QED
  BY <1>1, <1>2, <1>3, <1>4, <1>5, <1>6, <1>7 DEF Next

LEMMA StepQuietBefore == TypeOK /\ QuietBefore /\ [Next]_vars => QuietBefore'
<1> SUFFICES ASSUME TypeOK, QuietBefore, [Next]_vars PROVE QuietBefore'
  OBVIOUS
<1> USE DEF TypeOK, QuietBefore
<1>1. CASE RunSetup \/ SetupFails \/ Check
  BY <1>1 DEF RunSetup, SetupFails, Check
<1>2. CASE Shutdown \/ HostDies \/ Cut
  BY <1>2 DEF Shutdown, HostDies, Cut
<1>3. CASE Authenticate \/ StartKeepalive \/ Stop
  BY <1>3 DEF Authenticate, StartKeepalive, Stop
<1>4. CASE Beat \/ Deliver \/ Tick
  BY <1>4 DEF Beat, Sends, Deliver, Tick
<1>5. CASE UNCHANGED vars
  BY <1>5 DEF vars
<1>6. QED
  BY <1>1, <1>2, <1>3, <1>4, <1>5 DEF Next

LEMMA StepOrphanAge == TypeOK /\ OrphanAge /\ [Next]_vars => OrphanAge'
<1> SUFFICES ASSUME TypeOK, OrphanAge, [Next]_vars PROVE OrphanAge'
  OBVIOUS
<1> USE ParametersAssumption DEF TypeOK, OrphanAge, Orphaned
<1>1. CASE RunSetup
  BY <1>1 DEF RunSetup
<1>2. CASE SetupFails
  BY <1>2 DEF SetupFails
<1>3. CASE Check
  BY <1>3 DEF Check
<1>4. CASE Shutdown
  BY <1>4 DEF Shutdown
<1>5. CASE HostDies
  BY <1>5 DEF HostDies
<1>6. CASE Cut
  BY <1>6 DEF Cut
<1>7. CASE Authenticate
  BY <1>7 DEF Authenticate
<1>8. CASE StartKeepalive
  BY <1>8 DEF StartKeepalive
<1>9. CASE Stop
  BY <1>9 DEF Stop
<1>10. CASE Beat
  BY <1>10 DEF Beat, Sends
<1>11. CASE Deliver
  BY <1>11 DEF Deliver
<1>12. CASE Tick
  BY <1>12 DEF Tick
<1>13. CASE UNCHANGED vars
  BY <1>13 DEF vars
<1>14. QED
  BY <1>1, <1>2, <1>3, <1>4, <1>5, <1>6, <1>7,
     <1>8, <1>9, <1>10, <1>11, <1>12, <1>13 DEF Next

LEMMA StepHeld ==
    TypeOK /\ PublishOrder /\ AgeBound /\ QuietBefore /\ Held /\ [Next]_vars => Held'
<1> SUFFICES ASSUME TypeOK, PublishOrder, AgeBound, QuietBefore, Held, [Next]_vars,
                    Tolerant, held', worker' = "beating", link'
             PROVE  (\/ script = "loop" /\ Rhythm
                     \/ script \in Setup \union {"trap"} /\ "keepalive" \notin files)'
  BY DEF Held, Tolerant
<1> DEFINE NotYet == script \in Setup \union {"trap"} /\ "keepalive" \notin files
<1> USE ParametersAssumption DEF TypeOK, Rhythm
<1>1. CASE RunSetup
  <2>1. NotYet
    BY <1>1 DEF RunSetup, Held, Setup
  <2>2. CASE script = "keys"
    <3>1. script' = "loop" /\ age' = 0 /\ wire' = wire /\ beat' = beat
      BY <1>1, <2>2 DEF RunSetup, AgeBound, Setup
    <3>2. beat + MaxDelay <= KeepaliveTimeout
      BY DEF Tolerant
    <3>3. QED
      BY <3>1, <3>2 DEF Tolerant
  <2>3. CASE script = "start"
    BY <1>1, <2>1, <2>3 DEF RunSetup, Writes, Setup
  <2>4. CASE script = "otp"
    BY <1>1, <2>1, <2>4 DEF RunSetup, Writes, Setup
  <2>5. QED
    BY <1>1, <2>2, <2>3, <2>4 DEF RunSetup, Setup
<1>2. CASE SetupFails
  BY <1>2 DEF SetupFails, OnExit, PublishOrder, Setup
<1>3. CASE Check
  \* The file is young enough: the next newline is due, or the oldest one
  \* under way has not been late.
  <2>1. script = "loop" /\ Rhythm
    BY <1>3 DEF Check, Held, Setup
  <2>2. age <= KeepaliveTimeout
    BY <2>1
  <2>3. QED
    BY <1>3, <2>1, <2>2 DEF Check, Expired
<1>4. CASE Shutdown \/ HostDies \/ Cut \/ Authenticate \/ Stop
  BY <1>4 DEF Shutdown, HostDies, Cut, Authenticate, Stop
<1>5. CASE StartKeepalive
  BY <1>5 DEF StartKeepalive, QuietBefore, PublishOrder
<1>6. CASE Beat
  <2>1. CASE NotYet
    BY <1>6, <2>1 DEF Beat
  <2>2. CASE script = "loop" /\ Rhythm
    <3>1. wire' = wire \union {0} /\ beat = 0 /\ age' = age /\ script' = "loop"
      BY <1>6, <2>2 DEF Beat
    <3>2. CASE wire = {}
      BY <2>2, <3>1, <3>2
    <3>3. CASE wire # {}
      BY <2>2, <3>1, <3>3
    <3>4. QED
      BY <3>2, <3>3
  <2>3. QED
    BY <1>6, <2>1, <2>2 DEF Beat, Sends, Held
<1>7. CASE Deliver
  <2>1. CASE script = "loop"
    <3>1. beat' = beat /\ beat + MaxDelay <= KeepaliveTimeout
      BY <1>7 DEF Deliver, Tolerant
    <3>2. script' = "loop" /\ age' = 0
      BY <1>7, <2>1 DEF Deliver
    <3>3. wire' \subseteq 0..MaxDelay
      BY <1>7 DEF Deliver
    <3>4. CASE wire' = {}
      BY <3>1, <3>2, <3>4
    <3>5. CASE wire' # {}
      <4>1. PICK m : m \in wire'
        BY <3>5, Zenon
      <4>2. age' + MaxDelay <= m + KeepaliveTimeout
        BY <3>2, <3>3, <4>1 DEF Tolerant
      <4>3. QED
        BY <3>2, <3>5, <4>1, <4>2
    <3>6. QED
      BY <3>4, <3>5
  <2>2. CASE script # "loop"
    BY <1>7, <2>2 DEF Deliver, Held
  <2>3. QED
    BY <2>1, <2>2
<1>8. CASE Tick
  <2>1. held /\ worker = "beating" /\ link /\ UNCHANGED <<script, files>>
    BY <1>8 DEF Tick
  <2>2. CASE NotYet
    BY <2>1, <2>2
  <2>3. CASE script = "loop" /\ Rhythm
    <3>1. age' = age + 1 /\ beat' = beat - 1 /\ wire' = {m + 1 : m \in wire}
      BY <1>8, <2>1, <2>3 DEF Tick, Sends
    <3>2. CASE wire = {}
      <4>1. wire' = {}
        BY <3>1, <3>2
      <4>2. QED
        BY <2>1, <2>3, <3>1, <3>2, <4>1
    <3>3. CASE wire # {}
      <4>1. PICK m \in wire : age + MaxDelay <= m + KeepaliveTimeout
        BY <2>3, <3>3
      <4>2. m \in Nat
        BY <4>1
      <4>3. m + 1 \in wire'
        BY Zenon, <3>1, <4>1
      <4>4. age' + MaxDelay <= (m + 1) + KeepaliveTimeout
        BY <3>1, <4>1, <4>2
      <4>5. wire' # {}
        BY <4>3
      <4>6. QED
        BY <2>1, <2>3, <4>3, <4>4, <4>5
    <3>4. QED
      BY <3>2, <3>3
  <2>4. QED
    BY <2>1, <2>2, <2>3 DEF Held
<1>9. CASE UNCHANGED vars
  BY <1>9 DEF vars, Held
<1>10. QED
  BY <1>1, <1>2, <1>3, <1>4, <1>5, <1>6, <1>7, <1>8, <1>9 DEF Next

\* Every step of the protocol preserves the invariant.
LEMMA StepIInv == IInv /\ [Next]_vars => IInv'
  BY StepTypeOK, StepPublishOrder, StepAgeBound, StepQuietBefore,
     StepOrphanAge, StepHeld DEF IInv

\* IInv holds in every reachable state.
THEOREM Inductive == Spec => []IInv
  BY InitIInv, StepIInv, PTL DEF Spec

-----------------------------------------------------------------------------
(* What follows from it. *)

\* Type correctness.
THEOREM TypeCorrect == Spec => []TypeOK
<1>1. IInv => TypeOK
  BY DEF IInv
<1>2. QED
  BY <1>1, Inductive, PTL

\* The OTP a worker reads back has been published before.
THEOREM OtpPublished == Spec => []OtpReadable
<1>1. IInv => OtpReadable
  BY DEF IInv, PublishOrder, OtpReadable
<1>2. QED
  BY <1>1, Inductive, PTL

\* With any parameters for which the rhythm fits the timeout, the script does
\* not give a machine up whose worker keeps it alive.
THEOREM LeaseHeld == Spec => []NoPrematureShutdown
<1>1. IInv => NoPrematureShutdown
  BY DEF IInv, Held, NoPrematureShutdown
<1>2. QED
  BY <1>1, Inductive, PTL

\* An orphaned machine loops for MaxDelay + KeepaliveTimeout + CheckPeriod
\* seconds at most.
THEOREM OrphanCost == Spec => []OrphanBounded
<1>1. IInv => OrphanBounded
  BY ParametersAssumption
  DEF IInv, TypeOK, AgeBound, OrphanAge, OrphanBounded
<1>2. QED
  BY <1>1, Inductive, PTL

-----------------------------------------------------------------------------
(* VmLease implements Lease. *)

LEMMA LeaseInit == Init => L!Init
  BY DEF Init, L!Init, LeaseState, Setup

LEMMA LeaseStep == IInv /\ [Next]_vars => [L!Next]_(L!vars)
<1> SUFFICES ASSUME IInv, [Next]_vars PROVE [L!Next]_(L!vars)
  OBVIOUS
<1> USE ParametersAssumption DEF IInv, TypeOK, AgeBound, Setup, LeaseState, L!vars
<1>1. CASE RunSetup
  BY <1>1 DEF RunSetup, L!Next, L!Begin
<1>2. CASE SetupFails
  BY <1>2 DEF SetupFails, OnExit, L!Next, L!Abandon
<1>3. CASE Check
  BY <1>3 DEF Check, Expired, OnExit, L!Next, L!Expire
<1>4. CASE Shutdown
  BY <1>4 DEF Shutdown
<1>5. CASE HostDies
  BY <1>5 DEF HostDies, L!Next, L!Lose
<1>6. CASE Deliver
  BY <1>6 DEF Deliver, L!Next, L!Renew
<1>7. CASE Tick
  BY <1>7 DEF Tick, L!Next, L!Elapse
<1>8. CASE Authenticate \/ StartKeepalive \/ Beat \/ Stop \/ Cut
  BY <1>8 DEF Authenticate, StartKeepalive, Beat, Stop, Cut
<1>9. CASE UNCHANGED vars
  BY <1>9 DEF vars
<1>10. QED
  BY <1>1, <1>2, <1>3, <1>4, <1>5, <1>6, <1>7, <1>8, <1>9 DEF Next

\* Every behaviour of the script, the worker and the connection is a lease
\* that is never revoked early and never overstays.
THEOREM Implementation == Spec => ImplementsLease
  BY LeaseInit, LeaseStep, Inductive, PTL DEF Spec, ImplementsLease, L!Spec
=============================================================================
