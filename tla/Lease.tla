-------------------------------- MODULE Lease --------------------------------
(***************************************************************************)
(* What fleeting promises about the machine it rents: once the machine is  *)
(* leased, it is given back when nobody has renewed the lease for more     *)
(* than Grace seconds, never earlier, and it is never idle for more than   *)
(* Limit seconds.  VmLease implements this specification.                  *)
(***************************************************************************)
EXTENDS Naturals

CONSTANTS Grace,  \* a lease renewed within the last Grace seconds is kept
          Limit   \* a lease is never idle for longer than this

VARIABLES state,  \* of the lease
          idle    \* seconds since the lease began or was last renewed

vars == <<state, idle>>

Init == state = "pending" /\ idle = 0

\* The machine is up and its lease starts to run.
Begin == state = "pending" /\ state' = "leased" /\ idle' = 0

\* The machine never came up properly.
Abandon == state = "pending" /\ state' = "expired" /\ idle' = idle

Renew == state = "leased" /\ idle' = 0 /\ state' = state

Elapse == state = "leased" /\ idle < Limit /\ idle' = idle + 1 /\ state' = state

Expire == state = "leased" /\ idle > Grace /\ state' = "expired" /\ idle' = idle

\* The provider takes the machine away.
Lose == state \in {"pending", "leased"} /\ state' = "lost" /\ idle' = idle

Next == Begin \/ Abandon \/ Renew \/ Elapse \/ Expire \/ Lose

Spec == Init /\ [][Next]_vars
=============================================================================
