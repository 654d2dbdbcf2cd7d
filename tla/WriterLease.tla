---------------------------- MODULE WriterLease ----------------------------
(***************************************************************************)
(* What the checkout API promises about one card, whoever calls it and     *)
(* however the card moves meanwhile: a lease with a deadline, at most one  *)
(* owner at a time, and a generation that fences each grant off from every *)
(* earlier one.  TaskCheckout implements this specification, and so does   *)
(* each card of RuntimeReservation.                                        *)
(***************************************************************************)
EXTENDS Integers

CONSTANTS
    Owners,   \* whom a lease may be granted to; None is not among them
    Pinned,   \* the owners bound to one worker session
    None

VARIABLES
    owner,       \* who holds the lease, None when nobody does
    generation,  \* the number of leases granted so far
    until,       \* the deadline, None when nobody holds the lease
    now

vars == <<owner, generation, until, now>>

Live == owner # None /\ until > now

Init == owner = None /\ generation = 0 /\ until = None /\ now = 0

\* A lease is granted only over none or an expired one, as a new generation.
Grant ==
    /\ ~Live
    /\ owner' \in Owners /\ generation' = generation + 1 /\ until' > now
    /\ UNCHANGED now

\* The owner's deadline is moved to a later moment than now.  An owner bound to
\* a session gets nothing more once its deadline has passed.
Renew ==
    /\ owner # None /\ (owner \in Pinned => Live)
    /\ UNCHANGED <<owner, generation, now>>
    /\ until' > now

\* The lease ends; its generation is never given out again.
End ==
    /\ owner # None
    /\ owner' = None /\ until' = None
    /\ UNCHANGED <<generation, now>>

Tick == now' = now + 1 /\ UNCHANGED <<owner, generation, until>>

Next == Grant \/ Renew \/ End \/ Tick

Spec == Init /\ [][Next]_vars
=============================================================================
