----------------------------- MODULE TaskEvents -----------------------------
(***************************************************************************)
(* What the outbox, the stream and the feed together promise of one task's *)
(* transition events: they are committed in order and shown in the feed at *)
(* once; the deliveries are started in the same order; the stream gets     *)
(* only what was started, and a row is marked delivered only for what the  *)
(* stream has; an event leaves the feed only after it has expired, and     *)
(* comes back only as a copy from the stream.  EventDelivery implements    *)
(* this specification.                                                     *)
(***************************************************************************)
EXTENDS Integers

CONSTANT N     \* the transitions of the task are 1 .. N

VARIABLES committed, started, stored, delivered, feed, expired

vars == <<committed, started, stored, delivered, feed, expired>>

Before(e) == 1 .. e - 1

Init ==
    /\ committed = {} /\ started = {} /\ stored = {} /\ delivered = {}
    /\ feed = {} /\ expired = {}

Commit(e) ==
    /\ e \notin committed /\ Before(e) \subseteq committed
    /\ committed' = committed \cup {e}
    /\ feed' = feed \cup {e}
    /\ UNCHANGED <<started, stored, delivered, expired>>

Start(e) ==
    /\ e \in committed /\ Before(e) \subseteq started
    /\ started' = started \cup {e}
    /\ UNCHANGED <<committed, stored, delivered, feed, expired>>

Store(e) ==
    /\ e \in started \ delivered
    /\ stored' = stored \cup {e}
    /\ UNCHANGED <<committed, started, delivered, feed, expired>>

Deliver(e) ==
    /\ e \in stored
    /\ delivered' = delivered \cup {e}
    /\ UNCHANGED <<committed, started, stored, feed, expired>>

Copy(e) ==
    /\ e \in stored
    /\ feed' = feed \cup {e}
    /\ UNCHANGED <<committed, started, stored, delivered, expired>>

Expire(e) ==
    /\ e \in committed
    /\ expired' = expired \cup {e}
    /\ UNCHANGED <<committed, started, stored, delivered, feed>>

Clean ==
    /\ feed' = feed \ expired
    /\ UNCHANGED <<committed, started, stored, delivered, expired>>

Next ==
    \/ \E e \in 1 .. N : Commit(e) \/ Start(e) \/ Store(e) \/ Deliver(e) \/ Copy(e) \/ Expire(e)
    \/ Clean

Spec == Init /\ [][Next]_vars
=============================================================================
