--------------------------- MODULE IdempotentKey ---------------------------
(***************************************************************************)
(* What the Idempotency-Key header promises on a create route: one request *)
(* at a time owns the key, an answer can be kept only by its owner and is  *)
(* forgotten only when it expires, and whoever repeats the request is told *)
(* how the key stands at that moment.                                      *)
(***************************************************************************)
CONSTANTS Requests, Bodies, None

VARIABLES
    owner,  \* the request that owns the key, or None
    kept,   \* the requests whose answer was kept
    ended,  \* how each request lost the key: "no", "released", "stale", "expired"
    wrote,  \* the requests that took effect
    told,   \* what each request was answered, or None
    body    \* what each request asks for

vars == <<owner, kept, ended, wrote, told, body>>

\* It owns the key or once did.
Admitted(r) == owner = r \/ ended[r] # "no"

\* What a request may be told now: its own outcome if it was admitted, or, as long as it
\* had no effect, that nothing is known; else the owner's kept answer, if it asks for the
\* same, or the reason why there is none.
Truth(r) ==
    IF Admitted(r) THEN {r, "server error"} \cup (IF r \in wrote THEN {} ELSE {"unavailable"})
    ELSE {"unavailable"} \cup
         (IF owner = None THEN {}
          ELSE IF body[owner] # body[r] THEN {"reused"}
          ELSE IF owner \in kept THEN {owner} ELSE {"in progress"})

Init ==
    /\ owner = None
    /\ kept = {} /\ wrote = {}
    /\ ended = [r \in Requests |-> "no"]
    /\ told = [r \in Requests |-> None]
    /\ body \in [Requests -> Bodies]

Claim(r) ==
    /\ owner = None /\ ~Admitted(r) /\ told[r] = None
    /\ owner' = r
    /\ UNCHANGED <<kept, ended, wrote, told, body>>

\* An admitted request takes effect once, at any time before it is answered.
TakeEffect(r) ==
    /\ Admitted(r) /\ told[r] = None /\ r \notin wrote
    /\ wrote' = wrote \cup {r}
    /\ UNCHANGED <<owner, kept, ended, told, body>>

Tell(r) ==
    /\ told[r] = None
    /\ \E answer \in Truth(r) : told' = [told EXCEPT ![r] = answer]
    /\ UNCHANGED <<owner, kept, ended, wrote, body>>

\* The owner's own answer is kept for those who repeat the request.
Keep(r) ==
    /\ owner = r /\ told[r] = None
    /\ told' = [told EXCEPT ![r] = r]
    /\ kept' = kept \cup {r}
    /\ UNCHANGED <<owner, ended, wrote, body>>

\* The owner gives the key back, after a server error or with an answer that is not kept.
GiveBack(r) ==
    /\ owner = r /\ told[r] = None
    /\ \E outcome \in {r, "server error"} : told' = [told EXCEPT ![r] = outcome]
    /\ owner' = None
    /\ ended' = [ended EXCEPT ![r] = "released"]
    /\ UNCHANGED <<kept, wrote, body>>

\* The key is taken from its owner: given up for dead, or forgotten after a day.
Forget(r) ==
    /\ owner = r
    /\ owner' = None
    /\ \E reason \in IF r \in kept THEN {"expired"} ELSE {"stale", "expired"} :
           ended' = [ended EXCEPT ![r] = reason]
    /\ UNCHANGED <<kept, wrote, told, body>>

Next == \E r \in Requests :
    Claim(r) \/ TakeEffect(r) \/ Tell(r) \/ Keep(r) \/ GiveBack(r) \/ Forget(r)

Spec == Init /\ [][Next]_vars
=============================================================================
