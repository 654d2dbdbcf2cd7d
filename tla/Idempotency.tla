---------------------------- MODULE Idempotency ----------------------------
(***************************************************************************)
(* A create route that is safe to retry: requests of one agent with one    *)
(* Idempotency-Key on one path.  The middleware claims the key's row, runs *)
(* the handler, and keeps its answer or releases the key.  Every statement *)
(* on the row is a transaction of its own, and a request may die between   *)
(* any two of them.                                                        *)
(*                                                                         *)
(* Of the clock the row only knows two moments: a claim in flight is stale *)
(* after five minutes, and a row has expired after a day.                  *)
(***************************************************************************)
EXTENDS Integers

CONSTANTS
    Requests, \* authenticated requests with the key
    Bodies,   \* request bodies, told apart by their fingerprints
    Rounds,   \* how often Claim tries, 2 in the code
    None

Ages == {"fresh", "stale", "expired"}
Rows == [hash : Bodies, token : Requests, state : {"in_flight", "done"}, age : Ages]
Refusals == {"reused", "in progress", "unavailable", "server error"}

ASSUME IdempotencyAssumption ==
    /\ Rounds \in Nat \ {0}
    /\ None \notin Requests /\ None \notin Rows /\ Requests \cap Refusals = {}

VARIABLES
    row,       \* the key's row: fingerprint, claim token, state, age, or None
    request,   \* where each request is in the middleware, its body and its round
    reply,     \* what each request was answered: its own answer, another's, a refusal
    wrote,     \* history: requests whose handler committed its write
    ended,     \* history: how the claim of each request ended, if it did
    kept       \* history: requests whose answer was stored

vars == <<row, request, reply, wrote, ended, kept>>

\* Where a request is before its claim, once the handler has run, and at all.
Claiming == {"drop", "insert", "select"}
Outcomes == {"complete", "release", "overflow"}
Places == Claiming \cup {"lost", "run", "answered", "dead"} \cup Outcomes

\* A new claim of a request.
Claimed(r) == [hash |-> request[r].body, token |-> r, state |-> "in_flight", age |-> "fresh"]

\* A request is answered and leaves the middleware.
Reply(r, answer) ==
    /\ request' = [request EXCEPT ![r].pc = "answered"]
    /\ reply' = [reply EXCEPT ![r] = answer]

\* The row goes; its claim has ended for a reason.
DropRow(reason) ==
    /\ row' = None
    /\ ended' = IF row = None THEN ended ELSE [ended EXCEPT ![row.token] = reason]

-----------------------------------------------------------------------------
(* IdempotencyRepo.Claim.                                                   *)

\* Mutant of Droppable: an answer is dropped after five minutes too.
DroppableDone == row # None /\ row.age # "fresh"

\* The row has expired, or it is a claim of a request taken for dead.
Droppable ==
    row # None /\ (row.age = "expired" \/ (row.state = "in_flight" /\ row.age = "stale"))

\* A statement has committed and its request goes on, or is "lost": it sees an error.
GoOn(r, to) == \E pc \in {to, "lost"} : request' = [request EXCEPT ![r].pc = pc]

\* DELETE of an expired or stale row.
DropStale(r) ==
    /\ request[r].pc = "drop"
    /\ IF Droppable THEN DropRow(row.age) ELSE UNCHANGED <<row, ended>>
    /\ GoOn(r, "insert")
    /\ UNCHANGED <<reply, wrote, kept>>

\* INSERT ... ON CONFLICT DO NOTHING: the claim, or the key is held.
Insert(r) ==
    /\ request[r].pc = "insert"
    /\ row' = IF row = None THEN Claimed(r) ELSE row
    /\ GoOn(r, IF row = None THEN "run" ELSE "select")
    /\ UNCHANGED <<reply, wrote, ended, kept>>

\* Mutant of HeldKey: the fingerprint is not compared.
HeldKeyAnyBody(r) == IF row.state = "in_flight" THEN "in progress" ELSE row.token

\* answerHeldKey: the key was used for another body, is in use, or has its answer.
HeldKey(r) ==
    CASE row.hash # request[r].body -> "reused"
      [] row.hash = request[r].body /\ row.state = "in_flight" -> "in progress"
      [] OTHER -> row.token

\* SELECT: the row is answered from, or went in between and the claim is tried again.
Select(r) ==
    /\ request[r].pc = "select"
    /\ \/ /\ row = None /\ request[r].round < Rounds
          /\ request' = [request EXCEPT ![r].pc = "drop", ![r].round = @ + 1]
          /\ UNCHANGED reply
       \/ row = None /\ request[r].round = Rounds /\ Reply(r, "unavailable")
       \/ row # None /\ Reply(r, HeldKey(r))
    /\ UNCHANGED <<row, wrote, ended, kept>>

\* Any of the three statements fails, or has committed and its answer was lost: 503,
\* and a claim made all the same stands until it is stale.
StoreFails(r) ==
    /\ request[r].pc \in Claiming \cup {"lost"}
    /\ Reply(r, "unavailable")
    /\ UNCHANGED <<row, wrote, ended, kept>>

\* purgeExpired, of a request with another key.
PurgeExpired ==
    /\ row # None /\ row.age = "expired"
    /\ DropRow("expired")
    /\ UNCHANGED <<request, reply, wrote, kept>>

-----------------------------------------------------------------------------
(* The handler and what becomes of the claim.                               *)

\* The handler runs.  Its answer is below 500, a refusal included, and is to be kept or
\* overflows the recorder, or it is a server error or a panic; each with or without
\* the write.
Handle(r, writes, outcome) ==
    /\ request[r].pc = "run"
    /\ wrote' = IF writes THEN wrote \cup {r} ELSE wrote
    /\ request' = [request EXCEPT ![r].pc = outcome]
    /\ UNCHANGED <<row, reply, ended, kept>>

Holds(r) == row # None /\ row.token = r /\ row.state = "in_flight"

\* Mutant of Complete: the claim token is not compared.
CompleteAny(r, succeeds) ==
    /\ request[r].pc = "complete"
    /\ LET stored == succeeds /\ row # None
       IN /\ row' = IF stored THEN [row EXCEPT !.state = "done"] ELSE row
          /\ kept' = IF stored THEN kept \cup {r} ELSE kept
    /\ Reply(r, r)
    /\ UNCHANGED <<wrote, ended>>

\* Complete: the answer is stored under the claim, if that still stands and the
\* statement succeeds; the client gets the answer either way.
Complete(r, succeeds) ==
    /\ request[r].pc = "complete"
    /\ LET stored == succeeds /\ Holds(r)
       IN /\ row' = IF stored THEN [row EXCEPT !.state = "done"] ELSE row
          /\ kept' = IF stored THEN kept \cup {r} ELSE kept
    /\ Reply(r, r)
    /\ UNCHANGED <<wrote, ended>>

\* Mutant of Release: whoever holds the key loses it.
ReleaseAny(r, succeeds) ==
    /\ request[r].pc \in {"release", "overflow"}
    /\ IF succeeds THEN row' = None /\ ended' = [ended EXCEPT ![r] = "released"]
                   ELSE UNCHANGED <<row, ended>>
    /\ Reply(r, IF request[r].pc = "overflow" THEN r ELSE "server error")
    /\ UNCHANGED <<wrote, kept>>

\* Release: the claim, if it still stands, is dropped for the retry.  An answer that
\* overflowed has passed through to the client all the same.
Release(r, succeeds) ==
    /\ request[r].pc \in {"release", "overflow"}
    /\ IF succeeds /\ Holds(r) THEN DropRow("released") ELSE UNCHANGED <<row, ended>>
    /\ Reply(r, IF request[r].pc = "overflow" THEN r ELSE "server error")
    /\ UNCHANGED <<wrote, kept>>

\* The process dies with the request.
Die(r) ==
    /\ request[r].pc \in Claiming \cup {"lost", "run"} \cup Outcomes
    /\ request' = [request EXCEPT ![r].pc = "dead"]
    /\ UNCHANGED <<row, reply, wrote, ended, kept>>

\* Time passes: five minutes after the claim, a day after it.
Age ==
    /\ row # None /\ row.age # "expired"
    /\ row' = [row EXCEPT !.age = IF @ = "fresh" THEN "stale" ELSE "expired"]
    /\ UNCHANGED <<request, reply, wrote, ended, kept>>

-----------------------------------------------------------------------------
Init ==
    /\ row = None
    /\ \E body \in [Requests -> Bodies] :
         request = [r \in Requests |-> [pc |-> "drop", body |-> body[r], round |-> 1]]
    /\ reply = [r \in Requests |-> None]
    /\ wrote = {} /\ kept = {}
    /\ ended = [r \in Requests |-> "no"]

Middleware(r) ==
    \/ DropStale(r) \/ Insert(r) \/ Select(r) \/ StoreFails(r) \/ Die(r)
    \/ \E writes \in BOOLEAN, outcome \in Outcomes : Handle(r, writes, outcome)
    \/ \E succeeds \in BOOLEAN : Complete(r, succeeds) \/ Release(r, succeeds)

Next == (\E r \in Requests : Middleware(r)) \/ PurgeExpired \/ Age

Spec == Init /\ [][Next]_vars

-----------------------------------------------------------------------------
(* Properties.                                                              *)

IdemTypeOK ==
    /\ row \in Rows \cup {None}
    /\ request \in [Requests -> [pc : Places, body : Bodies, round : 1 .. Rounds]]
    /\ reply \in [Requests -> Requests \cup Refusals \cup {None}]
    /\ wrote \subseteq Requests /\ kept \subseteq Requests
    /\ ended \in [Requests -> {"no", "released", "stale", "expired"}]

\* A request that went past the claim holds the row, or its claim has ended; one
\* that did not, or does not know it has, has written nothing.
ClaimFirst ==
    \A r \in Requests :
        /\ request[r].pc \in Claiming => ended[r] = "no"
        /\ request[r].pc \in Claiming \cup {"lost"} => r \notin kept
        /\ request[r].pc \in {"run"} \cup Outcomes \/ r \in wrote \/ r \in kept =>
             ended[r] # "no" \/ (row # None /\ row.token = r)
        /\ r \in wrote => request[r].pc \notin Claiming \cup {"lost", "run"}
        /\ ended[r] # "no" => row = None \/ row.token # r

\* The row is of the request whose token it carries, and is done once that
\* request's answer was stored.
RowIsOf ==
    row # None =>
        /\ row.hash = request[row.token].body
        /\ request[row.token].pc \notin Claiming
        /\ row.state = "done" <=> row.token \in kept
        /\ row.state = "done" => request[row.token].pc = "answered"

IdemInv == IdemTypeOK /\ ClaimFirst /\ RowIsOf

\* At most one write for a key, whatever is retried, dies or is slow, except where
\* the code gives that up: of two requests that both wrote, one had released its
\* claim after a server error or an answer too large to keep, had held it for five
\* minutes without an answer, or had been forgotten after a day.
WrittenOnce ==
    \A r, s \in wrote : r # s => ended[r] # "no" \/ ended[s] # "no"

\* A replay is the stored answer of a request with the same body.
ReplayIsTrue ==
    \A r \in Requests : reply[r] \in Requests \ {r} =>
        reply[r] \in kept /\ request[reply[r]].body = request[r].body

\* A stored answer stays for its day: nothing but its expiry takes it away.
AnswerIsKept ==
    [][\A r \in kept : ended'[r] # ended[r] => ended'[r] = "expired"]_vars

Owner == IF row = None THEN None ELSE row.token
BodyOf == [r \in Requests |-> request[r].body]

\* The middleware implements IdempotentKey, the promise of the header: however claims are
\* taken over, released late or outlived, and whatever dies, one request at a time owns
\* the key, only its owner's answer is kept, and nobody is told anything else of it
\* (Claim, answerHeldKey, Complete, Release).
Key == INSTANCE IdempotentKey WITH
    owner <- Owner, told <- reply, body <- BodyOf
KeySpec == Key!Spec

-----------------------------------------------------------------------------
(* What a document says of the code, refuted by it.                         *)

\* "Answers with a status below 500 are kept and replayed" (docs/idempotency.md): whoever
\* got its own answer has not given the key back.
AnsweredKeepsKey == \A r \in Requests : reply[r] = r => ended[r] # "released"
=============================================================================
