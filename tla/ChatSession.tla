--------------------------- MODULE ChatSession ----------------------------
(***************************************************************************)
(* The chat-session bearers (cst_) of a thread, composed with its turns.   *)
(* A session is a turn.  A bearer is asked for in one transaction (the     *)
(* turn's state, or the latest bearer, is checked) and minted in another,  *)
(* with anything in between: Stop, a final event, a late renewal, a        *)
(* delete.  `asks` holds the requests that passed their check and have not *)
(* been minted yet.                                                        *)
(*                                                                         *)
(* Issue, Stop and revoke of one session are serialised by an advisory     *)
(* lock and are one step each.  issued_at is read before that lock, so two *)
(* bearers may be minted in the order opposite to it, and the latest by    *)
(* issued_at need not be the last minted: a bearer may come out older than *)
(* the latest one exactly if that one was minted while its own request was *)
(* under way (overtaken).  Of the clock the model keeps besides whether    *)
(* expires_at has passed and whether a superseded bearer is still inside   *)
(* its overlap.  Whether user and agent are still entitled (checkLive) is  *)
(* external: a request may always be dropped.                              *)
(***************************************************************************)
EXTENDS ChatTurn

CONSTANTS
    Controllers,   \* runners whose host controller uses the internal session API
    Bearers,       \* bearers that may exist at once
    NoBearer

ASSUME SessionAssumption ==
    /\ Controllers \subseteq Runners
    /\ NoBearer \notin Bearers \cup Messages

VARIABLES
    tokens,     \* chat_session_tokens; NoToken: no such row
    latest,     \* the bearer of each session with the latest issued_at
    stops,      \* chat_session_stops: the sessions that ended for good
    asks        \* [Runners -> set of requests between their check and Issue]

sessionVars == <<tokens, latest, stops, asks>>
allVars == <<vars, sessionVars>>

\* revoked: "no", "overlap" (revoked_at ahead), "superseded", "stop".
Token ==
    [session: Messages, runner: Runners, epoch: Nat,
     revoked: {"no", "overlap", "superseded", "stop"}, expired: BOOLEAN]
NoToken == [session |-> NoBearer]

\* overtaken: the latest bearer of the session was minted after this request's check.
Ask == [session: Messages, epoch: Nat, overtaken: BOOLEAN]

\* IsUsable: all that Authenticate asks of the row itself.
Usable(t) == ~t.expired /\ t.revoked \in {"no", "overlap"}

Minted == {b \in Bearers : tokens[b] # NoToken}
OfSession(m) == {b \in Minted : tokens[b].session = m}

SessionInit ==
    /\ Init
    /\ tokens = [b \in Bearers |-> NoToken]
    /\ latest = [m \in Messages |-> NoBearer]
    /\ stops = {}
    /\ asks = [r \in Runners |-> {}]

---------------------------------------------------------------------------
(* Asking for a bearer. *)

\* Only one request of a runner for a session is in flight.
Asks(r, m, e) ==
    /\ \A a \in asks[r] : a.session # m
    /\ asks' = [asks EXCEPT ![r] = @ \cup {[session |-> m, epoch |-> e, overtaken |-> FALSE]}]
    /\ UNCHANGED <<vars, tokens, latest, stops>>

\* The runner's own request: holder, started, lease alive, not stopped, epoch current.
SessionContext(r, m) ==
    /\ Holds(r, m)
    /\ turns[m].state = "streaming"
    /\ turns[m].lease = "live"
    /\ ~turns[m].cancel
    /\ ~deleted
    /\ Asks(r, m, turns[m].epoch)

\* The controller's request for the first bearer: any epoch the turn has had.
IssueRequest(r, m) ==
    /\ r \in Controllers
    /\ turns[m].attempt > 0
    /\ \E e \in 1..turns[m].epoch : Asks(r, m, e)

\* The controller's renewal: the latest bearer is this execution's and has not been stopped.
RenewRequest(r, m) ==
    /\ r \in Controllers
    /\ latest[m] # NoBearer
    /\ tokens[latest[m]].revoked # "stop"
    /\ tokens[latest[m]].runner = r
    /\ Asks(r, m, tokens[latest[m]].epoch)

DropAsk(r) ==
    \E a \in asks[r] :
        /\ asks' = [asks EXCEPT ![r] = @ \ {a}]
        /\ UNCHANGED <<vars, tokens, latest, stops>>

---------------------------------------------------------------------------
(* Minting, under the session's lock. *)

\* Mutant of Admitted: the stop is looked for in the bearers only.
AdmittedByTokens(r, a) ==
    /\ \A b \in OfSession(a.session) : tokens[b].epoch <= a.epoch
    /\ latest[a.session] # NoBearer =>
          LET last == tokens[latest[a.session]]
          IN  last.revoked # "stop" /\ (last.epoch = a.epoch => last.runner = r)

\* Not stopped, no newer epoch seen, and not the epoch of the latest bearer under another
\* runner.
Admitted(r, a) ==
    /\ a.session \notin stops
    /\ \A b \in OfSession(a.session) : tokens[b].epoch <= a.epoch
    /\ latest[a.session] # NoBearer =>
          LET last == tokens[latest[a.session]]
          IN  last.revoked # "stop" /\ (last.epoch = a.epoch => last.runner = r)

\* Mutant of Superseded: an older execution gets the overlap, too.
SupersededLater(t, a) ==
    IF t = NoToken \/ t.session # a.session \/ ~Usable(t) THEN t
    ELSE [t EXCEPT !.revoked = "overlap"]

\* An older execution is cut off at once, the own previous bearer after the overlap.
Superseded(t, a) ==
    IF t = NoToken \/ t.session # a.session \/ ~Usable(t) THEN t
    ELSE [t EXCEPT !.revoked = IF t.epoch < a.epoch THEN "superseded" ELSE "overlap"]

\* The requests that are still under way when a bearer becomes the latest of session m.
Overtaken(as, m) ==
    {[a EXCEPT !.overtaken = @ \/ a.session = m] : a \in as}

\* newest: the bearer's issued_at is the latest of its session.
Issue(r) ==
    \E a \in asks[r], b \in Bearers \ Minted, newest \in BOOLEAN :
        /\ Admitted(r, a)
        /\ newest \/ (a.overtaken /\ latest[a.session] # NoBearer)
        /\ tokens' = [c \in Bearers |->
                         IF c = b THEN [session |-> a.session, runner |-> r, epoch |-> a.epoch,
                                        revoked |-> "no", expired |-> FALSE]
                         ELSE Superseded(tokens[c], a)]
        /\ LET left == [asks EXCEPT ![r] = @ \ {a}]
           IN  IF newest
               THEN /\ latest' = [latest EXCEPT ![a.session] = b]
                    /\ asks' = [q \in Runners |-> Overtaken(left[q], a.session)]
               ELSE latest' = latest /\ asks' = left
        /\ UNCHANGED <<vars, stops>>

---------------------------------------------------------------------------
(* Ending sessions. *)

\* Stopping also pulls forward a pending supersede.
Revoked(t) ==
    IF t # NoToken /\ t.revoked \in {"no", "overlap"} THEN [t EXCEPT !.revoked = "stop"] ELSE t

RevokeSession(m) ==
    /\ turns[m].state # "none"
    /\ tokens' = [b \in Bearers |-> IF b \in OfSession(m) THEN Revoked(tokens[b]) ELSE tokens[b]]
    /\ stops' = stops \cup {m}
    /\ UNCHANGED <<vars, latest, asks>>

\* Mutant of RevokeThreadSessions: only sessions that already have a bearer are stopped.
RevokeThreadTokens ==
    /\ stops' = stops \cup {tokens[b].session : b \in Minted}
    /\ tokens' = [b \in Bearers |-> Revoked(tokens[b])]

\* The live turns are stopped as well as the sessions that have a bearer.
RevokeThreadSessions ==
    /\ stops' = stops \cup {m \in Messages : turns[m].state \in {"claimed", "streaming"}}
                      \cup {tokens[b].session : b \in Minted}
    /\ tokens' = [b \in Bearers |-> Revoked(tokens[b])]

\* Stop ends the thread's bearers, whatever state the stopped turn is in.
Stop(m) ==
    /\ StopTurn(m)
    /\ RevokeThreadSessions
    /\ UNCHANGED <<latest, asks>>

---------------------------------------------------------------------------
(* The clock.  Bearers live equally long, so the latest of a session        *)
(* expires, and is deleted, last.                                           *)

TokenExpires(b) ==
    /\ b \in Minted /\ ~tokens[b].expired
    /\ b = latest[tokens[b].session] =>
          \A c \in OfSession(tokens[b].session) \ {b} : tokens[c].expired
    /\ tokens' = [tokens EXCEPT ![b].expired = TRUE]
    /\ UNCHANGED <<vars, latest, stops, asks>>

OverlapEnds(b) ==
    /\ b \in Minted /\ tokens[b].revoked = "overlap"
    /\ tokens' = [tokens EXCEPT ![b].revoked = "superseded"]
    /\ UNCHANGED <<vars, latest, stops, asks>>

\* The bearers that expired a day ago are deleted; the stops stay.
PurgeExpired ==
    \E gone \in SUBSET {b \in Minted : tokens[b].expired} :
        /\ gone # {}
        /\ \A m \in Messages : latest[m] \in gone => OfSession(m) \subseteq gone
        /\ tokens' = [b \in Bearers |-> IF b \in gone THEN NoToken ELSE tokens[b]]
        /\ latest' = [m \in Messages |-> IF latest[m] \in gone THEN NoBearer ELSE latest[m]]
        /\ UNCHANGED <<vars, stops, asks>>

---------------------------------------------------------------------------
\* Everything else that happens to the thread leaves sessions alone.
TurnsOnly ==
    /\ \/ \E m \in Messages : SendMessage(m) \/ ExpireQueued(m) \/ LeaseLapses(m) \/ Waits(m)
       \/ \E s \in Settings : ChangeSetting(s)
       \/ SoftDeleteThread \/ ExpireHistory
       \/ \E r \in Runners : RunnerNext(r)
    /\ UNCHANGED sessionVars

SessionNext ==
    \/ TurnsOnly
    \/ \E m \in Messages : Stop(m) \/ RevokeSession(m)
    \/ \E r \in Runners :
       \/ Issue(r) \/ DropAsk(r)
       \/ \E m \in Messages : SessionContext(r, m) \/ IssueRequest(r, m) \/ RenewRequest(r, m)
    \/ \E b \in Bearers : TokenExpires(b) \/ OverlapEnds(b)
    \/ PurgeExpired

SessionSpec == SessionInit /\ [][SessionNext]_allVars

---------------------------------------------------------------------------
(* Properties. *)

\* Types of the bearers and of what goes with them.
SessionTypeOK ==
    /\ tokens \in [Bearers -> Token \cup {NoToken}]
    /\ latest \in [Messages -> Bearers \cup {NoBearer}]
    /\ stops \subseteq Messages
    /\ asks \in [Runners -> SUBSET Ask]

\* Epochs only ever come from the thread, which has moved past each it gave out, and a
\* handed-out turn has one.
EpochsGiven ==
    \A m \in Messages :
        /\ turns[m].epoch <= epoch
        /\ turns[m].attempt > 0 => turns[m].epoch > 0

\* A bearer, and a request for one, is of a turn that has been handed out and carries an
\* epoch that turn has had.
BearersOfTurns ==
    /\ \A b \in Minted :
          turns[tokens[b].session].attempt > 0 /\ tokens[b].epoch \in 1..turns[tokens[b].session].epoch
    /\ \A r \in Runners : \A a \in asks[r] :
          turns[a.session].attempt > 0 /\ a.epoch \in 1..turns[a.session].epoch

\* The latest bearer exists as long as the session has any.
LatestExists ==
    \A m \in Messages : IF latest[m] = NoBearer THEN OfSession(m) = {} ELSE latest[m] \in OfSession(m)

\* A turn that goes on although it was asked to stop has its tombstone.
CancelledHasStop ==
    \A m \in Messages :
        /\ turns[m].state \in {"none", "queued"} => ~turns[m].cancel
        /\ turns[m].cancel /\ turns[m].state \in {"claimed", "streaming"} => m \in stops

\* The turns keep their own invariant while their bearers come and go, and bearers,
\* requests, tombstones and turns fit each other.
SessionInv ==
    /\ ChatInv
    /\ SessionTypeOK
    /\ EpochsGiven
    /\ BearersOfTurns
    /\ LatestExists
    /\ CancelledHasStop

\* Stop is final: a stopped session has no usable bearer, then or later, whatever was
\* asked for before the Stop and minted after it.
StopIsFinal ==
    \A b \in Minted : tokens[b].session \in stops => ~Usable(tokens[b])

\* As soon as the user has stopped a turn that goes on running, nothing its runner holds
\* or is about to receive for that turn works.
StoppedTurnIsMute ==
    \A b \in Minted : LET t == turns[tokens[b].session] IN
        t.cancel /\ t.state \in {"claimed", "streaming"} => ~Usable(tokens[b])

\* A session is used by one execution at a time: all its usable bearers carry one epoch,
\* also while an overlap lasts and in whatever order the requests read the clock, checked
\* the turn and were minted.
OneExecution ==
    \A b, c \in Minted :
        tokens[b].session = tokens[c].session /\ Usable(tokens[b]) /\ Usable(tokens[c])
            => tokens[b].epoch = tokens[c].epoch

\* "an older or equal one from another runner is refused (409)" (docs/api-authentication.md:210):
\* the usable bearers of a session are of one runner.
OneRunner ==
    \A b, c \in Minted :
        tokens[b].session = tokens[c].session /\ Usable(tokens[b]) /\ Usable(tokens[c])
            => tokens[b].runner = tokens[c].runner

\* "The token is bound to execution_epoch; deleting the thread bumps the epoch, so a session
\* permission minted before the delete stops working" (runner-chat-protocol.md), and a late
\* renewal "bumps execution_epoch, so no session permission issued before the lapse is
\* revived" (RenewLease): a step that leaves an epoch for good leaves no usable bearer of it.
EpochEndsBearers ==
    [][\A m \in Messages :
        (~deleted /\ deleted') \/ (turns[m].lease = "lapsed" /\ turns'[m].lease = "live")
            => \A b \in OfSession(m) : tokens[b].epoch < epoch' => ~Usable(tokens'[b])]_allVars

\* What OneRunner takes for granted: bearers are minted in the order in which their
\* requests read the clock, so each is the latest of its session when it appears.
MintedInOrder ==
    [][\A b \in Bearers :
        tokens[b] = NoToken /\ tokens'[b] # NoToken => latest'[tokens'[b].session] = b]_allVars
===========================================================================
