----------------------------- MODULE ChatTurn -----------------------------
(***************************************************************************)
(* The chat turns of one thread: the user sends a message, which queues a  *)
(* turn; runners poll for it, claim it under a lease, start it (from then  *)
(* on the model sees the message), stream events and finish it.  The user  *)
(* may stop the turn or delete the thread at any moment, a sweeper expires *)
(* turns nobody claimed, and a claim ends or re-hands the ones whose       *)
(* holder went silent before starting.                                     *)
(*                                                                         *)
(* Every call is one transaction that locks the turn row, so every call is *)
(* one action; a call that is refused changes nothing and is no step.      *)
(* Calls arrive late and repeatedly: a runner may use whatever claim it    *)
(* still remembers.  (thread, client_message_id) is unique, so a turn is   *)
(* named by the message that created it.  A claim_token is minted together *)
(* with attempt + 1 and is represented by that attempt.  Of the clock the  *)
(* model keeps what the code compares: whether lease_until has passed and  *)
(* how long the turn has waited.                                           *)
(***************************************************************************)
EXTENDS Integers, FiniteSets

CONSTANTS
    Messages,      \* client_message_ids the user sends
    Runners,       \* runner processes (X-Chat-Runner-Id)
    NoRunner,
    MaxAttempts,   \* ChatMaxAttempts
    Settings,      \* values of offline_expiry_hours; 0 stands for unset
    DefaultTTL,    \* DefaultOfflineTurnTTL
    MaxSeq,        \* bound on the events of a turn
    MaxLate        \* bound on late holder calls (lapsed lease) and repeated Stops together

ASSUME ChatAssumption ==
    /\ NoRunner \notin Runners
    /\ MaxAttempts \in Nat \ {0}
    /\ Settings \subseteq Nat /\ Settings # {}
    /\ DefaultTTL \in Nat \ {0}
    /\ MaxSeq \in Nat /\ MaxLate \in Nat

VARIABLES
    turns,      \* ext_agent_chat_turns with the messages a turn points at
    epoch,      \* ext_agent_chat_threads.execution_epoch
    deleted,    \* ext_agent_chat_threads.deleted_at is set
    setting,    \* the workspace's current offline_expiry_hours
    hands,      \* the claim of each turn each runner process remembers, 0 for none
    voices,     \* history: the claims that had a start or an event accepted
    late        \* bound: late holder calls and repeated Stops so far

vars == <<turns, epoch, deleted, setting, hands, voices, late>>

Finished == {"done", "failed", "cancelled", "expired"}
Unfinished == {"queued", "claimed", "streaming"}

TurnRow ==
    [state: {"none"} \cup Unfinished \cup Finished,
     runner: Runners \cup {NoRunner}, attempt: 0..MaxAttempts, epoch: Nat,
     lease: {"none", "live", "lapsed"}, ttl: Nat, age: Nat,
     cancel: BOOLEAN, started: BOOLEAN, lastSeq: 0..MaxSeq,
     user: {"queued", "done", "failed", "cancelled"},
     reply: {"none", "streaming", "done", "failed", "cancelled"}]

NoTurn ==
    [state |-> "none", runner |-> NoRunner, attempt |-> 0, epoch |-> 0,
     lease |-> "none", ttl |-> DefaultTTL, age |-> 0, cancel |-> FALSE, started |-> FALSE,
     lastSeq |-> 0, user |-> "queued", reply |-> "none"]

Init ==
    /\ turns = [m \in Messages |-> NoTurn]
    /\ epoch = 0 /\ deleted = FALSE
    /\ setting \in Settings
    /\ hands = [r \in Runners |-> [m \in Messages |-> 0]]
    /\ voices = [m \in Messages |-> {}]
    /\ late = 0

TTLOf(s) == IF s > 0 THEN s ELSE DefaultTTL

\* chatTurnDeadline: the current setting counted from creation, else the stored expires_at.
TurnDeadline(t) == IF setting > 0 THEN setting ELSE t.ttl

---------------------------------------------------------------------------
(* The user and the workspace. *)

\* The unfinished turn blocks the next message; a repeated one is answered, not sent again.
SendMessage(m) ==
    /\ ~deleted
    /\ turns[m].state = "none"
    /\ \A n \in Messages : turns[n].state \notin Unfinished
    /\ turns' = [turns EXCEPT ![m].state = "queued", ![m].ttl = TTLOf(setting)]
    /\ UNCHANGED <<epoch, deleted, setting, hands, voices, late>>

ChangeSetting(s) ==
    /\ s # setting
    /\ setting' = s
    /\ UNCHANGED <<turns, epoch, deleted, hands, voices, late>>

\* Stop: a queued turn ends at once; a held one is only asked to stop, and every such
\* request, a repeated one too, moves the thread's epoch on.
StopTurn(m) ==
    /\ ~deleted
    /\ turns[m].state \in Unfinished
    /\ \/ /\ turns[m].state = "queued"
          /\ turns' = [turns EXCEPT ![m].state = "cancelled", ![m].cancel = TRUE,
                                   ![m].user = "cancelled"]
          /\ UNCHANGED <<epoch, late>>
       \/ /\ turns[m].state # "queued"
          /\ turns[m].cancel => late < MaxLate
          /\ turns' = [turns EXCEPT ![m].cancel = TRUE]
          /\ epoch' = epoch + 1
          /\ late' = IF turns[m].cancel THEN late + 1 ELSE late
    /\ UNCHANGED <<deleted, setting, hands, voices>>

CancelledReply(reply) == IF reply = "streaming" THEN "cancelled" ELSE reply

CancelledTurn(t) ==
    IF t.state \in Unfinished
    THEN [t EXCEPT !.state = "cancelled", !.cancel = TRUE, !.lease = "none",
                   !.reply = CancelledReply(t.reply)]
    ELSE t

SoftDeleteLocked ==
    /\ ~deleted
    /\ deleted' = TRUE
    /\ epoch' = epoch + 1
    /\ turns' = [m \in Messages |-> CancelledTurn(turns[m])]
    /\ UNCHANGED <<setting, hands, voices, late>>

SoftDeleteThread == SoftDeleteLocked

\* Retention deletes only a thread at rest.
ExpireHistory ==
    /\ \A m \in Messages : turns[m].state \notin Unfinished
    /\ SoftDeleteLocked

---------------------------------------------------------------------------
(* The sweeper and the claim. *)

NotDelivered(t) == [t EXCEPT !.state = "expired", !.user = "failed"]

\* Mutant of ExpireQueued: the sweep joins the setting and misses workspaces without one.
ExpireQueuedConfigured(m) ==
    /\ turns[m].state = "queued"
    /\ setting > 0 /\ turns[m].age >= setting
    /\ turns' = [turns EXCEPT ![m] = NotDelivered(@)]
    /\ UNCHANGED <<epoch, deleted, setting, hands, voices, late>>

ExpireQueued(m) ==
    /\ turns[m].state = "queued"
    /\ turns[m].age >= TurnDeadline(turns[m])
    /\ turns' = [turns EXCEPT ![m] = NotDelivered(@)]
    /\ UNCHANGED <<epoch, deleted, setting, hands, voices, late>>

\* Mutant of LazilyEnded: only queued turns are ended.
LazilyEndedQueued(t) ==
    IF t.state = "queued" /\ t.age >= t.ttl THEN NotDelivered(t) ELSE t

\* What ClaimTurns ends before it hands anything out.
LazilyEnded(t) ==
    IF t.state = "queued" /\ t.age >= t.ttl THEN NotDelivered(t)
    ELSE IF t.state = "claimed" /\ t.lease = "lapsed" /\ t.attempt >= MaxAttempts
    THEN [t EXCEPT !.state = "failed", !.user = "failed",
                   !.reply = IF t.reply = "none" THEN "none" ELSE "failed"]
    ELSE t

\* Mutant of Deliverable: a started turn whose holder went silent is handed out again.
DeliverableAfterStart(t) ==
    \/ t.state = "queued" /\ t.age < t.ttl
    \/ t.state \in {"claimed", "streaming"} /\ t.lease = "lapsed" /\ t.attempt < MaxAttempts

Deliverable(t) ==
    \/ t.state = "queued" /\ t.age < t.ttl
    \/ t.state = "claimed" /\ t.lease = "lapsed" /\ t.attempt < MaxAttempts

\* Mutant of HandedOut: the attempt is not counted.
HandedOutUncounted(t, r, e) ==
    [t EXCEPT !.state = "claimed", !.runner = r, !.lease = "live", !.epoch = e]

HandedOut(t, r, e) ==
    [t EXCEPT !.state = "claimed", !.runner = r, !.attempt = @ + 1,
              !.lease = "live", !.epoch = e]

\* One poll of runner r; its answer may be lost, and then r does not know of its claim.
ClaimTurns(r) ==
    LET ended == [m \in Messages |-> LazilyEnded(turns[m])]
        cand == {m \in Messages : Deliverable(ended[m])}
    IN /\ \/ /\ cand = {} /\ ended # turns
             /\ turns' = ended
             /\ UNCHANGED <<epoch, hands>>
          \/ \E m \in cand, answered \in BOOLEAN :
             /\ epoch' = epoch + 1
             /\ turns' = [ended EXCEPT ![m] = HandedOut(@, r, epoch + 1)]
             /\ hands' = IF answered THEN [hands EXCEPT ![r][m] = ended[m].attempt + 1] ELSE hands
       /\ UNCHANGED <<deleted, setting, voices, late>>

---------------------------------------------------------------------------
(* The holder's calls. *)

\* lockHeldChatTurn: the caller is the row's runner and names its current claim.
Holds(r, m) ==
    /\ hands[r][m] # 0
    /\ turns[m].runner = r
    /\ turns[m].attempt = hands[r][m]

\* Mutant of Touched: a late start does not move the epoch.
TouchedSameEpoch(t) == [t EXCEPT !.lease = "live"]

\* The holder's call extends its lease; coming late it also opens a new epoch.
Touched(t) ==
    IF t.lease = "lapsed"
    THEN [t EXCEPT !.lease = "live", !.epoch = epoch + 1]
    ELSE [t EXCEPT !.lease = "live"]

EpochAfter(t) == IF t.lease = "lapsed" THEN epoch + 1 ELSE epoch

CountLate(t) ==
    /\ t.lease = "lapsed" => late < MaxLate
    /\ late' = IF t.lease = "lapsed" THEN late + 1 ELSE late

\* Mutant of RenewLease: a finished turn is renewed like a live one.
RenewAnyState(r, m) ==
    /\ Holds(r, m)
    /\ CountLate(turns[m])
    /\ epoch' = EpochAfter(turns[m])
    /\ turns' = [turns EXCEPT ![m] = Touched(@)]
    /\ UNCHANGED <<deleted, setting, hands, voices>>

RenewLease(r, m) ==
    /\ Holds(r, m)
    /\ turns[m].state \in {"claimed", "streaming"}
    /\ CountLate(turns[m])
    /\ epoch' = EpochAfter(turns[m])
    /\ turns' = [turns EXCEPT ![m] = Touched(@)]
    /\ UNCHANGED <<deleted, setting, hands, voices>>

Started(t) ==
    [Touched(t) EXCEPT !.state = "streaming", !.started = TRUE,
                       !.user = IF @ = "queued" THEN "done" ELSE @]

\* The commit point: from here on the model sees the user message.
StartTurn(r, m) ==
    /\ Holds(r, m)
    /\ turns[m].state \in {"claimed", "streaming"}
    /\ IF turns[m].state = "claimed" THEN late' = late ELSE CountLate(turns[m])
    /\ epoch' = EpochAfter(turns[m])
    /\ turns' = [turns EXCEPT ![m] = Started(@)]
    /\ voices' = [voices EXCEPT ![m] = @ \cup {turns[m].attempt}]
    /\ UNCHANGED <<deleted, setting, hands>>

\* Event kinds: "text" opens the reply, "note" (session, usage, tool lines) does not;
\* "final", "cancelled" (a final with that stop reason) and "error" end the turn.
EventKinds == {"text", "note", "final", "cancelled", "error"}
Ending == {"final", "cancelled", "error"}
StateAfter(kind) ==
    IF kind = "final" THEN "done" ELSE IF kind = "cancelled" THEN "cancelled" ELSE "failed"

\* Mutant of ClaimedBatchAllowed: a claimed turn takes any batch.
ClaimedBatchAny(t, to, kind) == TRUE

\* On a claimed turn only a lone error, or a lone final(cancelled) at seq 1.
ClaimedBatchAllowed(t, to, kind) ==
    /\ to = t.lastSeq + 1
    /\ kind = "error" \/ (kind = "cancelled" /\ to = 1)

WithEvents(t, to, kind) ==
    [Touched(t) EXCEPT
        !.lastSeq = to,
        !.lease = IF kind \in Ending THEN "none" ELSE "live",
        !.state = IF kind \in Ending THEN StateAfter(kind) ELSE @,
        !.reply = IF kind \in Ending THEN StateAfter(kind)
                  ELSE IF kind = "text" /\ @ = "none" THEN "streaming" ELSE @,
        !.user = IF kind = "final" /\ @ = "queued" THEN "done" ELSE @]

\* A batch of the events from..to, the last one of the given kind.  Events already
\* applied are skipped (a batch of only such events is acknowledged and changes nothing),
\* what follows a terminal event is ignored, so the batch may as well end there.
ApplyEvents(r, m, from, to, kind) ==
    /\ Holds(r, m)
    /\ to > turns[m].lastSeq
    /\ turns[m].state \in {"claimed", "streaming"}
    /\ from <= turns[m].lastSeq + 1
    /\ turns[m].state = "claimed" => ClaimedBatchAllowed(turns[m], to, kind)
    /\ CountLate(turns[m])
    /\ epoch' = EpochAfter(turns[m])
    /\ turns' = [turns EXCEPT ![m] = WithEvents(@, to, kind)]
    /\ voices' = [voices EXCEPT ![m] = @ \cup {turns[m].attempt}]
    /\ UNCHANGED <<deleted, setting, hands>>

---------------------------------------------------------------------------
(* The runner process and the clock. *)

\* The process dies with everything it remembers.
RunnerCrash(r) ==
    /\ hands[r] # [m \in Messages |-> 0]
    /\ hands' = [hands EXCEPT ![r] = [m \in Messages |-> 0]]
    /\ UNCHANGED <<turns, epoch, deleted, setting, voices, late>>

\* A restarted process asks for the turns its runner id still holds.
ActiveTurns(r) ==
    LET held == {m \in Messages : turns[m].runner = r /\ turns[m].state \in {"claimed", "streaming"}}
    IN /\ hands' = [hands EXCEPT ![r] =
              [m \in Messages |-> IF m \in held THEN turns[m].attempt ELSE @[m]]]
       /\ hands' # hands
       /\ UNCHANGED <<turns, epoch, deleted, setting, voices, late>>

LeaseLapses(m) ==
    /\ turns[m].state \in {"claimed", "streaming"} /\ turns[m].lease = "live"
    /\ turns' = [turns EXCEPT ![m].lease = "lapsed"]
    /\ UNCHANGED <<epoch, deleted, setting, hands, voices, late>>

MaxAge == CHOOSE a \in Settings \cup {DefaultTTL} : \A b \in Settings \cup {DefaultTTL} : b <= a

Waits(m) ==
    /\ turns[m].state = "queued" /\ turns[m].age < MaxAge
    /\ turns' = [turns EXCEPT ![m].age = @ + 1]
    /\ UNCHANGED <<epoch, deleted, setting, hands, voices, late>>

---------------------------------------------------------------------------
UserNext ==
    \/ \E m \in Messages : SendMessage(m) \/ StopTurn(m)
    \/ \E s \in Settings : ChangeSetting(s)
    \/ SoftDeleteThread \/ ExpireHistory

RunnerNext(r) ==
    \/ ClaimTurns(r) \/ RunnerCrash(r) \/ ActiveTurns(r)
    \/ \E m \in Messages :
       \/ RenewLease(r, m) \/ StartTurn(r, m)
       \/ \E from, to \in 1..MaxSeq, kind \in EventKinds : ApplyEvents(r, m, from, to, kind)

Next ==
    \/ UserNext
    \/ \E r \in Runners : RunnerNext(r)
    \/ \E m \in Messages : ExpireQueued(m) \/ LeaseLapses(m) \/ Waits(m)

Spec == Init /\ [][Next]_vars

\* Time passes and the sweeper runs every minute on every replica.
Sweeping ==
    \A m \in Messages : WF_vars(Waits(m)) /\ WF_vars(ExpireQueued(m))

SweepSpec == Spec /\ Sweeping

\* Some runner keeps polling.
Polling == WF_vars(\E r \in Runners : ClaimTurns(r))

\* No holder renews the lease of a turn in time for ever: each stops at some point.  The
\* code does not see to that: it grants every renewal.
HoldersStopRenewing == \A m \in Messages : WF_vars(LeaseLapses(m))

LiveSpec == SweepSpec /\ Polling

---------------------------------------------------------------------------
(* Properties. *)

TypeOK ==
    /\ turns \in [Messages -> TurnRow]
    /\ epoch \in Nat /\ deleted \in BOOLEAN /\ setting \in Settings /\ late \in Nat
    /\ hands \in [Runners -> [Messages -> 0..MaxAttempts]]
    /\ voices \in [Messages -> SUBSET (1..MaxAttempts)]

\* What a row and its history look like in each state of the turn.
RowShape(t, v) ==
    /\ t.state \in {"none", "queued"} => t.attempt = 0
    /\ t.state \in {"none", "queued", "claimed"} =>
          ~t.started /\ t.user = "queued" /\ t.reply = "none" /\ v = {}
    /\ t.state \in {"claimed", "streaming"} => t.attempt > 0
    /\ t.state = "streaming" =>
          t.started /\ t.user = "done" /\ t.reply \in {"none", "streaming"} /\ v = {t.attempt}
    /\ t.state \in Finished =>
          /\ t.started <=> t.user = "done"
          /\ t.user \in {"failed", "cancelled"} => v = {}
          /\ t.reply # "none" => t.reply = t.state
          /\ v \subseteq {t.attempt}

\* The inductive invariant: a turn that was not started has no voice and says nothing,
\* a streaming one has exactly the voice of its current claim, and a finished one keeps
\* what it ended with, whichever way to end it was taken.
ChatInv ==
    /\ TypeOK
    /\ \A m \in Messages : RowShape(turns[m], voices[m])

\* The model sees a user message under one claim only: whatever leases lapsed, whoever
\* polled, crashed, recovered or called with an old claim, at most one claim of a turn
\* ever had a start or an event accepted ("the model never saw it, so re-handing is safe").
OneVoice ==
    \A m \in Messages : \A a, b \in voices[m] : a = b

\* What the user is told about the own message is true: it is "done" (delivered) exactly
\* when a start was accepted, and it is "failed" (not delivered, runner lost) or
\* "cancelled" only if no runner ever got to act on it.
DeliveryTold ==
    \A m \in Messages :
        /\ (turns[m].user = "done") <=> turns[m].started
        /\ turns[m].user \in {"failed", "cancelled"} => voices[m] = {}

\* The agent's reply and its turn end together, whoever ends the turn: no reply keeps
\* streaming under a finished turn, and no reply is closed while its turn goes on.
ReplyFollowsTurn ==
    \A m \in Messages :
        /\ turns[m].reply = "streaming" => turns[m].state = "streaming"
        /\ turns[m].reply \in {"done", "failed", "cancelled"} => turns[m].state = turns[m].reply

\* A finished turn stays exactly as it ended: no late event, renewal, claim, Stop, delete
\* or sweep reopens it, moves its sequence number or changes what its messages say.
FinishedIsFinal ==
    [][\A m \in Messages : turns[m].state \in Finished => turns'[m] = turns[m]]_vars

\* N4: whichever call brings a lapsed lease back to life, the turn continues under an
\* execution epoch newer than every one the thread had before.
RevivalOpensEpoch ==
    [][\A m \in Messages :
        turns[m].lease = "lapsed" /\ turns'[m].lease = "live"
            => turns'[m].epoch = epoch' /\ epoch' > epoch]_vars

\* At most one turn of the thread is unfinished: the message that is being worked on.
OneTurnOpen ==
    \A m, n \in Messages :
        turns[m].state \in Unfinished /\ turns[n].state \in Unfinished => m = n

PhaseOf(t) ==
    IF t.state = "none" THEN "none"
    ELSE IF t.state \in {"queued", "claimed"} THEN "open"
    ELSE IF t.state = "streaming" THEN "heard" ELSE "over"

SilentRow(t) == t.state \in {"claimed", "streaming"} /\ t.lease = "lapsed"

Phase == [m \in Messages |-> PhaseOf(turns[m])]
Claims == [m \in Messages |-> turns[m].attempt]
Silent == {m \in Messages : SilentRow(turns[m])}
Told == [m \in Messages |-> turns[m].user]
WorkEpoch == [m \in Messages |-> turns[m].epoch]

\* The thread implements ThreadLife: one message at a time, handed out under ever new
\* claims and epochs until a runner is heard on it and never after, revived only under a
\* new epoch, and its user told the truth, whichever calls come late, twice or never.
Life == INSTANCE ThreadLife WITH
    Max <- MaxAttempts, phase <- Phase, claim <- Claims, silent <- Silent,
    heard <- voices, told <- Told, at <- WorkEpoch
ThreadLifeSpec == Life!Spec

\* A queued turn does not wait for ever: it is claimed, stopped or expires.
QueuedTurnLeaves ==
    \A m \in Messages : turns[m].state = "queued" ~> turns[m].state # "queued"

\* A claimed turn is not lost with its holder: if holders stop renewing what they do not
\* start, and as long as some runner polls, it is started or ends, by the attempt cap at
\* the latest.
ClaimedTurnResolves ==
    Polling /\ HoldersStopRenewing => \A m \in Messages :
        turns[m].state = "claimed" ~> turns[m].state \notin {"queued", "claimed"}

\* "Lease expiry ... at most 3 attempts, then the turn fails" and "a lease that lapses
\* returns the turn to the queue" (docs/extensions/runner-chat-protocol.md): as long as
\* some runner polls.
LapsedTurnResolves ==
    Polling => \A m \in Messages :
        turns[m].state \in {"claimed", "streaming"} /\ turns[m].lease = "lapsed"
            ~> \/ turns[m].state \in Finished \cup {"queued"}
               \/ turns[m].lease = "live"
=============================================================================
