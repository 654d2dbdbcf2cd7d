--------------------------- MODULE EventDelivery ---------------------------
(***************************************************************************)
(* How an event reaches the agents and the feed.  A task transition writes *)
(* its event to the outbox and to the feed in its own transaction; API     *)
(* instances deliver the outbox to JetStream under a row lock.  An event   *)
(* published through the API goes to JetStream and to the feed by separate *)
(* calls, with a fallback.  The pg-writer copies the stream into the feed, *)
(* and a cleanup deletes what has expired.                                 *)
(*                                                                         *)
(* An outbox row becomes available when it is written and again when its   *)
(* back-off ends, and rows are taken in the order of available_at: the     *)
(* rows that are available now form a queue, and no clock is needed.       *)
(***************************************************************************)
EXTENDS Integers, Sequences, SequencesExt

CONSTANTS
    Transitions,   \* how many transitions the task makes: 1 .. Transitions, in order
    Posts,         \* the events published through the API
    Workers,       \* API instances, each with one outbox worker
    Expiring,      \* the events that live to see their expires_at pass
    MaxCopies,     \* bound on the copies of one event the pg-writer has yet to see
    None

Commits == 1 .. Transitions
Events == Commits \cup Posts

ASSUME DeliveryAssumption ==
    /\ Transitions \in Nat /\ MaxCopies \in Nat \ {0}
    /\ Commits \cap Posts = {} /\ None \notin Events /\ Expiring \subseteq Events

VARIABLES
    ready,      \* undelivered rows whose available_at has passed, in its order
    waiting,    \* undelivered rows in back-off
    delivered,  \* rows with delivered_at
    worker,     \* the transaction each instance has open: the locked row and its stage
    post,       \* where the call publishing each event of the API is
    stored,     \* events JetStream has stored
    recent,     \* message ids in JetStream's duplicate window
    unacked,    \* copies the pg-writer has not acknowledged
    feed,       \* ids in event_bus_messages
    expired,    \* events past their expires_at
    begun       \* history: rows some worker has taken at least once

outbox == <<ready, waiting, delivered, worker, begun>>
broker == <<stored, recent, unacked>>
vars == <<outbox, post, broker, feed, expired>>

Idle == [pc |-> "idle", event |-> None]
Locked == {worker[w].event : w \in Workers}
Queued == {ready[i] : i \in DOMAIN ready}
Committed == Queued \cup waiting \cup delivered

-----------------------------------------------------------------------------
(* JetStream.                                                               *)

\* js.Publish with the event's id: stored, unless the id is in the window.
Store(e) ==
    /\ unacked' = IF e \in recent THEN unacked ELSE [unacked EXCEPT ![e] = @ + 1]
    /\ stored' = stored \cup {e}
    /\ recent' = recent \cup {e}

\* A publish that fails may have been stored: only the acknowledgement is lost.
MaybeStore(e, kept) == IF kept THEN Store(e) ELSE UNCHANGED broker

\* The duplicate window of two minutes passes; only outbox rows are published twice.
Forget(e) ==
    /\ e \in recent /\ unacked[e] < MaxCopies
    /\ recent' = recent \ {e}
    /\ UNCHANGED <<outbox, post, stored, unacked, feed, expired>>

-----------------------------------------------------------------------------
(* The outbox.                                                              *)

\* A task transition commits: activity, outbox row and feed row in one transaction.
\* available_at is the start of that transaction, and a transition is accepted only
\* with the version it has read, so it starts after the previous one committed.
Transition(e) ==
    /\ e \notin Committed /\ \A d \in 1 .. e - 1 : d \in Committed
    /\ ready' = Append(ready, e)
    /\ feed' = feed \cup {e}
    /\ UNCHANGED <<waiting, delivered, worker, begun, post, broker, expired>>

\* Mutant of NextRow: no ORDER BY.
NextRowAny(i) == ready[i] \notin Locked

\* The first available row no other instance has locked (SKIP LOCKED).
NextRow(i) ==
    /\ ready[i] \notin Locked
    /\ \A j \in 1 .. i - 1 : ready[j] \in Locked

\* DeliverNext opens its transaction and locks a row.
TakeRow(w) ==
    /\ worker[w] = Idle
    /\ \E i \in DOMAIN ready :
         /\ NextRow(i)
         /\ worker' = [worker EXCEPT ![w] = [pc |-> "publish", event |-> ready[i]]]
         /\ begun' = begun \cup {ready[i]}
    /\ UNCHANGED <<ready, waiting, delivered, post, broker, feed, expired>>

\* PublishCommitted succeeds.
PublishCommitted(w) ==
    /\ worker[w].pc = "publish"
    /\ Store(worker[w].event)
    /\ worker' = [worker EXCEPT ![w].pc = "ack"]
    /\ UNCHANGED <<ready, waiting, delivered, begun, post, feed, expired>>

\* PublishCommitted fails: slugs, connection, or a lost acknowledgement.
PublishFails(w, kept) ==
    /\ worker[w].pc = "publish"
    /\ MaybeStore(worker[w].event, kept)
    /\ worker' = [worker EXCEPT ![w].pc = "retry"]
    /\ UNCHANGED <<ready, waiting, delivered, begun, post, feed, expired>>

\* The transaction is rolled back: the process dies, an update or the commit
\* fails, or the ten seconds of the delivery are over, which the back-off
\* update does not survive either.  The row keeps its place in the queue.
Rollback(w, kept) ==
    /\ worker[w] # Idle /\ (kept => worker[w].pc = "publish")
    /\ MaybeStore(worker[w].event, kept)
    /\ worker' = [worker EXCEPT ![w] = Idle]
    /\ UNCHANGED <<ready, waiting, delivered, begun, post, feed, expired>>

\* The locked row leaves the queue.
Dequeue(w) ==
    /\ \E i \in DOMAIN ready :
         ready[i] = worker[w].event /\ ready' = RemoveAt(ready, i)
    /\ worker' = [worker EXCEPT ![w] = Idle]

\* Mutant of Acknowledge: a failed publish is acknowledged like a successful one.
AcknowledgeAny(w) ==
    /\ worker[w].pc \in {"ack", "retry"}
    /\ Dequeue(w)
    /\ delivered' = delivered \cup {worker[w].event}
    /\ UNCHANGED <<waiting, begun, post, broker, feed, expired>>

\* delivered_at is set and the transaction commits.
Acknowledge(w) ==
    /\ worker[w].pc = "ack"
    /\ Dequeue(w)
    /\ delivered' = delivered \cup {worker[w].event}
    /\ UNCHANGED <<waiting, begun, post, broker, feed, expired>>

\* available_at is moved by the back-off and the transaction commits.
BackOff(w) ==
    /\ worker[w].pc = "retry"
    /\ Dequeue(w)
    /\ waiting' = waiting \cup {worker[w].event}
    /\ UNCHANGED <<delivered, begun, post, broker, feed, expired>>

\* Mutant of BackOffEnds: the back-off of a row has no end.
BackOffStays(e) == FALSE /\ UNCHANGED vars

\* The back-off of at most 300 seconds is over.
BackOffEnds(e) ==
    /\ e \in waiting
    /\ waiting' = waiting \ {e}
    /\ ready' = Append(ready, e)
    /\ UNCHANGED <<delivered, worker, begun, post, broker, feed, expired>>

-----------------------------------------------------------------------------
(* The API: eventBusService.Publish.                                        *)

\* The slugs resolve, or the call falls back to writing the feed only.
Publish(p) ==
    /\ post[p] = "new"
    /\ \E pc \in {"transport", "fallback"} : post' = [post EXCEPT ![p] = pc]
    /\ UNCHANGED <<outbox, broker, feed, expired>>

\* publishTransport, with its answer.
PublishEvent(p, kept, told) ==
    /\ post[p] = "transport" /\ (told => kept)
    /\ MaybeStore(p, kept)
    /\ post' = [post EXCEPT ![p] = IF told THEN "create" ELSE "fallback"]
    /\ UNCHANGED <<outbox, feed, expired>>

\* The inline Create: its failure, a duplicate key included, is only logged.
CreateInline(p, written) ==
    /\ post[p] = "create"
    /\ feed' = IF written THEN feed \cup {p} ELSE feed
    /\ post' = [post EXCEPT ![p] = "ok"]
    /\ UNCHANGED <<outbox, broker, expired>>

\* The fallback Create: the pg-writer may have been first, and the key is taken.
CreateFallback(p, written) ==
    /\ post[p] = "fallback"
    /\ written => p \notin feed
    /\ feed' = IF written THEN feed \cup {p} ELSE feed
    /\ post' = [post EXCEPT ![p] = IF written THEN "ok" ELSE "error"]
    /\ UNCHANGED <<outbox, broker, expired>>

\* The process dies with the call.
PublishDies(p) ==
    /\ post[p] \in {"transport", "create", "fallback"}
    /\ post' = [post EXCEPT ![p] = "error"]
    /\ UNCHANGED <<outbox, broker, feed, expired>>

-----------------------------------------------------------------------------
(* The pg-writer and the cleanup.                                           *)

\* Upsert, then Ack, whatever became of the upsert.  A message that was not
\* acknowledged is offered again; one that NATS gives up on after MaxDeliver
\* tries is like one acknowledged without having been written.
ProcessPGWriterMessage(e, written, acked) ==
    /\ unacked[e] > 0
    /\ feed' = IF written THEN feed \cup {e} ELSE feed
    /\ unacked' = IF acked THEN [unacked EXCEPT ![e] = @ - 1] ELSE unacked
    /\ UNCHANGED <<outbox, post, stored, recent, expired>>

\* expires_at passes.
Expire(e) ==
    /\ e \notin expired
    /\ e \in Committed \/ (e \in Posts /\ post[e] # "new")
    /\ expired' = expired \cup {e}
    /\ UNCHANGED <<outbox, post, broker, feed>>

\* Mutant of DeleteExpired: transitions are never cleaned up.
DeleteExpiredPosts ==
    /\ feed \cap expired \cap Posts # {}
    /\ feed' = feed \ (expired \cap Posts)
    /\ UNCHANGED <<outbox, post, broker, expired>>

DeleteExpired ==
    /\ feed \cap expired # {}
    /\ feed' = feed \ expired
    /\ UNCHANGED <<outbox, post, broker, expired>>

-----------------------------------------------------------------------------
Init ==
    /\ ready = <<>> /\ waiting = {} /\ delivered = {} /\ begun = {}
    /\ worker = [w \in Workers |-> Idle]
    /\ post = [p \in Posts |-> "new"]
    /\ stored = {} /\ recent = {} /\ unacked = [e \in Events |-> 0]
    /\ feed = {} /\ expired = {}

Deliver(w) ==
    \/ TakeRow(w) \/ PublishCommitted(w) \/ Acknowledge(w) \/ BackOff(w)
    \/ \E kept \in BOOLEAN : PublishFails(w, kept) \/ Rollback(w, kept)

Call(p) ==
    \/ Publish(p)
    \/ \E kept, told \in BOOLEAN : PublishEvent(p, kept, told)
    \/ \E written \in BOOLEAN : CreateInline(p, written) \/ CreateFallback(p, written)

PGWriter(e) ==
    \E written, acked \in BOOLEAN : ProcessPGWriterMessage(e, written, acked)

Next ==
    \/ \E e \in Commits : Transition(e) \/ BackOffEnds(e) \/ Forget(e)
    \/ \E w \in Workers : Deliver(w)
    \/ \E p \in Posts : Call(p) \/ PublishDies(p)
    \/ \E e \in Events : PGWriter(e)
    \/ \E e \in Expiring : Expire(e)
    \/ DeleteExpired

Spec == Init /\ [][Next]_vars

\* The workers, the pg-writer, the cleanup and a call in progress run on; time
\* ends a back-off.  A publish, a commit, an upsert that is tried again and
\* again is not refused for ever.
FairSpec ==
    /\ Spec
    /\ WF_vars(\E w \in Workers : TakeRow(w) \/ BackOff(w))
    /\ SF_vars(\E w \in Workers : PublishCommitted(w))
    /\ SF_vars(\E w \in Workers : Acknowledge(w))
    /\ WF_vars(\E e \in Commits : BackOffEnds(e))
    /\ WF_vars(\E e \in Events, written \in BOOLEAN : ProcessPGWriterMessage(e, written, TRUE))
    /\ WF_vars(DeleteExpired)
    /\ WF_vars(\E p \in Posts : post[p] # "new" /\ Call(p))

-----------------------------------------------------------------------------
(* Properties.                                                              *)

TypeOK ==
    /\ ready \in Seq(Commits) /\ waiting \subseteq Commits /\ delivered \subseteq Commits
    /\ begun \subseteq Commits
    /\ worker \in [Workers -> [pc : {"idle", "publish", "ack", "retry"},
                               event : Commits \cup {None}]]
    /\ post \in [Posts -> {"new", "transport", "create", "fallback", "ok", "error"}]
    /\ stored \subseteq Events /\ recent \subseteq Events
    /\ unacked \in [Events -> Nat]
    /\ feed \subseteq Events /\ expired \subseteq Events

\* A row is in one place: once in the queue, in back-off, or delivered.
OnePlace ==
    /\ \A i, j \in DOMAIN ready : ready[i] = ready[j] => i = j
    /\ Queued \cap waiting = {} /\ Queued \cap delivered = {}
    /\ waiting \cap delivered = {}

\* A transaction holds a queued row that no other transaction holds.
RowsLocked ==
    \A w \in Workers :
        /\ worker[w].pc = "idle" <=> worker[w] = Idle
        /\ worker[w] # Idle => worker[w].event \in Queued
        /\ \A v \in Workers \ {w} : worker[v] # Idle => worker[v].event # worker[w].event

\* A row is acknowledged, and a copy under way, only of a message that JetStream has.
AckedIsStored ==
    /\ delivered \subseteq stored
    /\ \A w \in Workers : worker[w].pc = "ack" => worker[w].event \in stored
    /\ recent \subseteq stored
    /\ \A e \in Events : unacked[e] > 0 => e \in stored

\* No committed transition is lost, whatever instances crash, time out or are told
\* wrongly by the broker: its row waits to be delivered or JetStream has the
\* message, and until the event expires the feed shows it.  An event the API
\* answered for is in JetStream or in the feed.
NothingLost ==
    /\ \A e \in Committed :
         /\ e \in stored \/ e \in Queued \cup waiting
         /\ e \in feed \/ e \in expired
    /\ \A p \in Posts :
         /\ post[p] = "create" => p \in stored
         /\ post[p] = "ok" => p \in stored \/ p \in feed \/ p \in expired

\* A row that was never taken is in the queue, in the order of the transitions.
QueueInOrder ==
    /\ begun \subseteq Committed /\ waiting \cup delivered \subseteq begun
    /\ \A w \in Workers : worker[w] # Idle => worker[w].event \in begun
    /\ \A e \in Committed : \A d \in 1 .. e - 1 : d \in Committed
    /\ \A i, j \in DOMAIN ready :
         ready[i] \notin begun /\ ready[j] \notin begun /\ ready[i] < ready[j] => i < j

\* The inductive invariant of the delivery.
DeliveryInv ==
    TypeOK /\ OnePlace /\ RowsLocked /\ AckedIsStored /\ NothingLost /\ QueueInOrder

\* The deliveries of a task's transitions start in the order of the transitions:
\* a later one is not even tried before every earlier one was.  Failures,
\* back-off and a second instance reorder the messages themselves.
StartedInOrder ==
    \A e \in begun : \A d \in 1 .. e - 1 : d \in begun

\* The outbox, the stream and the feed implement TaskEvents: a delivery is not started
\* before every earlier one, nothing reaches the stream that was not taken from a
\* committed row, no row is marked delivered that the stream does not have, and an
\* event leaves the feed only after it expired and comes back only from the stream.
InOrder == INSTANCE TaskEvents WITH
    N <- Transitions, committed <- Committed, started <- begun,
    stored <- stored \cap Commits, feed <- feed \cap Commits,
    expired <- expired \cap Commits
TaskEventsSpec == InOrder!Spec

\* Every committed transition is eventually acknowledged by JetStream and marked
\* delivered: no row is starved by one that fails again and again.
CommitIsDelivered ==
    \A e \in Commits : e \in Committed ~> e \in delivered

\* An expired event eventually leaves the feed for good, although a redelivered or
\* late copy may be upserted again after the cleanup deleted it.
ExpiredLeavesFeed ==
    \A e \in Expiring : e \in expired ~> [](e \notin feed)
=============================================================================
