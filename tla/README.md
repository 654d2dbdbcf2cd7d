# Verification of evc-mesh

evc-mesh is a task board and a message hub for teams of people and autonomous
agents. One Go process (`cmd/api`, possibly several replicas) serves the HTTP API
and a set of background goroutines; all durable state is in PostgreSQL, and every
concurrency guarantee rests on single SQL statements, row locks, advisory locks and
version columns. Agents and runners are long-running processes that crash, lose
answers, retry and time out. What is hard here is therefore what happens when their
calls, the calls of people and the background sweeps meet on one row.

The modules model that: a database transaction (or, where a call is several
transactions, each of them) is one action, and everything a client may still
remember, repeat or deliver late is state of the model.

## Inventory

| Component | State | Operations | What is hard | What makes it correct |
|---|---|---|---|---|
| Task checkout lease (`checkout_generation.go`, `task_service.go`) | holder, token, deadline, session, request, generation of a `tasks` row | checkout, release, self- and force-release, extend, heartbeat | retries after lost answers, stale tokens, expiry racing renewal | a promised lease stands; generations fence |
| Task move (`task_service.go`, `task_transition.go`) | status, version, stage marker | move, finish, auto-progression | read, decide, write under an optimistic version | policy decisions hold at the write |
| Lease reaper (`task_lease_reaper.go`, `runCheckoutReaper`) | none; a 60 s goroutine | three phases | selection and write are separate transactions | takes only dead work, and eventually all of it |
| Typed turn commands (`typed_outcome_command.go`) | task row, receipts, waits | continue_next, wait_for, hand_off, finish_task | one transaction that bypasses MoveTask | same promises as the lease API |
| Human gate (`task_repo.go`) | gate columns | arm, clear, default on timeout | raised while a move is in flight | only a person closes a gated card |
| Chat turns (`chat_*_repo.go`, `agent_chat_repo.go`) | turn, its two messages, the thread's epoch | send, claim, renew, start, events, stop, delete, expire | lost claim answers, silent runners, many ways to end a turn | a message is acted on under one claim; its outcome is told truly |
| Chat session tokens (`chat_session_token_repo.go`, `chat_session_service.go`) | bearers, stop tombstones | issue, renew, revoke, stop, authenticate, purge | validated in one transaction, minted in another | a stop is final; one execution at a time |
| Runtime admission (`runtime_reservation_repo.go`) | reservations, pool claims, fence | acquire, consume, renew, release, sweep | overlapping transactions, checks older than the commit | limits hold; a process never outlives its admission |
| Task event outbox (`task_outbox.go`, `task_outbox_worker.go`) | event rows, their available_at and delivered_at | append, take, publish, acknowledge, back off | crash between publish and acknowledge, lost acknowledgements, two workers | nothing committed is lost; tries start in order; delivered in the end |
| Event bus (`eventbus.go`, `pgwriter.go`, `cleanup.go`, `event_bus_service.go`) | the stream and its duplicate window, the feed table | publish with fallback, copy to the feed, clean up | several sinks written by separate calls, redelivery after deletion | an event answered for is in a sink; an expired one leaves the feed |
| Idempotency middleware (`idempotency.go`, `idempotency_repo.go`) | one row per key: token, fingerprint, state, age | claim, run, complete, release, take over, purge | a crash between effect and record, slow requests that lost their claim | one write per key; replays are true |
| Recurring schedules (`recurring_service.go`, `recurring_repo.go`) | next and last run, count, failures, misses; the instances | create, edit, delete, trigger, find due, repeat, create, supersede, count | a run is a dozen transactions on a row read at its start | counted once; never silenced; served when due |
| Agent authentication cache (`agent_auth_cache.go`) | verified keys, running and queued checks, the verification under way | look up, check, verify, store, evict, invalidate | a store after the invalidation, shared results older than their reader | what a hit's check reads is as new as the request; everyone is answered |
| Agent keys and connections (`agent_service.go`, `agent_key_service.go`, `agent_api_key_repo.go`, `agent_workspace_grant_repo.go`) | rows of agents, keys and connections | log in, change a role, revoke, renew, rotate, delete | changed in any process between the reads of a login or a check | a login is of rows that lived after the request arrived |
| Parked waits (`parked_wait.go`) | registrations, their release receipts; the card's version | register, release, replay | conditions checked before waiting for locks and a provider; lost answers | a card wakes once, and only when nothing holds it |
| Automatic transitions (`auto_transition.go`) | none; rules, edges and cards read without locks | evaluate after a blocker or a subtask is done, move | the card, its edges and blockers change between the reads | no gated, moved or waiting card is moved |
| Transition receipts (`transition_receipt_repo.go`) | policy, evidence and receipt rows | commit product done, replay | policy and evidence change meanwhile | one receipt per commit (not modelled; seen as a writer) |
| Native review, host-local QA, OAuth, task move between projects, documents | protocols of their own | | | candidates for later |
| WebSocket hub, webhooks, VCS, notifications, memory, rules, comments | mostly I/O or data processing | | | seen by the models only as writers of a row or as refusals |

Interactions: a checkout ends by moving the card (`reflectCheckoutInStatus` calls
MoveTask); every comment, artifact and VCS link advances `tasks.version` through a
trigger and so invalidates moves in flight; the reaper moves cards through MoveTask
with a guarded write; an admission needs the task's live checkout and locks its row;
a chat session is a chat turn, and Stop writes both the turn and the session
tombstones; every committed transition appends its event to the outbox in its own
transaction; a schedule creates, comments on and closes cards. `PROJECT.json` lists every component, modelled or not, and each hazard
at its line with the property that covers it.

## Modules

| Module | Models | Lines of the code |
|---|---|---|
| `TaskCheckout` | one task row and everything that writes it concurrently | checkout lease, MoveTask, typed commands, heartbeat, gate, reaper |
| `ChatTurn` | the turns of one thread | claim, start, events, lifecycle, delete repositories |
| `ChatSession` | extends `ChatTurn` with the thread's bearers | session token repository and service, `StopTurn` |
| `RuntimeReservation` | reservations, claims and open transactions over several agents, tasks, workers and pools | runtime reservation repository |
| `WriterLease` | the abstract lease that `TaskCheckout`, and each card of `RuntimeReservation`, implements | none: it states the promise |
| `Admission` | the abstract admission that `RuntimeReservation` implements | none |
| `TaskEvents` | the abstract life of a task's events that `EventDelivery` implements | none |
| `ThreadLife` | the abstract thread that `ChatTurn` implements | none |
| `IdempotentKey` | the abstract key that `Idempotency` implements | none |
| `RecurringSchedule` | one schedule row, its instances, the replicas' runs and requests | recurring service and repository, the task service's supersede and repeat |
| `EventDelivery` | the outbox, the API's publish, JetStream, the pg-writer and the cleanup | outbox repository and worker, event bus |
| `AgentAuth` | the requests of one agent key on one API instance | authentication cache |
| `Idempotency` | the requests with one Idempotency-Key | middleware and its repository |
| `ParkedWait` | one card, its edges and blockers, its registrations, the releases and the automatic evaluations under way | parked waits, dependency transitions, the open-wait checks of moves and receipts |
| `MC*` | the instances for TLC | |
| `*_proofs` | the theorems | |

`ChatSession` composes two components: its actions are `ChatTurn`'s with the bearers
left alone, or joint steps (`Stop` is `StopTurn` and `RevokeThreadSessions` in one
transaction, as in the code).

### TaskCheckout

A service call that reads the row, decides and writes later is split at its SQL
statements. `op[p]` is the call process p has in flight (`pc` is the next
statement), and `current` holds the processes whose read is still of the row's
version: the only thing the code does with `tasks.version` is compare it with an
earlier read, and every committed write advances it, so `Write` empties `current`.
A token is a fresh uuid per generation and is represented by its generation;
statuses are their categories.

* `CheckoutTask` (pre-read), `AcquireCheckout` (the conditional UPDATE with its retry
  and replay rules), then the reflection as an ordinary system move.
* `MoveTask`/`FinishTask` -> `MoveRead` -> (`PostReviewerNotAssigned`) -> `MoveWrite` ->
  (`PostSystemComment`), with `Abandon` for every policy that may refuse and every
  error. `MoveWrite` is `UpdateTransition`: version check, the reaper's extra guards,
  lease release, stage marker and the implicit retry.
* The reaper is `SweepExpiredLeases`, `ReleaseExpiredCheckouts`,
  `SweepUnleasedInProgress` in the order of `runCheckoutReaper`.
* `AddComment`, `AttachEvidence`, `ArmHumanGate`, `ClearHumanGate`, `ShipTask` are the
  other writers. `promise` is what each client was last told; `stageBy` is history.

Left out: a holder with a NULL deadline (only rows older than the column have one),
the rules' evaluation (any of them is a refusal), notifications, activity rows, and
cards other than the one modelled: the sweep takes its selection one card at a time.
A statement that fails changes nothing and is no step.

### ChatTurn

Every call is one transaction that locks the turn row, hence one action. A turn is
named by its message, a claim token by its attempt. `hands` is what each runner
process remembers, so a late, repeated or wrong call is any call with what is still
remembered; an answer may be lost (`ClaimTurns` with `answered` false), a process may
die and recover (`RunnerCrash`, `ActiveTurns`). `StopTurn` is the routed handler
(`AgentChatRepo.StopTurn`); `ChatTurnEventsRepo.RequestCancel` does almost the same
but nothing outside tests reaches it, and it is not modelled. `voices` is history: the
claims that had a start or an event accepted.

### ChatSession

`asks` holds the requests that passed their check and have not been minted. A bearer is
a row of a table with room for `Bearers` of them. `latest` names the bearer of a session
with the greatest `issued_at`, the one `LatestForSession` and `Issue` order by: the
service reads the clock before the repository takes the session's lock, so a mint may
commit with an `issued_at` below the latest one. That is possible exactly if the latest
bearer was minted after the request's own check (`overtaken`). Of time there is besides
only expiry and the end of the overlap; bearers live equally long, so the latest of a
session expires and is purged last. A request is admitted by what `Issue` reads under the
lock (`Admitted`), and older bearers are cut off by `Superseded`. `DropAsk` stands for
`checkLive` and every other reason a request ends without a bearer. Users, projects and
agents do not change within a session: a binding is the runner here.

### RuntimeReservation

An acquire is three steps, because its locks let others in between: `BeginAcquire`
(now() is frozen, the connection row shared), `CheckAcquire` (agent lock, task row
shared, sweep), `InsertReservation` (pool counts, unique indexes, commit). Consume and
renew are a load and a commit. The locks are predicates over the open transactions
(`AgentLocked`, `TaskShared`, `ConnectionShared`, `RowLocked`). The controller's
process, outside the repository, starts when the answer to a consume arrives, however
late; that whoever claims `stopped` tells the truth is an assumption, and the one the
protocol itself makes. The controller's heartbeat only refuses an acquire and is left
out. The checkout of a task is the environment: `TakeLease`, `RenewLease`, `DropLease` are
what `WriterLease` allows on each card, and no more is assumed of it (`LeasesSpec`).

### The abstract specifications

Four modules state what a component promises in the terms of its clients, and the
component's module is shown to implement them by a refinement mapping. Each has a few
actions without a table, a lock or a transaction in them.

#### WriterLease

`TaskCheckout` has a dozen actions that write the lease columns; `WriterLease` says
what they amount to: `Grant` over no live lease and always as a new generation,
`Renew`, `End`, `Tick`. `LeaseSpec` in `TaskCheckout` is that specification with the
owner read off the row (the agent, or the agent with its session for a scoped lease);
an owner bound to a session gets nothing more once its deadline has passed, while a
heartbeat may revive an unscoped lease, as the code does. The refinement is checked by
`checkout_lease` and proved (`ImplementsLease`). `RuntimeReservation` is modelled over
cards that somebody checks out; that its `TakeLease`, `RenewLease` and `DropLease` do no
more than a `WriterLease` allows, for every card, is proved (`CheckoutsAreLeases`). TLC
does not take the instance with a parameter it is stated with (`Lease(t)`) as a property.

#### Admission

What controllers may rely on: an attempt is admitted once, alone on its task and its
worker and with slots of its own; what it was given does not change while it is admitted;
an admission ends only when no process relies on it, at most in the same step in which
its place is taken by another; and a process starts and runs only inside its admission.
`Occupancy` reads the holdings off the active reservations and their pool claims; an
attempt is spent when its reservation is not active any more. That the sweep, the locks
and the unique indexes together amount to this is `AdmissionSpec`.

#### TaskEvents

The transitions of a task are committed and their deliveries started in one order, the
stream gets only what was started and nothing after the row was marked delivered, and
the feed shows an event from its commit until it expires, later only as a copy from the
stream. Rows, locks, back-off, the duplicate window and API events are not visible in it.

#### ThreadLife

One message of a thread is worked on at a time. It is handed out at most `Max` times,
the first time or after its holder fell silent, always under a new claim and a new epoch;
a holder that was silent goes on only under a new epoch; once a runner was heard the
message is not handed out again, so only one claim is ever heard; and "not delivered" or
"cancelled" is told only of a message on which nobody was heard. Leases, expiry settings,
sequence numbers and replies are not visible in it.

#### IdempotentKey

One request at a time owns the key. Only an owner's own answer is kept, and it is forgotten
only when it expires; a key without one is given back, after a server error or with an
answer that is not kept, or taken from
an owner given up for dead, who may still take effect later. Everybody is told the truth of
that moment: an owner, past or present, its own outcome, or nothing definite as long as it
had no effect; anybody else the kept answer to
the same question, that the key is in use or was used for another body, or nothing
definite. The statements on the row, their order, retries and the purge are not visible
in it.

### RecurringSchedule

`pc[p]` is the statement a run or request executes next and `loc[p]` what it has read:
`runOneSchedule` works on the row `FindDue` returned and each of its statements is a
transaction of its own, so each is a step and any of them may be the last (`Abandon`,
the 30 s context or a crash). `Look` is the head of the run (limits, next occurrence,
open instance); then either `RepeatOpenInstance` and `AdvanceNextRun`, or
`CreateInstance` (or `RecordFailure` and `Quarantine`), `ResetConsecutiveFailures`,
`Supersede`, one `CloseInstance` per listed instance, `RecordMissedOutcome`,
`IncrementInstance`. `TriggerNow` shares those steps in its own order, `Update` is a
read and a write of every editable column. `lost` is history: instances created by a
run that never counted them. Time is ticks with an occurrence every `Period`.
Templates, presets and the history listing are left out.

### EventDelivery

The order of `available_at` is kept as a queue (`ready`) of the rows available now.
`now()` is the start of the transaction that wrote the row, and both writers of the
outbox (`UpdateTransition` and the transition receipts) commit only with the version
they read, so transactions of one task start in the order of their versions. Several
rows of one transition are one event here. `worker[w]` is the delivery transaction an
instance has open; `Rollback` is a crash, a failed statement or the ten-second bound,
and the row keeps its place. A publish may be stored although its caller is told
otherwise (`MaybeStore`). `Store` deduplicates within the window that `Forget` ends.
The Redis broadcast is transient and left out, and so are the stream's age and size
limits.

### AgentAuth

One presented key on one instance: an additional key, the agent's original key in its home
workspace, or the key of its connection to another workspace (`kind`). `database` is what
the rows say of it: the workspace and the agent live, the additional key not revoked, the
connection's role or `Revoked`, whether the connection holds the presented key, and the
digest of the original key in the agent's row. A check (`CheckKey`, `CheckGrant`) and a
verification (`VerifyKey`, `VerifyGrant`, then `VerifyAgent` or `VerifyLegacy`) read these
rows one after another while any process may change them; reads between which nothing of
interest can happen, because what they look for is only ever lost, are one step. `running`
and `queued` are the two batches of the validity gate, `flight` the singleflight call; who
waits for which is in `call[r].pc`. `then[r]` and `since[r]` are history: the rows as they
were when request r arrived, and the roles its connection has given since.

What the check does *not* read is part of the model. It does not ask whether the agent is
deleted: a key of an agent deleted by another process works on a warm entry until that
expires (`agent_auth_cache.go:22-26`). It reads the connection by its id, not by its key:
a connection revoked and renewed for another key (`Reactivate`, the same row) is live again
for a login with the old one. Of an original key it compares the digest the login read
*after* the key was verified, and a login without a digest is never stale. `Vouched` is
what is left, and `RevokedKeyRefused` claims no more than that of a hit. A renewal of the
home connection also leaves the agent's original key to the legacy lookup, which finds it in
the agent's row (`VerifyGrant`, `VerifyLegacy`). Agents that never had a connection are
left out, and so are a key's own expiry, which makes the lookup a miss (`Invalidate`), and
a key replaced while it is being compared.

### Idempotency

One row, and `request[r].pc` is the next statement of request r: the claim is
`DropStale`, `Insert`, `Select`, up to `Rounds` times. A statement of the claim may fail, or
commit and still be reported as failed (`GoOn`, "lost"): the request answers 503 and may own
the key all the same. An answer too large for the recorder goes to the client as it is, and
its key is released ("overflow"). The row's age is its only clock
(fresh, stale after five minutes, expired after a day). `ended[r]` and `kept` are
history: how r's claim ended, whose answer was stored.

### ParkedWait

A registration is one transaction under the card's row lock. A release is one too, but
it waits for other locks and for a provider, so it is taken statement by statement:
`BeginRelease` (the card locked, the snapshot checked), `SelectBlockers` (what the
locking select sees is of its start), `LockBlockers`, `ReadBlockers` (the fresh
statement), `LockAssignee`, `Verify`, `CommitRelease`; `Rollback` is any refusal, error,
crash or deadlock victim. The row locks are predicates (`locked`, `BlockersFree`,
`AssigneeFree`). An automatic evaluation (`eval[e]`) holds no lock: two readings of card,
edges and blockers, MoveTask's read, and the write under the card's lock, which reads
the registrations (`UpdateTransition`).

`card.version` is `tasks.version`; `card.edited` stands for `updated_at`, the version of
the last write that set it: a comment or an edge advances the first only. Everything
that refuses a snapshot or an automatic move and is no park label (gates, hold labels,
a start date, the assignee's kind) is `held`. A blocker is "done" when it has released
its edge by the edge's own condition. An edge released by evidence is one whose blocker
is done; that a release refuses such an edge when the blocker is deleted, and an
automatic move does not, is not told apart. The card and its project are not deleted.
The evidence a gate of MoveTask may write on the way, after which it expects a version
higher by exactly those writes, is left out.

## Runs

| Run | Instance | Shows |
|---|---|---|
| `checkout_lease` | 2 agents, 2 leases, 3 stages, 2 time steps | `LeaseHonored`, `GenerationFences`, and the refinement `LeaseSpec` |
| `checkout_reaper` | 1 agent, a person, the reaper, 4 stages, gates, shipped, markers, a usable and an unusable reviewer; fair | `IInv` (with `TypeOK` and `TerminalHoldsNoLease`), `ReaperTakesOnlyDeadWork`, `GatedCardClosedByPerson`, `ExpiredLeaseReclaimed`, `StaleCardHandedBack` |
| `reviewer_comment` | a project whose reviewer rule does not resolve | violates `ExplainedMoveGoesOn` |
| `chat_turns` | 1 message, 2 runners, 3 attempts, 2 events, three expiry settings, and a second message under `SecondMessageBound`; fair | the refinement `ThreadLifeSpec`, `ChatInv` (with `ReplyFollowsTurn`), `OneVoice`, `DeliveryTold`, `FinishedIsFinal`, `QueuedTurnLeaves`, `ClaimedTurnResolves` |
| `chat_sessions` | 1 turn, 2 runners (one a controller), 2 attempts, 2 bearers at a time | `SessionInv`, `StopIsFinal`, `StoppedTurnIsMute`, `OneExecution` |
| `reservations` | 2 agents on 1 task, 2 workers, 1 slot, 2 transactions, 2 time steps; 2 checkouts and changes of the catalog or an admission together (`CheckoutsAndChanges`) | `ReservationInv`, the refinement `AdmissionSpec` |
| `reservation_limits` | 2 attempts of 1 agent, 2 tasks, 2 workers, caps and capacities 1 and 2, 2 grant keys | `AdmitsWithinLimits` |
| `recurring` | 1 scheduler, 1 request (a trigger or an edit), 1 fault, limits none and 1; fair | `RecurringInv`, `StrandedOnlyByWriteBack`, `DueIsServed` |
| `events` | 2 transitions, 1 API event, 2 workers, 1 expiring event; fair | `DeliveryInv`, the refinement `TaskEventsSpec`, `CommitIsDelivered`, `ExpiredLeavesFeed` |
| `agent_auth` | 3 requests with an original key or 2 with another, 2 roles, 1 change of any row; fair | `AuthInv`, `RevokedKeyRefused`, `CheckedRoleApplies`, `RequestAnswered` |
| `idempotency` | 3 requests, 2 bodies, 2 rounds | `IdemInv`, `WrittenOnce`, `ReplayIsTrue`, the refinement `KeySpec` |
| `parked_waits` | 2 agents, 1 blocker, 2 registrations, 2 release ids, 1 release and 1 evaluation under way, 4 versions | `ParkedInv` (with `SnapshotUnchanged` and `AnswersAreReceipts`), `WakesOnlyFreed`, `AutomaticHonoursCard` |

Why the bounds are enough to be interesting. Two clients and two generations give a
lease, its loss and its successor, with the first client still holding what it was
told; three moments let a lease be taken, lapse, and be found by each phase. The runs
make one CAS attempt per move (`reviewer_comment` three): a conflict is then an answer
to the caller, who may call again. Three attempts on one message give a turn that is
re-handed twice and then meets the cap, two events a replayed batch and a new one. A
second message is needed to see that it waits for the first; it comes after a first that
was claimed once at most, under the default expiry and without late calls
(`SecondMessageBound`, a state constraint): what it adds is the order of the turns, and
every behaviour of the first message alone is still explored to the end. Of a behaviour
that goes on past the constraint the liveness properties say nothing. Reservations need
either a second checkout of the task or a change of the catalog or an admission between
two steps; `CheckoutsAndChanges` allows two such events, of one kind or of both. Two
transactions are enough for every pair of overlapping requests, and the property that
depends on a count (`AdmitsWithinLimits`) is checked at caps and capacities one below
and at the demand. One scheduler and one request overlap a scheduled run with every
trigger and edit; two schedulers are covered by the proofs only, because the instance
is beyond five minutes. Two transitions and two workers are the least in which an
order can be broken. Three requests of an agent are a running check, the one that opens the
queued check and one that joins it; the original key is the kind with the most ways through
a verification, and with the other two kinds two requests arrive (`ThreeAtHome`): one whose
verification or check is overtaken by a change and one that arrives after it. Requests are
alike, and are numbered as they arrive (`InOrder`); the first rows have the connection in
one role or revoked (`FirstRows`), and one change follows. Three requests with an idempotency key are a holder, its successor
and a bystander. One release and one evaluation overlap with every
writer of the card; two releases of one card exclude each other by its row lock, and the
proofs have any number. Four versions are three writes:
enough for a release or an automatic move between two other writers. Two bearers are an old and a new one in
either order of their timestamps, and purged rows are used again. Symmetry is used for
processes, workers, requests, attempts and bearers that are interchangeable, and never with a liveness property. The proofs
below remove these bounds for all of the safety properties.

Deadlock is checked for the checkout and for `reservation_limits`, where somebody can
always act. The other runs turn it off: a deleted thread, a revoked grant or the clock
at the bound on grants and time, a deleted schedule, a card at the bound of its version,
and requests that have all been answered are legitimate ends.

### Fairness

* `FairSpec` (checkout): the reaper runs every minute, so no phase waits for ever
  (weak fairness of `Sweep` and of the reaper's own call). Strong fairness of taking,
  reading and committing says that a window of milliseconds between a selection and
  its write is not hit by another writer or an error on every tick for ever. No
  client, person or agent is assumed to do anything.
* `SweepSpec` (chat): time passes and the per-minute sweeper runs on every replica.
  Runners are assumed to do nothing; `ClaimedTurnResolves` has the polling of some
  runner as an explicit premise (`Polling`), because the code ends a silent holder's
  claim only in another runner's poll. Its other premise is `HoldersStopRenewing`, that a
  lease lapses in the end: the code grants every renewal that comes in time, with no bound
  on their number (`chat_runner_claim_repo.go:260-272`), so a holder that renews for ever
  without starting keeps the turn for ever, whoever polls.
* `FairSpec` (recurring): the ticker of every replica goes on and a started run
  executes its statements; a run may still be abandoned and statements may fail, as
  often as `MaxFaults` says.
* `FairSpec` (events): workers, pg-writer, cleanup and a call in progress run on and a
  back-off ends (weak fairness); a publish and an acknowledgement that are tried again
  and again succeed some time (strong fairness): without a broker nothing is delivered.
* `FairSpec` (agent authentication): every goroutine that can go on does, and the checks
  and verifications have deadlines of their own in the code. No request is assumed to
  arrive or to be cancelled. `RequestAnswered` says that again and again nobody is waiting.

## Proofs

Everything below is checked by TLAPS for every value of the constants that satisfies
the modules' named assumptions (`ConstantsAssumption`, `OwnersAssumption`,
`ChatAssumption`, `SessionAssumption`, `ReservationAssumption`, `RecurringAssumption`, `DeliveryAssumption`,
`AuthAssumption`, `IdempotencyAssumption`, `ParkedAssumption`): any number of clients, agents, statuses,
messages, runners, attempts, keys, tasks, workers, pools, replicas, events and
requests, and any bound on the clock and counters.

* `TaskCheckout_proofs`. `LeaseHonored` alone is not inductive: a stale release must be
  known to name an older generation, a write must be known to come from a snapshot
  whose policy decision still holds. `IInv` adds `LeaseShape` (a held row is complete
  and its token is its generation's), `CallShape` (what each process can have in
  flight), `SnapshotsHold` (what a current snapshot was allowed on still holds of the
  row) and `PromiseShape` (a client knows only generations granted to its session).
  Most actions either keep the lease and advance the version (`KeepLease`), end the
  lease (`EndLease`) or write nothing (`NoWrite`); the grant (`AcquireStep`) and the
  guarded write (`MoveWriteStep`) are the two long cases. From `IInv` follow
  `InvariantHolds`, `TypesHold`, `LeasesHonored`, `ClosedCardsUnheld`, `MarkerHonest`
  and the action properties `ReaperSafe`, `GenerationsFence` and `GateHolds`, and
  `ImplementsLease`, the refinement: the same three kinds of steps are an allowed
  `Renew`, an `End` or a stutter, and the grant is a `Grant` because a live lease is
  refused unless the request is a retry, which changes nothing.
* `Chat_proofs`. `ChatInv` describes one row by its state (`RowShape`) and relates
  it to the history of claims that acted on it; every action changes one row or maps
  all rows, so one lemma (`OneRow`) carries most steps. It gives `MessageSeenOnce`,
  `DeliveryToldTruly` and `RepliesFollowTurns`; `StepsOnRow` gives `FinishedTurnsFinal`
  and `RevivalsOpenEpochs`. `ImplementsThreadLife` needs besides that one turn of a thread
  is open (`OneTurnOpen`): only then do a deletion and a poll, which map all rows, change
  one message (`OneChanges`). That invariant is in turn read off the abstract steps
  (`OneOpenKept`), so the two are proved by one induction. The second half is about the bearers. `SessionInv` carries over
  the steps of the turns because they never take an epoch or an attempt back (`TurnsGoOn`)
  and ask no running turn to stop (`CancelledHasStop`: only `Stop` does, and it leaves
  tombstones). A bearer is only ever weakened (`WeakeningKeeps`), except by `Issue`
  (`IssueKeeps`): it is refused for a session with a tombstone, which gives `StopsFinal`,
  and it cuts off every usable bearer of an older epoch while no newer one exists, which
  gives `OneExecutionAtATime` and needs nothing of the order of the timestamps.
  `StoppedTurnsMute` follows from the tombstones of running turns. `SessionsAreTurns`
  shows that the composition is a behaviour of `ChatTurn`: every joint step is a step of
  the turns or leaves them alone, and so `TurnsKeepPromises` has every safety theorem of
  the turns for the composed system. `OneRunnerInOrder` proves the documents' stronger
  promise, refuted below, from the one thing the code does not give: that mints of a
  session commit in the order of their `issued_at` (`MintedInOrder`). Then the latest
  bearer is of the newest epoch that has one (`LatestSpeaks`), and the comparison with it
  is the comparison with all.
* `RuntimeReservation_proofs`. `ReservationInv` ties rows, claims, open transactions
  and fences together. The core is `InsertStep`: the slot chosen is free (`LeastOf`,
  `FreeSlotIsFree`), the swept rows give up exactly their claims, and the locks of
  other open transactions exclude this one. It gives `ReservationsSound`,
  `RunsAdmitted` (two live processes share no task and no worker, and each occupies all its
  pools: `RunsAreAdmitted`), `OccupancyKept`, and `ImplementsAdmission`: the insert is an `Admit`
  that takes over exactly what its sweep ended (`InsertAdmits`), everything else that
  writes a reservation ends one admission or none (`EndEndsAdmission`, `OccupancyStays`).
  `CheckoutsAreLeases` discharges the environment. `AdmissionsLimited` is a counting argument on top:
  what an acquire has counted under its agent's lock stays below the limit it read until it
  inserts (`BelowLimit`), because no step but an insert of the same agent activates a
  reservation of it, and claims of a pool are counted by their slots (`SlotsCountClaims`).

* `RecurringSchedule_proofs`. The count argument: each step moves one instance from
  "about to be counted" to counted or lost, so `InstancesAccounted` needs the number of
  processes between creation and count (finite-set cardinality) and `LocalsKnown` (what
  a run names exists). `StrandedByWriteBack` shows that `next_run_at <= last_triggered_at`
  cannot arise from any other write.
* `EventDelivery_proofs`. `DeliveryInv` ties the queue to the open transactions
  (`RowsLocked`, `OnePlace`) and a delivered row to a stored message (`AckedIsStored`).
  Order is a fact about rows never taken (`QueueInOrder`): rows that come back from a
  back-off may be anywhere, so the invariant says nothing about them, and
  `StartsInOrder` follows because the first unlocked row is taken. `ImplementsTaskEvents`
  is the refinement: what is in flight or in the duplicate window JetStream has
  (`AckedIsStored`), so a copy comes from the stream, and a locked row is in the queue and
  so not delivered.
* `AgentAuth_proofs`. `VerdictIsCurrent` is the heart: what a verdict vouches for was so
  when each of those who wait for it arrived, or later. It rests on two facts. Nobody joins
  a running check (`JoinCheckInv`), so its reads come after its waiters; and what the reads
  look for is only ever lost (`RowsInOrder`): the rows of an arrival are `Earlier` than
  those of now (`ArrivedEarlier`), and a digest that was replaced does not come back
  (`OriginalEarlier`), so what is read now was so at the arrival. The connection's role is
  the exception, it changes to and fro, and is therefore compared with all roles given
  `since`. `CheckStep`, `VerifyStep`, `LeaveStep` and `ChangeInv` carry the actions of one
  kind each. `RevokedRefused` and `CheckedRolesApply` follow because only the end of a valid
  check and the end of a stored verification accept anybody (`AcceptedFrom`).
* `Idempotency_proofs`. `ClaimFirst` and `RowIsOf` say who may hold the row; the two
  writers of `WrittenOnce` would both hold it. `ImplementsIdempotentKey` reads the owner off
  the row; it needs besides that a request is answered once (`Pending`). Whatever drops the
  row ends the claim of its token (`DropForgets`), and an answer given from the row is true
  because the statement reads the row at that moment; a request that does not know whether its
  insert committed has written nothing (`ClaimFirst`), and says so. `AnswersKept` is the part about
  expiry on its own (`AnswerIsKept`).
* `ParkedWait_proofs`. A release keeps the card's row lock from its first check to its
  commit (`LockHeld`), so the version it began at is the version it commits at, and what
  it has read of blockers and assignee stays true behind their share locks
  (`ChecksHold`). An evaluation has no lock: `CandidateHolds` says that `updated_at` as
  it was read, or the version read with it, still in the row means the card is the
  candidate it was. Writers of the card all advance the version, so one lemma
  (`CardWriteInv`) carries them. From `ParkedInvariant` follow `SnapshotTheorem`,
  `AnswersTheorem`, `ReleaseWakesOnlyFreed` and `AutomaticTheorem`. `StaleStays` is the
  other side of the version: it never falls (`VersionNeverFalls`) and a commit closes only
  a registration that carries it, so one the card has left behind is never closed
  (`StaleWaitStays`).

Only model-checked: the liveness properties (fairness and ENABLED are outside the
prover). Every safety property that a passing run checks is proved.

## Where the code and its documents disagree

One defect is carried as a run that TLC must find violated:

* `reviewer_comment`: a move into review whose reviewer rule cannot be honoured first
  posts a comment in a transaction of its own. The comment's trigger advances
  `tasks.version`, the move's own write compares the version it read before and is
  refused; each retry posts another comment, and the card never enters review. The
  tests use mocks without the trigger.

Nine statements of the documents are defined in the modules and refuted by the code
too; to reproduce one, check it with the constants given:

* `NeverStranded` (`RecurringSchedule`, `INVARIANT` with the constants of `recurring`, a
  trigger as the request and no fault): `TriggerNow` of a schedule that is due, or becomes
  due meanwhile, leaves `next_run_at` where it was beside a newer `last_triggered_at`, and
  `FindDue` selects only rows whose last trigger is before the next run: the active
  schedule never runs again (`recurring_service.go:540`, against the comment above it,
  "don't disrupt the regular schedule").
* `FreshWaitSuffices` (`ParkedWait`, `INVARIANT` with the constants of `parked_waits`, one
  agent, no evaluation and six versions): a registration can be released only at the
  version it was made at, so any comment or edit makes it stale, and the documented way on
  is a fresh WAIT (`docs/parked-wait-api.md:41`). Nothing closes the stale registration,
  not even the release of the fresh one (`StaleStays` proves it), and automatic moves (`task_transition.go:62`) and
  product done (`transition_receipt_repo.go:224`) refuse the card while any is open: for
  good.
* `LapsedTurnResolves` (`ChatTurn`, `PROPERTY` with the constants of `chat_turns`, one
  message and one runner): a turn that was started and whose runner is gone is neither re-handed nor
  ended by anything, even while some runner polls, against `runner-chat-protocol.md:32` ("A lease that lapses returns
  the turn to the queue"); its thread accepts no further message.
* `EpochEndsBearers` (`ChatSession`, `PROPERTY` with the constants of `chat_sessions`): authentication never
  compares a bearer's epoch, so deleting a thread or a late renewal does not end the
  bearers issued before (`runner-chat-protocol.md:111`).
* `OneRunner` (`ChatSession`, `INVARIANT` with the constants of `chat_sessions`, three
  bearers, `MaxSeq` 0 and `MaxLate` 0): of an equal epoch "from another runner" the documents
  say it "is refused (409)" (`api-authentication.md:210`). The comparison is with the latest
  bearer by `issued_at` only (`chat_session_token_repo.go:74`). If that one is of an older
  epoch, because its mint read the clock later and committed earlier, the current epoch is
  given out again, to another runner, and both have a usable bearer. `OneExecution` is what
  is left of the promise; with mints in the order of their timestamps the whole of it
  holds (`OneRunnerInOrder`).
* `NoFalseDone` (`RecurringSchedule`, `PROPERTY` with the constants of `recurring` and no fault): a
  superseded instance nobody worked on is closed as done when the scheduler itself has
  commented on it, because a comment of any author counts (`task_service.go:4010`,
  `comment_repo.go:334`).
* `RoleAppliesToNext` (`AgentAuth`, `PROPERTY` with the constants of `agent_auth`, one kind of
  key and a fourth request):
  a waiter of a queued check returns the agent it looked up itself, while the check
  compared the role of the request that opened it (`agent_auth_cache.go:361` says a
  role change "must apply to the very next request on a warm entry"). `CheckedRoleApplies`
  is what is left, and proved: a request whose own role was compared acts in a current one.
* `ReplacedKeyRefused` (`AgentAuth`, `PROPERTY` with the constants of `agent_auth`): replacing an
  agent's original key "must end a login on every API instance at once"
  (`interfaces.go:916`). A verification compares the key with the connection and reads
  the agent's row, with its digest, afterwards (`agent_service.go:644`, `648`). A rotation by
  another process in between gives the login of the old key the new digest, so the entry
  it leaves is never found stale. `RevokedKeyRefused` has the login's digest as a condition.
* `AnsweredKeepsKey` (`Idempotency`, `INVARIANT` with the constants of `idempotency`): "answers
  with a status below 500 are kept and replayed" (`docs/idempotency.md:43`), but one larger
  than 1 MiB is sent to its client and its key released (`idempotency.go:132`): a retry
  runs again, after a success.

Seen in the models as well, and not carried as runs:

* a heartbeat sets the deadline to now plus its TTL: it shortens a longer legacy lease
  and revives one that has expired and was not swept (`task_repo.go:1951`), although
  the comment above it says "pushes checkout_expires forward for every live checkout";
* auto-progression after a checkout re-reads the row without an expected status and
  moves a card that was closed or parked in between (`task_service.go:3500`);
* `hand_off` moves a shipped card to todo without MoveTask's shipped check
  (`typed_outcome_command.go:200`);
* phase 1 of the reaper selects a gated or shipped card on every tick while its
  guarded write refuses it (`task_repo.go:1676`); `ExpiredLeaseReclaimed` therefore
  excepts such cards;
* a claim ends a queued turn by the deadline stored when it was sent, although the
  workspace has raised the setting since (`chat_runner_claim_repo.go:114`);
* a Stop leaves no tombstone for an earlier, finished turn that has no bearer yet, so a
  request for it that was validated before the Stop is minted after it
  (`chat_turn_lifecycle_repo.go:221`);
* a consume may commit on a grant revoked, or a checkout lapsed, since its transaction
  began (`runtime_reservation_repo.go:299`);
* two replicas that select one schedule both create an instance and then supersede each
  other's (`recurring_repo.go:294`: the row locks end with the select);
* the list of open instances is read once, so an instance its agent finished meanwhile
  may be relabelled as missed (`task_service.go:4055`);
* an edit writes back `is_active` and so may undo a quarantine (`recurring_service.go:494`);
* the pg-writer acknowledges a message whose upsert failed (`pgwriter.go:85`), although it
  is said to ensure "all events are persisted": an API event whose inline write and
  upsert both fail is in the stream only, and `NothingLost` says no more than that;
* a blocker reopened, or an edge added, after the second evaluation of an automatic
  transition does not stop it (`auto_transition.go:187`): neither sets the card's
  `updated_at`, and the card is moved to todo over an open blocker. The comment there
  ("also catches reblocks") is true of what happens between the two evaluations;
* a request may join a verification started before a revocation and be let in by it
  (`agent_auth_cache.go:196`): the exception for joined verifications in `RevokedKeyRefused`;
* re-inviting an agent into its home workspace renews the connection with a new key, and the
  original key is then accepted by the legacy lookup, in the role of a login without a
  connection (`agent_service.go:571`), also when that connection had been revoked;
* an insert that commits although its caller sees an error leaves a claim nobody completes:
  the retry is told "in progress" until the claim is stale (`idempotency_repo.go:52`).

## Not modelled

Listed with reasons in `PROJECT.json`. In short: components that are I/O or data
processing (sockets, webhooks, VCS, memory, notifications), rule
evaluation (a nondeterministic refusal here), and the protocols planned below.

## Plan

1. The policy, evidence and receipt of product done (`transition_receipt_repo.go`), and the
   parent's transition when its subtasks are done, over several cards.
2. Human gate decisions and their timeouts.
3. Agent keys and their limit (`agent_key_service.go`: a rotation neither locks nor counts
   against "never a third"), and the refresh rotation of OAuth.
