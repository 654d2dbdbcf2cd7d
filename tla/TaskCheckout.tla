--------------------------- MODULE TaskCheckout ---------------------------
(***************************************************************************)
(* The checkout lease of one task row, and everything that writes that     *)
(* row concurrently: the lease API, MoveTask with its optimistic version   *)
(* check, finish_task, the typed turn commands, heartbeats, the human gate *)
(* and the three-phase lease reaper.                                       *)
(*                                                                         *)
(* The SQL statements are the atomic steps.  A service call that reads the *)
(* row, decides, and writes later is split into one action per statement,  *)
(* with the in-flight call kept in `op`.                                   *)
(*                                                                         *)
(* tasks.version is only ever compared with the value a call read earlier, *)
(* and never repeats; the model keeps exactly that comparison: `current`   *)
(* is the set of processes whose read is still of the row's version.       *)
(* Tokens are fresh uuids, one per generation, and are represented by the  *)
(* generation they were minted for.  Statuses are their categories.        *)
(***************************************************************************)
EXTENDS Integers, FiniteSets

CONSTANTS
    Clients,       \* worker processes; a scoped checkout carries its client's session
    AgentOf,       \* the agent identity each client authenticates as
    Requests,      \* request ids of scoped checkouts
    Statuses,      \* the status categories the project has a status for
    TTLs,          \* ttl_minutes a client may ask for
    HeartbeatTTL,  \* mid_pipeline.heartbeat_checkout_extend_minutes
    NextTTL,       \* NextCheckoutExtension
    Grace,         \* DefaultUnleasedGrace
    WaitCap,       \* LiveWaitMarkerMaxAge
    CASAttempts,   \* moveTaskImplicitCASAttempts
    MaxTime,       \* bound on the clock
    MaxGeneration, \* bound on the leases granted
    MaxInFlight,   \* bound on the calls of clients and people in flight at once
    GateAuthors,   \* who raises the human gate
    Markers,       \* the comments written: TRUE with a WAIT/NEXT marker, FALSE without
    Shipments,     \* the values ship_task sets is_shipped to
    Commenting,    \* whose moves may end in a system comment
    ReviewerUsable,\* whether the project's reviewer rule resolves: the values met
    None, User, Reaper

Categories == {"triage", "backlog", "todo", "in_progress", "review", "done", "cancelled"}

ASSUME ConstantsAssumption ==
    /\ AgentOf \in [Clients -> {AgentOf[c] : c \in Clients}]
    /\ {"todo", "in_progress"} \subseteq Statuses /\ Statuses \subseteq Categories
    /\ TTLs \subseteq Nat \ {0}
    /\ HeartbeatTTL \in Nat \ {0} /\ NextTTL \in Nat \ {0}
    /\ Grace \in Nat /\ WaitCap \in Nat
    /\ CASAttempts \in Nat \ {0}
    /\ MaxTime \in Nat /\ MaxGeneration \in Nat /\ MaxInFlight \in Nat
    /\ GateAuthors \subseteq {AgentOf[c] : c \in Clients} \cup {User}
    /\ Markers \subseteq BOOLEAN /\ Shipments \subseteq BOOLEAN
    /\ ReviewerUsable \subseteq BOOLEAN /\ ReviewerUsable # {}
    /\ Commenting \subseteq Clients \cup {User, Reaper}
    /\ None \notin Clients \cup Requests \cup Statuses \cup Int
    /\ None \notin {AgentOf[c] : c \in Clients}
    /\ User \notin Clients \cup {None, Reaper} /\ Reaper \notin Clients \cup {None}
    /\ User \notin {AgentOf[c] : c \in Clients}

Agents == {AgentOf[c] : c \in Clients}
Procs == Clients \cup {User, Reaper}
Terminal == {"done", "cancelled"}

VARIABLES
    task,     \* the row: status, lease columns, gate, flags, last sign of life
    now,      \* the clock
    op,       \* the call each process has in flight
    current,  \* processes whose row snapshot is still of the current version
    phase,    \* the reaper's phase, 1..3
    promise,  \* what each client was last told about its lease
    stageBy   \* history: "checkout" when auto-progression set the current status

vars == <<task, now, op, current, phase, promise, stageBy>>

Scopes == {[session |-> None, request |-> None]} \cup
          [session : Clients, request : Requests]

TaskRow == [status : Statuses, stage : Statuses \cup {None},
            holder : Agents \cup {None}, token : Nat \cup {None},
            expires : Nat \cup {None}, session : Clients \cup {None},
            request : Requests \cup {None}, generation : Nat,
            gate : Agents \cup {User, None}, shipped : BOOLEAN,
            touched : Nat, marker : Nat \cup {None}]

Kinds == {"none", "checkout", "move", "finish", "expired", "unleased"}
Calls == [pc : {"idle", "acquire", "read", "explain", "write", "note"}, kind : Kinds,
          target : Statuses \cup {None}, tries : Nat]
Idle == [pc |-> "idle", kind |-> "none", target |-> None, tries |-> 0]
Call(pc, kind, target, tries) ==
    [pc |-> pc, kind |-> kind, target |-> target, tries |-> tries]

Promise == [generation : Nat, session : Clients \cup {None}, until : Nat]

-----------------------------------------------------------------------------
\* Mutant of Stored: no stage trigger.
StoredUnguarded(t) == t

\* The trigger tasks_checkout_stage_guard, run on every write of the row.
Stored(t) == IF t.stage = t.status THEN t ELSE [t EXCEPT !.stage = None]

\* A committed write: the stage trigger fires and the version advances.
Write(t) == task' = Stored(t) /\ current' = {}

Released(t) == [t EXCEPT !.holder = None, !.token = None, !.expires = None]

Live(t) == t.holder # None /\ t.expires > now
Lapsed(t) == t.holder = None \/ t.expires <= now

\* An explicit end of lease g: nothing is owed to whoever was told of it.
Voided(g) == [c \in Clients |->
    IF promise[c].generation = g THEN [promise[c] EXCEPT !.until = 0]
                                 ELSE promise[c]]

\* A new call; MaxInFlight bounds how many overlap, the reaper's apart.
Room == Cardinality({p \in Procs \ {Reaper} : op[p] # Idle}) < MaxInFlight
Begin(p, call) == op' = [op EXCEPT ![p] = call]
\* The call returns; a sweep that returns hands over to the next phase.
Return(p) ==
    /\ op' = [op EXCEPT ![p] = Idle]
    /\ phase' = IF p = Reaper THEN (phase % 3) + 1 ELSE phase

-----------------------------------------------------------------------------
(* CheckoutTask: pre-read, AcquireCheckout, then the status reflection.     *)

\* The pre-read.  target remembers wasTodo: where to reflect the checkout.
CheckoutTask(c) ==
    /\ op[c] = Idle /\ Room
    /\ task.status \notin Terminal
    /\ Begin(c, Call("acquire", "checkout",
                     IF task.status = "todo" THEN "in_progress" ELSE None, 0))
    /\ UNCHANGED <<task, now, current, phase, promise, stageBy>>

IsRetry(c, scope) ==
    /\ task.holder = AgentOf[c]
    /\ task.session = scope.session /\ task.request = scope.request
    /\ task.expires > now

\* The lease ended, but its request scope stands as a replay tombstone.
IsReplay(scope) ==
    /\ scope.request # None
    /\ task.request = scope.request /\ task.session = scope.session

\* Mutant of Acquires: one's own live lease may be taken over from another session.
AcquiresOwnLease(c, scope) ==
    /\ \/ IsRetry(c, scope)
       \/ (Lapsed(task) \/ task.holder = AgentOf[c]) /\ ~IsReplay(scope)
    /\ task.status \notin Terminal

Acquires(c, scope) ==
    /\ IsRetry(c, scope) \/ (Lapsed(task) /\ ~IsReplay(scope))
    /\ task.status \notin Terminal

\* Mutant of LeaseTo: taking over one's own expired lease keeps its generation.
LeaseKeepingGeneration(c, scope, ttl) ==
    [task EXCEPT !.holder = AgentOf[c], !.token = task.generation + 1,
                 !.expires = now + ttl,
                 !.session = scope.session, !.request = scope.request,
                 !.generation = IF task.holder = AgentOf[c] THEN @ ELSE @ + 1,
                 !.touched = now]

LeaseTo(c, scope, ttl) ==
    IF IsRetry(c, scope)
    THEN [task EXCEPT !.expires = IF scope.request # None THEN @ ELSE now + ttl,
                      !.touched = IF scope.request # None THEN @ ELSE now]
    ELSE [task EXCEPT !.holder = AgentOf[c], !.token = task.generation + 1,
                      !.expires = now + ttl,
                      !.session = scope.session, !.request = scope.request,
                      !.generation = @ + 1, !.touched = now]

AcquireCheckout(c, scope, ttl) ==
    /\ op[c].pc = "acquire"
    /\ scope.session \in {c, None}
    /\ IF Acquires(c, scope)
       THEN LET t == LeaseTo(c, scope, ttl) IN
            /\ t.generation <= MaxGeneration
            /\ Write(t)
            /\ promise' = [promise EXCEPT ![c] =
                 [generation |-> t.generation, session |-> t.session,
                  until |-> t.expires]]
            /\ Begin(c, IF op[c].target = None THEN Idle
                        ELSE Call("read", "checkout", op[c].target, CASAttempts))
       ELSE Begin(c, Idle) /\ UNCHANGED <<task, current, promise>>
    /\ UNCHANGED <<now, phase, stageBy>>

-----------------------------------------------------------------------------
(* Release and extension: the caller names the lease it was told of.        *)

\* Mutant of ReleaseCheckout: the row is not compared with the lease named.
ReleaseUnfenced(c) ==
    /\ promise[c].generation > 0
    /\ task.holder # None
    /\ Write([Released(task) EXCEPT !.touched = now])
    /\ promise' = Voided(promise[c].generation)
    /\ UNCHANGED <<now, op, phase, stageBy>>

\* CompareReleaseCheckout by token, or by (holder, session, generation).
ReleaseCheckout(c) ==
    /\ promise[c].generation > 0
    /\ task.holder # None
    /\ \/ task.token = promise[c].generation
       \/ /\ promise[c].session # None
          /\ task.holder = AgentOf[c] /\ task.session = promise[c].session
          /\ task.generation = promise[c].generation
    /\ Write([Released(task) EXCEPT !.touched = now])
    /\ promise' = Voided(promise[c].generation)
    /\ UNCHANGED <<now, op, phase, stageBy>>

\* The legacy self-release of an unscoped lease: the identity is enough.
SelfReleaseCheckout(c) ==
    /\ task.holder = AgentOf[c] /\ task.session = None
    /\ Write([Released(task) EXCEPT !.touched = now])
    /\ UNCHANGED <<now, op, phase, promise, stageBy>>

\* Admin recovery: a person names a holder, session and generation.
ForceReleaseCheckout(holder, session, generation) ==
    /\ generation > 0
    /\ task.holder = holder /\ task.session = session
    /\ task.generation = generation
    /\ Write([Released(task) EXCEPT !.touched = now])
    /\ promise' = Voided(generation)
    /\ UNCHANGED <<now, op, phase, stageBy>>

\* ExtendScopedCheckout: only a live lease, and only the one that was told.
ExtendCheckout(c, ttl) ==
    /\ promise[c].generation > 0
    /\ Live(task)
    /\ \/ task.token = promise[c].generation
       \/ /\ promise[c].session # None
          /\ task.holder = AgentOf[c] /\ task.session = promise[c].session
          /\ task.generation = promise[c].generation
    /\ Write([task EXCEPT !.expires = now + ttl, !.touched = now])
    /\ promise' = [promise EXCEPT ![c].until = now + ttl]
    /\ UNCHANGED <<now, op, phase, stageBy>>

ExtendCheckoutsOnHeartbeat(a) ==
    /\ task.holder = a /\ task.session = None /\ task.expires # None
    /\ Write([task EXCEPT !.expires = now + HeartbeatTTL, !.touched = now])
    /\ UNCHANGED <<now, op, phase, promise, stageBy>>

\* CommitTurn: continue_next, wait_for, hand_off, by the live holder's agent.
\* Each also writes a comment, which carries no outcome marker.
ContinueNext(c) ==
    /\ task.holder = AgentOf[c] /\ Live(task)
    /\ Write([task EXCEPT !.expires = IF now + NextTTL > @ THEN now + NextTTL ELSE @,
                          !.touched = now, !.marker = None])
    /\ UNCHANGED <<now, op, phase, promise, stageBy>>

WaitFor(c) ==
    /\ task.holder = AgentOf[c] /\ Live(task)
    /\ Write([Released(task) EXCEPT !.touched = now, !.marker = None])
    /\ promise' = Voided(task.generation)
    /\ UNCHANGED <<now, op, phase, stageBy>>

HandOff(c) ==
    /\ task.holder = AgentOf[c] /\ Live(task)
    /\ Write([Released(task) EXCEPT !.status = "todo",
                                    !.touched = now, !.marker = None])
    /\ promise' = Voided(task.generation)
    /\ stageBy' = IF task.status = "todo" THEN stageBy ELSE "other"
    /\ UNCHANGED <<now, op, phase>>

-----------------------------------------------------------------------------
(* MoveTask: read the row, decide, write guarded by the version read.       *)

ByReaper(m) == m.kind \in {"expired", "unleased"}
\* Who the move is made as; auto-progression and the reaper move as SYSTEM.
Actor(p, m) == CASE ByReaper(m) \/ m.kind = "checkout" -> None
                 [] p = User -> User
                 [] OTHER -> AgentOf[p]

\* What moveTaskOnce refuses on the row it read.
Refuses(p, m) ==
    \/ ByReaper(m) /\ p \notin current
    \/ m.kind = "finish" /\ task.holder # AgentOf[p] /\ Live(task)
    \/ /\ m.target # task.status
       /\ \/ /\ task.gate # None /\ Actor(p, m) # User
             /\ \/ m.target \in Terminal
                \/ m.target = "backlog" /\ (Actor(p, m) = None \/ task.gate # Actor(p, m))
          \/ task.shipped /\ m.target # "done"

\* resolveReviewTarget: a card entering review whose reviewer cannot be assigned
\* is told so before the write.
AfterRead(m, usable) ==
    IF m.target = "review" /\ task.status # "review" /\ ~usable
    THEN "explain" ELSE "write"

\* The read half of moveTaskOnce: refuse, find nothing to change, or go on.
Read(p, m) ==
    /\ IF Refuses(p, m) \/ (m.target = task.status /\ m.kind # "finish")
       THEN Return(p) /\ current' = current \ {p}
       ELSE /\ \E usable \in ReviewerUsable :
                 Begin(p, [m EXCEPT !.pc = AfterRead(m, usable)])
            /\ current' = current \cup {p}
            /\ UNCHANGED phase
    /\ UNCHANGED <<task, now, promise, stageBy>>

MoveTask(p, target) ==
    /\ op[p] = Idle /\ Room
    /\ Read(p, Call("read", "move", target, CASAttempts))

FinishTask(c, target) ==
    /\ op[c] = Idle /\ Room
    /\ target \in {"done", "review"}
    /\ Read(c, Call("read", "finish", target, CASAttempts))

\* The read of the reflection after a checkout, of a retry, or of a sweep.
MoveRead(p) == op[p].pc = "read" /\ Read(p, op[p])

\* postReviewerNotAssignedComment: the comment is a transaction of its own, and
\* its trigger advances the version the move is about to compare.  A comment
\* that fails is only logged.
PostReviewerNotAssigned(p) ==
    /\ op[p].pc = "explain"
    /\ Write([task EXCEPT !.touched = now]) \/ UNCHANGED <<task, current>>
    /\ Begin(p, [op[p] EXCEPT !.pc = "write"])
    /\ UNCHANGED <<now, phase, promise, stageBy>>

\* The policies that are not modelled (workflow rules, evidence, DoD and
\* governance gates), an error, or a crash may end any call between statements.
Abandon(p) ==
    /\ op[p] # Idle
    /\ Return(p)
    /\ current' = current \ {p}
    /\ UNCHANGED <<task, now, promise, stageBy>>

OnCheckoutStage(t) == t.stage = t.status /\ t.status = "in_progress"
Expired(t) == t.expires # None /\ t.expires < now
Quiet(t) == t.touched + Grace < now

\* Mutant of ReaperGuard: the write trusts the selection for gate and flag.
ReaperGuardUngated(kind) ==
    /\ OnCheckoutStage(task)
    /\ CASE kind = "expired" -> Expired(task)
         [] kind = "unleased" -> task.holder = None /\ Quiet(task)

\* Mutant of ReaperGuard: an unleased card must not keep a replay tombstone.
ReaperGuardNoTombstone(kind) ==
    /\ task.gate = None /\ ~task.shipped /\ OnCheckoutStage(task)
    /\ CASE kind = "expired" -> Expired(task)
         [] kind = "unleased" ->
              task.holder = None /\ task.session = None /\ Quiet(task)

\* The predicates UpdateTransition adds to its UPDATE for a reaper move.
ReaperGuard(kind) ==
    /\ task.gate = None /\ ~task.shipped /\ OnCheckoutStage(task)
    /\ CASE kind = "expired" -> Expired(task)
         [] kind = "unleased" -> task.holder = None /\ Quiet(task)

WriteAdmitted(p) ==
    /\ p \in current
    /\ ByReaper(op[p]) => ReaperGuard(op[p].kind)
    /\ op[p].kind = "finish" =>
         (task.holder \in {None, AgentOf[p]} \/ Expired(task))

ReleasesLease(p) ==
    /\ task.holder # None
    /\ \/ op[p].target # task.status /\ op[p].target \in Terminal \cup {"review"}
       \/ op[p].kind = "finish"

\* The row UpdateTransition leaves behind.
Moved(p) ==
    LET m == op[p]
        t == [task EXCEPT !.status = m.target, !.touched = now,
                !.stage = IF m.kind = "checkout" /\ m.target # task.status
                          THEN m.target ELSE @,
                !.marker = IF m.kind = "finish" THEN None ELSE @]
    IN  CASE m.kind = "expired" ->
               [Released(t) EXCEPT !.session = None, !.request = None]
          [] m.kind # "expired" /\ ReleasesLease(p) -> Released(t)
          [] OTHER -> t

\* The call is done, or goes on to comment on the card: a hand-back tells why,
\* a move that rotated the assignee says so.
Answer(p) ==
    \/ Return(p)
    \/ /\ p \in Commenting
       /\ Begin(p, [op[p] EXCEPT !.pc = "note"]) /\ UNCHANGED phase

MoveWrite(p) ==
    /\ op[p].pc = "write"
    /\ IF WriteAdmitted(p)
       THEN /\ Write(Moved(p))
            /\ promise' = IF ReleasesLease(p) THEN Voided(task.generation) ELSE promise
            /\ stageBy' = CASE op[p].target = task.status -> stageBy
                            [] op[p].kind = "checkout" -> "checkout"
                            [] OTHER -> "other"
            /\ Answer(p)
       ELSE /\ IF op[p].tries > 1 /\ ~ByReaper(op[p])
               THEN /\ op' = [op EXCEPT ![p].pc = "read", ![p].tries = @ - 1]
                    /\ UNCHANGED phase
               ELSE Return(p)
            /\ current' = current \ {p}
            /\ UNCHANGED <<task, promise, stageBy>>
    /\ UNCHANGED now

\* postSystemComment, postAssigneeChangeComment: a transaction of its own and a
\* sign of life on the card, but a SYSTEM comment leaves the WAIT marker.
PostSystemComment(p) ==
    /\ op[p].pc = "note"
    /\ Write([task EXCEPT !.touched = now])
    /\ Return(p)
    /\ UNCHANGED <<now, promise, stageBy>>

-----------------------------------------------------------------------------
(* The reaper goroutine: three phases per tick, in order.                   *)

NextPhase == phase' = (phase % 3) + 1

\* Phase 1, FindExpiredInProgressCheckouts: the selected row is a snapshot.
SweepExpiredLeases ==
    /\ phase = 1 /\ op[Reaper] = Idle
    /\ IF Expired(task) /\ OnCheckoutStage(task)
       THEN /\ Begin(Reaper, Call("read", "expired", "todo", 1))
            /\ current' = current \cup {Reaper}
            /\ UNCHANGED phase
       ELSE NextPhase /\ UNCHANGED <<op, current>>
    /\ UNCHANGED <<task, now, promise, stageBy>>

\* Mutant of ReleaseExpiredCheckouts: every in_progress lease is left to phase 1.
ReleaseExpiredOutsideProgress ==
    /\ phase = 2
    /\ IF Expired(task) /\ task.status # "in_progress"
       THEN Write([Released(task) EXCEPT !.touched = now])
       ELSE UNCHANGED <<task, current>>
    /\ NextPhase
    /\ UNCHANGED <<now, op, promise, stageBy>>

\* Phase 2: one UPDATE clears the expired leases phase 1 does not own.
ReleaseExpiredCheckouts ==
    /\ phase = 2
    /\ IF Expired(task) /\ ~OnCheckoutStage(task)
       THEN Write([Released(task) EXCEPT !.touched = now])
       ELSE UNCHANGED <<task, current>>
    /\ NextPhase
    /\ UNCHANGED <<now, op, promise, stageBy>>

WaitMarkerLive(t) == t.marker # None /\ t.marker + WaitCap > now

StaleUnleased(t) ==
    /\ t.holder = None /\ OnCheckoutStage(t)
    /\ t.gate = None /\ ~t.shipped
    /\ Quiet(t) /\ ~WaitMarkerLive(t)

\* handBack: todo or, in a project that parks its stalled cards, backlog.
HandBackTargets == {"todo", "backlog"} \cap Statuses

\* Phase 3, FindStaleUnleasedInProgress and handBack; a card whose dependents
\* cannot be read is left for the next tick.
SweepUnleasedInProgress ==
    /\ phase = 3 /\ op[Reaper] = Idle
    /\ \/ /\ StaleUnleased(task)
          /\ \E target \in HandBackTargets :
               Begin(Reaper, Call("read", "unleased", target, 1))
          /\ current' = current \cup {Reaper}
          /\ UNCHANGED phase
       \/ NextPhase /\ UNCHANGED <<op, current>>
    /\ UNCHANGED <<task, now, promise, stageBy>>

-----------------------------------------------------------------------------
(* Other writers of the row, and the clock.                                 *)

\* A comment is a sign of life and bumps the version; its body may carry a
\* WAIT/NEXT outcome marker, and the latest comment decides.
AddComment(isMarker) ==
    /\ Write([task EXCEPT !.touched = now,
                          !.marker = IF isMarker THEN now ELSE None])
    /\ UNCHANGED <<now, op, phase, promise, stageBy>>

\* An artifact or a VCS link: the same, and the latest comment stays.
AttachEvidence ==
    /\ Write([task EXCEPT !.touched = now])
    /\ UNCHANGED <<now, op, phase, promise, stageBy>>

\* Mutant of ArmHumanGate: arming does not advance the version.
ArmGateUnversioned(author) ==
    /\ task' = [task EXCEPT !.gate = author, !.touched = now]
    /\ UNCHANGED <<now, op, current, phase, promise, stageBy>>

ArmHumanGate(author) ==
    /\ Write([task EXCEPT !.gate = author, !.touched = now])
    /\ UNCHANGED <<now, op, phase, promise, stageBy>>

ClearHumanGate ==
    /\ task.gate # None
    /\ Write([task EXCEPT !.gate = None, !.touched = now])
    /\ UNCHANGED <<now, op, phase, promise, stageBy>>

ShipTask(shipped) ==
    /\ task.shipped # shipped
    /\ Write([task EXCEPT !.shipped = shipped, !.touched = now])
    /\ UNCHANGED <<now, op, phase, promise, stageBy>>

Tick ==
    /\ now < MaxTime
    /\ now' = now + 1
    /\ UNCHANGED <<task, op, current, phase, promise, stageBy>>

-----------------------------------------------------------------------------
Init ==
    /\ task = [status |-> "todo", stage |-> None, holder |-> None,
               token |-> None, expires |-> None, session |-> None,
               request |-> None, generation |-> 0, gate |-> None,
               shipped |-> FALSE, touched |-> 0, marker |-> None]
    /\ now = 0
    /\ op = [p \in Procs |-> Idle]
    /\ current = {}
    /\ phase = 1
    /\ promise = [c \in Clients |-> [generation |-> 0, session |-> None, until |-> 0]]
    /\ stageBy = "other"

LeaseCall(c) ==
    \/ CheckoutTask(c)
    \/ \E scope \in Scopes, ttl \in TTLs : AcquireCheckout(c, scope, ttl)
    \/ ReleaseCheckout(c)
    \/ SelfReleaseCheckout(c)
    \/ \E ttl \in TTLs : ExtendCheckout(c, ttl)
    \/ ContinueNext(c)
    \/ WaitFor(c)
    \/ HandOff(c)
    \/ \E target \in Statuses : FinishTask(c, target)

Move(p) ==
    \/ MoveRead(p) \/ PostReviewerNotAssigned(p) \/ MoveWrite(p)
    \/ PostSystemComment(p) \/ Abandon(p)

Sweep == SweepExpiredLeases \/ ReleaseExpiredCheckouts \/ SweepUnleasedInProgress

Next ==
    \/ \E c \in Clients : LeaseCall(c)
    \/ \E a \in Agents : ExtendCheckoutsOnHeartbeat(a)
    \/ \E a \in Agents, s \in Clients \cup {None}, g \in 1 .. MaxGeneration :
         ForceReleaseCheckout(a, s, g)
    \/ \E p \in Procs \ {Reaper}, target \in Statuses : MoveTask(p, target)
    \/ \E p \in Procs : Move(p)
    \/ Sweep
    \/ \E isMarker \in Markers : AddComment(isMarker)
    \/ AttachEvidence
    \/ \E author \in GateAuthors : ArmHumanGate(author)
    \/ ClearHumanGate
    \/ \E shipped \in Shipments : ShipTask(shipped)
    \/ Tick

Spec == Init /\ [][Next]_vars

\* The reaper goroutine runs every tick, so no phase waits forever.  Its select
\* to write window is milliseconds out of 60 s: no other writer, error or
\* policy hits that window on every tick for ever.
ReaperTakes ==
    /\ phase = 3 /\ StaleUnleased(task)
    /\ SweepUnleasedInProgress
    /\ op'[Reaper] # Idle
ReaperReads == MoveRead(Reaper) /\ op'[Reaper].pc = "write"
ReaperCommits == op[Reaper].pc = "write" /\ WriteAdmitted(Reaper) /\ MoveWrite(Reaper)

FairSpec ==
    /\ Spec
    /\ WF_vars(Sweep)
    /\ WF_vars(MoveRead(Reaper) \/ MoveWrite(Reaper) \/ PostSystemComment(Reaper))
    /\ SF_vars(ReaperTakes)
    /\ SF_vars(ReaperReads)
    /\ SF_vars(ReaperCommits)

-----------------------------------------------------------------------------
(* Properties.                                                              *)

\* Every column and every in-flight call keeps its type.
TypeOK ==
    /\ task \in TaskRow
    /\ now \in Nat
    /\ op \in [Procs -> Calls]
    /\ current \subseteq Procs
    /\ phase \in 1 .. 3
    /\ promise \in [Clients -> Promise]
    /\ stageBy \in {"checkout", "other"}

\* A session-scoped lease is worth what the client was told: until the deadline
\* in the last response, and unless somebody explicitly ended that lease, the
\* row still names this agent, this session and this generation.  No checkout,
\* stale release or extension of another client, heartbeat or sweep takes it.
LeaseHonored ==
    \A c \in Clients :
      (promise[c].session = c /\ promise[c].until > now) =>
        /\ task.holder = AgentOf[c] /\ task.session = c
        /\ task.generation = promise[c].generation
        /\ task.expires >= promise[c].until

\* A closed card is in nobody's hands: a checkout that races the closing move
\* is either released by it or refused after it.
TerminalHoldsNoLease == task.status \in Terminal => task.holder = None

\* The stage marker the reaper trusts is set exactly while the current status
\* is the one a checkout's auto-progression set; whoever moves the card away,
\* or away and back, makes the stage an intentional one.
MarkerMeansCheckoutStage ==
    task.stage # None => task.stage = task.status /\ stageBy = "checkout"

\* The inductive invariant behind the proofs.  A held row is complete and its
\* token is its generation's; a call that has read the row has a target; what
\* a current snapshot was allowed on still holds of the row; and a client knows
\* only the generations granted to its own session.
LeaseShape ==
    /\ task.holder = None <=> task.expires = None
    /\ task.holder # None => task.token = task.generation /\ task.generation > 0
    /\ task.holder = None => task.token = None
    /\ (task.holder # None /\ task.session # None) =>
         task.holder = AgentOf[task.session]

CallShape ==
    \A p \in Procs :
      /\ op[p].pc \in {"read", "write"} => op[p].target \in Statuses
      /\ op[p].pc = "explain" => op[p].target = "review" /\ "review" \in Statuses
      /\ p = Reaper => op[p] = Idle \/ ByReaper(op[p])
      /\ p = User => op[p] = Idle \/ op[p].kind = "move"
      /\ p \in Clients => ~ByReaper(op[p])

SnapshotsHold ==
    \A p \in current :
      /\ (op[p].pc = "write" /\ op[p].target \in Terminal /\ op[p].target # task.status)
           => task.gate = None \/ p = User
      /\ op[p].kind = "unleased" => ~WaitMarkerLive(task)

PromiseShape ==
    \A c \in Clients :
      /\ promise[c].session \in {c, None}
      /\ promise[c].generation <= task.generation
      /\ (task.holder # None /\ promise[c].generation = task.generation) =>
            promise[c].session = task.session

IInv ==
    /\ TypeOK /\ LeaseShape /\ CallShape /\ SnapshotsHold /\ PromiseShape
    /\ LeaseHonored /\ TerminalHoldsNoLease /\ MarkerMeansCheckoutStage

\* The reaper moves a card only when nobody is working on it: no live lease, no
\* intentional stage, no raised gate, no shipped flag and, for a card without a
\* lease, no live WAIT declaration, whatever was committed since it selected it.
ReaperTakesOnlyDeadWork ==
    [][(MoveWrite(Reaper) /\ task' # task) =>
         /\ ~Live(task) /\ stageBy = "checkout"
         /\ task.gate = None /\ ~task.shipped
         /\ task.holder = None => ~WaitMarkerLive(task)]_vars

\* While a human gate is up, only a person closes the card, even when the gate
\* goes up between another actor's policy check and its write.
GatedCardClosedByPerson ==
    [][(task.gate # None /\ task'.status # task.status /\ task'.status \in Terminal)
         => MoveWrite(User)]_vars

\* Generations fence: they only grow, and a new holder, session or token always
\* comes with a new generation.
GenerationFences ==
    [][/\ task'.generation >= task.generation
       /\ (task'.holder # None /\ task'.generation = task.generation) =>
            /\ task'.holder = task.holder /\ task'.token = task.token
            /\ task'.session = task.session]_vars

\* The row is a WriterLease: whatever the moves, sweeps, commands and comments do
\* to the rest of the row, its lease columns only ever take the steps of a lease
\* that is granted over none or an expired one, renewed while its session is
\* alive, and ended.
LeaseOwners == [agent : Agents, session : Clients \cup {None}]
ASSUME OwnersAssumption == None \notin LeaseOwners
Lease == INSTANCE WriterLease WITH
    Owners <- LeaseOwners,
    Pinned <- {o \in LeaseOwners : o.session # None},
    owner <- IF task.holder = None THEN None
             ELSE [agent |-> task.holder, session |-> task.session],
    generation <- task.generation,
    until <- task.expires

LeaseSpec == Lease!Spec

\* An expired lease is eventually cleared, taken over or renewed, unless a gate
\* or the shipped flag holds the card.
ExpiredLeaseReclaimed ==
    Expired(task) ~> (~Expired(task) \/ task.gate # None \/ task.shipped)

\* A card left in progress with no lease and no sign of life is eventually
\* handed back or touched.
StaleCardHandedBack == StaleUnleased(task) ~> ~StaleUnleased(task)

-----------------------------------------------------------------------------
(* What the repository's tests say of the code, refuted by it.               *)

\* "the card sat in review on the executor with nothing explaining why" is what the
\* comment is for: explaining leaves the move's own snapshot current, so that the card gets there.
ExplainedMoveGoesOn ==
    [][\A p \in Procs : (PostReviewerNotAssigned(p) /\ p \in current) =>
                          WriteAdmitted(p)']_vars
=============================================================================
