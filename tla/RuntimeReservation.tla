------------------------ MODULE RuntimeReservation ------------------------
(***************************************************************************)
(* Execution admission of the runtime integration: before a controller     *)
(* starts a process for a task it reserves the agent's concurrency cap,    *)
(* the task, a worker slot and every quota pool, consumes the reservation, *)
(* renews it while the process runs and releases it with a proof that the  *)
(* process is gone.                                                        *)
(*                                                                         *)
(* An acquire is three steps, as its locks allow others between them: the  *)
(* transaction begins and loads the target (now() is frozen here, the      *)
(* connection row is shared); it takes the agent's advisory lock and       *)
(* checks (the task row is shared, the rows it sweeps are locked); it      *)
(* takes the pool locks, inserts and commits.  Consume and renew load the  *)
(* target first and do the rest under the reservation's row lock.  Any     *)
(* refusal, error or crash in between is Rollback.                         *)
(*                                                                         *)
(* A reservation is named by its idempotency key, unique per agent.  A     *)
(* checkout's request id is fixed by its generation.  The catalog's digest *)
(* and the profile revision and pool digest derived from it are compared   *)
(* together with its revision, which stands for them.  Each agent has one  *)
(* binding.  An admission is the grant key it was given for, 0 when it is  *)
(* off or does not cover the current catalog.                              *)
(***************************************************************************)
EXTENDS Integers, FiniteSets

CONSTANTS
    Agents, Tasks, Workers, Pools,
    Keys,          \* idempotency keys; each is one execution attempt
    AgentOf,       \* the agent that sends each key
    Procs,         \* API request handlers working at the same time
    ProfilePools,  \* the pool sets a profile may derive to
    TTL,           \* ttl_seconds
    RunLease,      \* run_lease_seconds
    CheckoutTTL,   \* lifetime of a checkout
    Capacities,    \* max_concurrency values of a pool
    Caps,          \* max_concurrent_tasks values of an agent
    MaxTime, MaxGeneration, MaxRevision, MaxGrantKey,  \* bounds
    None

ASSUME ReservationAssumption ==
    /\ AgentOf \in [Keys -> Agents]
    /\ ProfilePools \subseteq SUBSET Pools
    /\ TTL \in Nat /\ RunLease \in Nat /\ CheckoutTTL \in Nat \ {0}
    /\ Capacities \subseteq Nat /\ Caps \subseteq Nat
    /\ MaxTime \in Nat /\ MaxGeneration \in Nat
    /\ MaxRevision \in Nat /\ MaxGrantKey \in Nat
    /\ None \notin Agents \cup Tasks \cup Workers \cup Keys
    /\ IsFiniteSet(Pools)

VARIABLES
    res,       \* runtime_reservations, by key
    claims,    \* runtime_reservation_pool_claims
    fence,     \* runtime_reservation_fence_seq
    txn,       \* the transaction each handler has open
    lease,     \* the checkout columns of each task
    catalog,   \* the connection: latest revision and switch
    admission, \* each binding's receiving admission
    capacity,  \* max_concurrency of each pool
    cap,       \* max_concurrent_tasks of each agent
    grant,     \* each agent's grant: key fingerprint, not revoked
    run,       \* the controller's process for each attempt
    now

vars == <<res, claims, fence, txn, lease, catalog, admission, capacity, cap, grant, run, now>>
environment == <<lease, catalog, admission, capacity, cap, grant, run, now>>

States == {"none", "reserved", "consumed", "released", "expired"}
Rows == [state : States, task : Tasks \cup {None}, worker : Workers \cup {None},
         pools : SUBSET Pools, generation : Nat, revision : Nat,
         admission : Nat, grant : Nat, fence : Nat, expires : Nat,
         receipt : BOOLEAN]
Absent == [state |-> "none", task |-> None, worker |-> None, pools |-> {},
           generation |-> 0, revision |-> 0, admission |-> 0, grant |-> 0,
           fence |-> 0, expires |-> 0, receipt |-> FALSE]
Claims == [key : Keys, pool : Pools, slot : Nat \ {0}]

Transactions ==
    [pc : {"idle", "acquire", "insert", "consume", "renew"},
     key : Keys \cup {None}, at : Nat, grant : Nat,
     task : Tasks \cup {None}, worker : Workers \cup {None},
     pools : SUBSET Pools, limit : Nat, swept : SUBSET Keys]
Idle == [pc |-> "idle", key |-> None, at |-> 0, grant |-> 0, task |-> None,
         worker |-> None, pools |-> {}, limit |-> 0, swept |-> {}]

ProofKinds == {"no_child", "stopped_process_birth_proof", "not_started", "unproven"}

-----------------------------------------------------------------------------
\* Occupies the task, the worker, the pools and the agent's cap.
Active(k) == res[k].state \in {"reserved", "consumed"}

\* Mutant of Lapsed: the run lease frees a consumed reservation too.
LapsedRuns(k, time) == Active(k) /\ res[k].expires <= time

\* effectiveState: an unconsumed reservation past its TTL counts as expired.
Lapsed(k, time) == res[k].state = "reserved" /\ res[k].expires <= time

\* checkProfile: the switch is on and the admission is for this grant key.
Enabled(a, key) == catalog.active /\ admission[a].key = key

\* The row lock of an uncommitted sweep.
RowLocked(k) == \E q \in Procs : k \in txn[q].swept
\* Mutant of TaskShared: the writer check takes no lock.
TaskUnshared(t) == FALSE
\* FOR SHARE on the task row, held from the check to the commit.
TaskShared(t) == \E q \in Procs : txn[q].pc = "insert" /\ txn[q].task = t
\* FOR SHARE on the connection row, held by every open transaction.
ConnectionShared == \E q \in Procs : txn[q].pc # "idle"
\* Mutant of AgentLocked: acquires of one identity are not serialised.
AgentUnlocked(a) == FALSE
\* The advisory lock 'runtime-agent:'.
AgentLocked(a) == \E q \in Procs : txn[q].pc = "insert" /\ AgentOf[txn[q].key] = a

\* The caller still holds the live checkout; `time` is the transaction's now().
TaskWriter(t, a, generation, time) ==
    /\ lease[t].holder = a
    /\ lease[t].generation = generation
    /\ lease[t].expires > time

\* Neither the task nor the worker has another active reservation.
Unoccupied(t, w, swept) ==
    \A j \in Keys \ swept : Active(j) => res[j].task # t /\ res[j].worker # w

Used(q, swept) == {c.slot : c \in {d \in claims : d.pool = q /\ d.key \notin swept}}
FreeSlots(used) == (1..(Cardinality(used) + 1)) \ used
\* The search from 1 upwards; one slot more than are used is always free.
FreeSlot(used) == CHOOSE s \in FreeSlots(used) : \A r \in FreeSlots(used) : s <= r
ClaimsOf(k, ps, swept) == {[key |-> k, pool |-> q, slot |-> FreeSlot(Used(q, swept))] : q \in ps}

Without(keys) == {c \in claims : c.key \notin keys}
Ended(keys, state) == [j \in Keys |->
    IF j \in keys THEN [res[j] EXCEPT !.state = state] ELSE res[j]]

Open(p, t) == txn' = [txn EXCEPT ![p] = t]
Close(p) == txn' = [txn EXCEPT ![p] = Idle]

-----------------------------------------------------------------------------
(* AcquireReservation.                                                      *)

\* runtimeLoadTarget for key k: the bound agent with an unrevoked grant.
LoadTarget(p, k) ==
    /\ txn[p].pc = "idle"
    /\ grant[AgentOf[k]].live

BeginAcquire(p, k, t, w, ps) ==
    /\ LoadTarget(p, k)
    /\ Open(p, [Idle EXCEPT !.pc = "acquire", !.key = k, !.at = now,
                            !.grant = grant[AgentOf[k]].key,
                            !.task = t, !.worker = w, !.pools = ps])
    /\ UNCHANGED <<res, claims, fence, environment>>

\* Reads under the agent's lock.  A known key is answered with the stored
\* row, whatever its state, which changes nothing.
CheckAcquire(p) ==
    LET t == txn[p]
        a == AgentOf[t.key]
        swept == {j \in Keys : Lapsed(j, t.at)}
    IN /\ t.pc = "acquire"
       /\ ~AgentLocked(a)
       /\ res[t.key].state = "none"
       /\ Enabled(a, t.grant)
       /\ TaskWriter(t.task, a, lease[t.task].generation, t.at)
       /\ \A j \in swept : ~RowLocked(j)
       /\ Cardinality({j \in Keys \ swept : Active(j) /\ AgentOf[j] = a}) < cap[a]
       /\ Unoccupied(t.task, t.worker, swept)
       /\ Open(p, [t EXCEPT !.pc = "insert", !.limit = cap[a], !.swept = swept])
       /\ UNCHANGED <<res, claims, fence, environment>>

\* Pool counts under the pools' locks, the two inserts and the commit, which
\* also publishes the sweep.  The partial unique indexes decide the insert.
InsertReservation(p) ==
    LET t == txn[p]
    IN /\ t.pc = "insert"
       /\ \A q \in t.pools : Cardinality(Used(q, t.swept)) < capacity[q]
       /\ Unoccupied(t.task, t.worker, t.swept)
       /\ res' = [Ended(t.swept, "expired") EXCEPT ![t.key] =
                    [state |-> "reserved", task |-> t.task, worker |-> t.worker,
                     pools |-> t.pools, generation |-> lease[t.task].generation,
                     revision |-> catalog.revision,
                     admission |-> admission[AgentOf[t.key]].revision, grant |-> t.grant,
                     fence |-> fence, expires |-> t.at + TTL, receipt |-> FALSE]]
       /\ claims' = Without(t.swept) \cup ClaimsOf(t.key, t.pools, t.swept)
       /\ fence' = fence + 1
       /\ Close(p)
       /\ UNCHANGED environment

\* A refusal, an error or a crash before the commit; a replayed answer.
Rollback(p) ==
    /\ txn[p].pc # "idle"
    /\ Close(p)
    /\ UNCHANGED <<res, claims, fence, environment>>

-----------------------------------------------------------------------------
(* ConsumeReservation, RenewReservation, ReleaseReservation.                *)

BeginConsume(p, k) ==
    /\ LoadTarget(p, k) /\ res[k].state # "none"
    /\ Open(p, [Idle EXCEPT !.pc = "consume", !.key = k, !.at = now,
                            !.grant = grant[AgentOf[k]].key])
    /\ UNCHANGED <<res, claims, fence, environment>>

\* What consume and renew check of the bound grant and checkout.
BoundWriter(k, seen, time) ==
    /\ seen = res[k].grant
    /\ TaskWriter(res[k].task, AgentOf[k], res[k].generation, time)

\* Still admitted, under the catalog and the admission of the acquire.
Unrevised(k, seen) ==
    /\ Enabled(AgentOf[k], seen)
    /\ catalog.revision = res[k].revision
    /\ admission[AgentOf[k]].revision = res[k].admission

Consumable(k, seen, time) ==
    /\ res[k].state = "reserved" /\ ~Lapsed(k, now)
    /\ BoundWriter(k, seen, time) /\ Unrevised(k, seen)

Consumed(k, time) == [res[k] EXCEPT !.state = "consumed", !.receipt = TRUE,
                                    !.expires = time + RunLease]

CommitConsume(p) ==
    LET t == txn[p]
    IN /\ t.pc = "consume" /\ ~RowLocked(t.key)
       /\ Consumable(t.key, t.grant, t.at)
       /\ res' = [res EXCEPT ![t.key] = Consumed(t.key, t.at)]
       /\ Close(p)
       /\ UNCHANGED <<claims, fence, environment>>

\* runtimeExpireOne, committed before the 410 answer.
ExpireOnConsume(p) ==
    LET k == txn[p].key
    IN /\ txn[p].pc = "consume" /\ ~RowLocked(k) /\ Lapsed(k, now)
       /\ res' = Ended({k}, "expired") /\ claims' = Without({k})
       /\ Close(p)
       /\ UNCHANGED <<fence, environment>>

BeginRenew(p, k) ==
    /\ LoadTarget(p, k) /\ res[k].state # "none"
    /\ Open(p, [Idle EXCEPT !.pc = "renew", !.key = k, !.at = now,
                            !.grant = grant[AgentOf[k]].key])
    /\ UNCHANGED <<res, claims, fence, environment>>

Later(x, y) == IF x > y THEN x ELSE y

CommitRenew(p) ==
    LET t == txn[p]
    IN /\ t.pc = "renew"
       /\ res[t.key].state = "consumed" /\ BoundWriter(t.key, t.grant, t.at)
       /\ res' = [res EXCEPT ![t.key] = 
                    [res[t.key] EXCEPT !.expires = Later(res[t.key].expires, t.at + RunLease)]]
       /\ Close(p)
       /\ UNCHANGED <<claims, fence, environment>>

ProofAccepted(stopped, kind, state) ==
    /\ stopped
    /\ \/ kind \in {"no_child", "stopped_process_birth_proof"}
       \/ kind = "not_started" /\ state = "reserved"

\* The bound agent or a workspace admin, with the exact fence and writer; no
\* live grant or checkout is asked for.  Whoever claims `stopped` tells the
\* truth: the attempt's process is gone and will not start.
ReleaseReservation(k, stopped, kind) ==
    /\ stopped => run[k] = "gone"
    /\ ~RowLocked(k)
    /\ IF Lapsed(k, now)
         THEN res' = Ended({k}, "expired")
         ELSE /\ Active(k) /\ ProofAccepted(stopped, kind, res[k].state)
              /\ res' = Ended({k}, "released")
    /\ claims' = Without({k})
    /\ UNCHANGED <<fence, txn, environment>>

-----------------------------------------------------------------------------
(* The controller, outside the repository: it starts a process when the     *)
(* answer to a consume reaches it, however late, at most once per attempt.  *)

StartProcess(k) ==
    /\ res[k].receipt /\ run[k] = "none"
    /\ run' = [run EXCEPT ![k] = "live"]
    /\ UNCHANGED <<res, claims, fence, txn, lease, catalog, admission, capacity, cap, grant, now>>

\* The process exits, or the controller gives the attempt up unstarted.
EndAttempt(k) ==
    /\ res[k].state # "none" /\ run[k] # "gone"
    /\ run' = [run EXCEPT ![k] = "gone"]
    /\ UNCHANGED <<res, claims, fence, txn, lease, catalog, admission, capacity, cap, grant, now>>

-----------------------------------------------------------------------------
(* What the rest of the system changes around reservations.                 *)

\* A checkout of a free or lapsed task; it writes the task row.
TakeLease(t, a) ==
    /\ lease[t].generation < MaxGeneration
    /\ lease[t].holder = None \/ lease[t].expires <= now
    /\ ~TaskShared(t)
    /\ lease' = [lease EXCEPT ![t] = [holder |-> a, expires |-> now + CheckoutTTL,
                                      generation |-> @.generation + 1]]
    /\ UNCHANGED <<res, claims, fence, txn, catalog, admission, capacity, cap, grant, run, now>>

\* The holder's heartbeat, which revives an expired checkout as well, or its extension.
RenewLease(t) ==
    /\ lease[t].holder # None /\ ~TaskShared(t)
    /\ lease' = [lease EXCEPT ![t].expires = now + CheckoutTTL]
    /\ UNCHANGED <<res, claims, fence, txn, catalog, admission, capacity, cap, grant, run, now>>

DropLease(t) ==
    /\ lease[t].holder # None /\ ~TaskShared(t)
    /\ lease' = [lease EXCEPT ![t].holder = None]
    /\ UNCHANGED <<res, claims, fence, txn, catalog, admission, capacity, cap, grant, run, now>>

\* A catalog save: a new revision, refused unless every bound grant is active.
\* Only the admissions whose projection did not change are carried over.
SaveCatalog(newCapacity, carried) ==
    /\ ~ConnectionShared /\ catalog.revision < MaxRevision
    /\ \A a \in Agents : grant[a].live
    /\ capacity' = newCapacity
    /\ catalog' = [catalog EXCEPT !.revision = @ + 1]
    /\ admission' = [a \in Agents |->
         IF a \in carried THEN admission[a] ELSE [admission[a] EXCEPT !.key = 0]]
    /\ UNCHANGED <<res, claims, fence, txn, lease, cap, grant, run, now>>

\* The receiving workspace grants or withdraws the binding.
Admit(a, on) ==
    /\ ~ConnectionShared /\ admission[a].revision < MaxRevision
    /\ grant[a].live
    /\ admission' = [admission EXCEPT ![a] =
         [revision |-> @.revision + 1, key |-> IF on THEN grant[a].key ELSE 0]]
    /\ UNCHANGED <<res, claims, fence, txn, lease, catalog, capacity, cap, grant, run, now>>

\* The switch; the flip is a revision of its own, with the same catalog.
SetRunnerActive(on) ==
    /\ ~ConnectionShared /\ catalog.revision < MaxRevision /\ catalog.active # on
    /\ catalog' = [revision |-> catalog.revision + 1, active |-> on]
    /\ UNCHANGED <<res, claims, fence, txn, lease, admission, capacity, cap, grant, run, now>>

\* max_concurrent_tasks is edited without regard to reservations.
SetCap(a, n) ==
    /\ n # cap[a]
    /\ cap' = [cap EXCEPT ![a] = n]
    /\ UNCHANGED <<res, claims, fence, txn, lease, catalog, admission, capacity, grant, run, now>>

\* Rotation, revocation or reinvitation of the grant; nothing locks it.
ChangeGrant(a, live) ==
    /\ grant[a].key < MaxGrantKey
    /\ grant' = [grant EXCEPT ![a] = [key |-> @.key + 1, live |-> live]]
    /\ UNCHANGED <<res, claims, fence, txn, lease, catalog, admission, capacity, cap, run, now>>

Tick ==
    /\ now < MaxTime
    /\ now' = now + 1
    /\ UNCHANGED <<res, claims, fence, txn, lease, catalog, admission, capacity, cap, grant, run>>

-----------------------------------------------------------------------------
Init ==
    /\ res = [k \in Keys |-> Absent]
    /\ claims = {}
    /\ fence = 1
    /\ txn = [p \in Procs |-> Idle]
    /\ lease = [t \in Tasks |-> [holder |-> None, generation |-> 0, expires |-> 0]]
    /\ catalog = [revision |-> 1, active |-> TRUE]
    /\ admission = [a \in Agents |-> [revision |-> 1, key |-> 1]]
    /\ capacity \in [Pools -> Capacities]
    /\ cap \in [Agents -> Caps]
    /\ grant = [a \in Agents |-> [key |-> 1, live |-> TRUE]]
    /\ run = [k \in Keys |-> "none"]
    /\ now = 0

Acquiring(p) ==
    \/ \E k \in Keys, t \in Tasks, w \in Workers, ps \in ProfilePools :
         BeginAcquire(p, k, t, w, ps)
    \/ CheckAcquire(p) \/ InsertReservation(p) \/ Rollback(p)

Holding(p) ==
    \/ \E k \in Keys : BeginConsume(p, k) \/ BeginRenew(p, k)
    \/ CommitConsume(p) \/ ExpireOnConsume(p) \/ CommitRenew(p)

Attempt(k) ==
    \/ \E stopped \in BOOLEAN, kind \in ProofKinds : ReleaseReservation(k, stopped, kind)
    \/ StartProcess(k) \/ EndAttempt(k)

Around ==
    \/ \E t \in Tasks : DropLease(t) \/ RenewLease(t) \/ \E a \in Agents : TakeLease(t, a)
    \/ \E c \in [Pools -> Capacities], carried \in SUBSET Agents : SaveCatalog(c, carried)
    \/ \E on \in BOOLEAN : SetRunnerActive(on) \/ \E a \in Agents : Admit(a, on)
    \/ \E a \in Agents : (\E n \in Caps : SetCap(a, n)) \/ \E live \in BOOLEAN : ChangeGrant(a, live)
    \/ Tick

Next ==
    \/ \E p \in Procs : Acquiring(p) \/ Holding(p)
    \/ \E k \in Keys : Attempt(k)
    \/ Around

Spec == Init /\ [][Next]_vars

-----------------------------------------------------------------------------
(* Properties.                                                              *)

\* Every column and every open transaction keeps its shape.
TypeOK ==
    /\ res \in [Keys -> Rows]
    /\ claims \subseteq Claims /\ IsFiniteSet(claims)
    /\ fence \in Nat \ {0}
    /\ txn \in [Procs -> Transactions]
    /\ lease \in [Tasks -> [holder : Agents \cup {None}, generation : Nat, expires : Nat]]
    /\ catalog \in [revision : Nat, active : BOOLEAN]
    /\ admission \in [Agents -> [revision : Nat, key : Nat]]
    /\ capacity \in [Pools -> Capacities]
    /\ cap \in [Agents -> Caps]
    /\ grant \in [Agents -> [key : Nat, live : BOOLEAN]]
    /\ run \in [Keys -> {"none", "live", "gone"}]
    /\ now \in Nat

\* Exactly the active reservations hold claims, one in each of their pools.
ClaimsAreOccupancy ==
    /\ \A c \in claims : Active(c.key) /\ c.pool \in res[c.key].pools
    /\ \A k \in Keys : Active(k) =>
         \A q \in res[k].pools : \E c \in claims : c.key = k /\ c.pool = q
    /\ \A c, d \in claims : c.key = d.key /\ c.pool = d.pool => c = d

\* No two claims share a slot of a pool, and no slot lies beyond the largest
\* capacity the pool may have been given.
SlotsWithinCapacity ==
    /\ \A c, d \in claims : c.pool = d.pool /\ c.slot = d.slot => c = d
    /\ \A c \in claims : \E n \in Capacities : c.slot <= n

\* One active reservation per task and per worker
\* (runtime_reservations_active_task, runtime_reservations_active_worker).
OneWriter ==
    \A j, k \in Keys : Active(j) /\ Active(k) /\ j # k =>
        res[j].task # res[k].task /\ res[j].worker # res[k].worker

\* What the open transactions rely on: the rows they sweep stay lapsed, and
\* the agent's and the tasks' locks are held by one of them.
OpenTransactions ==
    \A p \in Procs :
        /\ txn[p].pc # "idle" => txn[p].key \in Keys
        /\ txn[p].at <= now
        /\ txn[p].pc # "insert" => txn[p].swept = {}
        /\ txn[p].pc \in {"acquire", "insert"} => txn[p].task \in Tasks /\ txn[p].worker \in Workers
        /\ \A j \in txn[p].swept : Lapsed(j, now)
        /\ txn[p].pc = "insert" =>
             /\ res[txn[p].key].state = "none"
             /\ lease[txn[p].task].holder = AgentOf[txn[p].key]
        /\ \A q \in Procs : txn[p].pc = "insert" /\ txn[q].pc = "insert" /\ p # q =>
             /\ AgentOf[txn[p].key] # AgentOf[txn[q].key]
             /\ txn[p].swept \cap txn[q].swept = {}

\* A row's history: the fence is younger than the sequence, a receipt belongs
\* to a consumed or released row, and a process only to a receipt.
RowHistory ==
    \A k \in Keys :
        /\ res[k].fence < fence
        /\ res[k].state = "none" => res[k] = Absent /\ run[k] = "none"
        /\ res[k].state # "none" =>
             res[k].task \in Tasks /\ res[k].worker \in Workers /\ res[k].fence > 0
        /\ res[k].state = "consumed" => res[k].receipt
        /\ res[k].receipt => res[k].state \in {"consumed", "released"}
        /\ run[k] = "live" => res[k].receipt
        /\ res[k].state = "released" => run[k] = "gone"

\* A later fence on a task belongs to the same or a later checkout of it, and
\* no reservation belongs to a checkout that has not been granted.
FencesOrderWriters ==
    \A k \in Keys : res[k].state # "none" =>
        /\ res[k].generation <= lease[res[k].task].generation
        /\ \A j \in Keys : res[j].task = res[k].task /\ res[j].fence < res[k].fence =>
               res[j].generation <= res[k].generation

\* The inductive invariant: occupancy is exact and within capacity, each task
\* and worker has one active reservation, fences follow the checkouts they
\* were taken under, and the open transactions' locks protect what they read
\* (AcquireReservation and the indexes of runtime_reservations).
ReservationInv ==
    /\ TypeOK /\ ClaimsAreOccupancy /\ SlotsWithinCapacity /\ OneWriter
    /\ OpenTransactions /\ RowHistory /\ FencesOrderWriters

\* Two live processes never share a task or a worker, and a live process
\* occupies all its pools: whatever lapses, passes on or is retried in the
\* meantime, a process never outlives its admission
\* (ReleaseReservation, runtimeSweepExpired, ConsumeReservation).
RunsAreAdmitted ==
    \A k \in Keys : run[k] = "live" =>
        /\ res[k].state = "consumed"
        /\ \A q \in res[k].pools : \E c \in claims : c.key = k /\ c.pool = q
        /\ \A j \in Keys \ {k} : run[j] = "live" =>
             res[j].task # res[k].task /\ res[j].worker # res[k].worker

\* An acquire that commits leaves its agent within the cap its transaction
\* read and each of its pools within the current capacity, although acquires
\* overlap (AcquireReservation, the advisory locks).
AdmitsWithinLimits == [][
    \A k \in Keys : res[k].state = "none" /\ res'[k].state = "reserved" =>
        /\ \E p \in Procs :
             /\ txn[p].key = k
             /\ Cardinality({j \in Keys : res'[j].state \in {"reserved", "consumed"}
                                        /\ AgentOf[j] = AgentOf[k]}) <= txn[p].limit
        /\ \A q \in res'[k].pools :
             Cardinality({c \in claims' : c.pool = q}) <= capacity[q]]_vars

\* Only a proven release ends a consumed reservation: until then neither time
\* nor a new catalog, cap, grant or checkout takes its claims, and an ended
\* reservation and a receipt stay as they are (ReleaseReservation,
\* runtimeSweepExpired, runtimeExpireOne).
OccupancyEndsByRelease == [][
    \A k \in Keys :
        /\ res[k].state = "consumed" =>
             \/ res'[k].state = "consumed" /\ \A c \in claims : c.key = k => c \in claims'
             \/ res'[k].state = "released" /\ run[k] = "gone"
        /\ res[k].state \in {"released", "expired"} => res'[k] = res[k]
        /\ res[k].receipt => res'[k].receipt]_vars

\* What an attempt occupies: its task, its worker and its slots.
Occupancy(k) ==
    [task |-> res[k].task, worker |-> res[k].worker,
     slots |-> {<<c.pool, c.slot>> : c \in {d \in claims : d.key = k}}]

\* Reservations are the admissions the fleet relies on: exclusive, given once, unchanged
\* while they last, and every process runs inside its own, whatever lapses, is swept, is
\* retried or overlaps (AcquireReservation, ConsumeReservation, ReleaseReservation).
Fleet == INSTANCE Admission WITH
    Attempts <- Keys,
    held <- [k \in {j \in Keys : Active(j)} |-> Occupancy(k)],
    spent <- {k \in Keys : res[k].state \in {"released", "expired"}},
    process <- run

AdmissionSpec == Fleet!Spec

\* The checkout columns as this module changes them are leases: what reservations are
\* bound to is granted over none or an expired lease only, renewed and ended.
Lease(t) == INSTANCE WriterLease WITH
    Owners <- Agents,
    Pinned <- {},
    owner <- lease[t].holder,
    generation <- lease[t].generation,
    until <- IF lease[t].holder = None THEN None ELSE lease[t].expires

LeasesSpec == \A t \in Tasks : Lease(t)!Spec
=============================================================================
