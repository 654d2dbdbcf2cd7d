--------------------- MODULE RuntimeReservation_proofs ---------------------
(***************************************************************************)
(* Proofs about RuntimeReservation, for any number of agents, tasks,       *)
(* workers, pools, attempts and request handlers.                          *)
(***************************************************************************)
EXTENDS RuntimeReservation, FiniteSetTheorems, FunctionTheorems, WellFoundedInduction, TLAPS

-----------------------------------------------------------------------------
(* The search for a free slot.                                              *)

\* A nonempty set of naturals has a least element.
LEMMA LeastOf ==
    ASSUME NEW S \in SUBSET Nat, S # {}
    PROVE  \E x \in S : \A y \in S : x <= y
<1> DEFINE R == {ss \in Nat \X Nat : ss[1] < ss[2]}
<1>1. IsWellFoundedOn(R, Nat)
  BY NatLessThanWellFounded DEF OpToRel
<1>2. \E x \in S : \A y \in S : ~ (<<y, x>> \in R)
  <2> HIDE DEF R
  <2> QED BY <1>1, WFMin
<1>3. ASSUME NEW x \in S, NEW y \in S, ~ (<<y, x>> \in R)
      PROVE  x <= y
  BY <1>3
<1> QED BY <1>2, <1>3

\* The slots counted in a pool are a finite set of naturals.
LEMMA UsedFinite ==
    ASSUME claims \subseteq Claims, IsFiniteSet(claims), NEW q, NEW swept
    PROVE  /\ IsFiniteSet(Used(q, swept)) /\ Cardinality(Used(q, swept)) \in Nat
           /\ Used(q, swept) \subseteq Nat
<1> DEFINE S == {d \in claims : d.pool = q /\ d.key \notin swept}
           f == [c \in S |-> c.slot]
<1>1. IsFiniteSet(S)
  BY FS_Subset
<1>2. f \in Surjection(S, Used(q, swept))
  BY DEF Surjection, Used
<1>3. IsFiniteSet(Used(q, swept))
  <2> HIDE DEF S, f
  <2> QED BY <1>1, <1>2, FS_Surjection
<1>4. Used(q, swept) \subseteq Nat
  BY DEF Used, Claims
<1> QED BY <1>3, <1>4, FS_CardinalityType

\* The search finds a slot that is not used, at most one beyond their number.
LEMMA FreeSlotIsFree ==
    ASSUME NEW used \in SUBSET Nat, IsFiniteSet(used)
    PROVE  /\ FreeSlot(used) \in Nat \ {0}
           /\ FreeSlot(used) \notin used
           /\ FreeSlot(used) <= Cardinality(used) + 1
<1> DEFINE n == Cardinality(used)
<1>1. n \in Nat
  BY FS_CardinalityType
<1>2. Cardinality(1..(n + 1)) = n + 1
  BY <1>1, FS_Interval
<1>3. FreeSlots(used) # {}
  <2>1. SUFFICES ASSUME 1..(n + 1) \subseteq used PROVE FALSE
    BY DEF FreeSlots
  <2>2. Cardinality(1..(n + 1)) <= Cardinality(used)
    BY <2>1, FS_Subset
  <2> QED BY <2>2, <1>1, <1>2
<1>4. FreeSlots(used) \in SUBSET Nat
  BY <1>1 DEF FreeSlots
<1>5. \E s \in FreeSlots(used) : \A r \in FreeSlots(used) : s <= r
  <2> HIDE DEF FreeSlots
  <2> QED BY <1>3, <1>4, LeastOf
<1>6. FreeSlot(used) \in FreeSlots(used)
  BY <1>5 DEF FreeSlot
<1> QED BY <1>6, <1>1 DEF FreeSlots

\* The claims an insert adds: one per pool, in a free slot within capacity.
LEMMA NewClaims ==
    ASSUME TypeOK, NEW k \in Keys, NEW ps \in SUBSET Pools, NEW swept,
           \A q \in ps : Cardinality(Used(q, swept)) < capacity[q]
    PROVE  /\ ClaimsOf(k, ps, swept) \subseteq Claims
           /\ IsFiniteSet(ClaimsOf(k, ps, swept))
           /\ \A c \in ClaimsOf(k, ps, swept) :
                /\ c.key = k /\ c.pool \in ps
                /\ c.slot = FreeSlot(Used(c.pool, swept))
                /\ c.slot \notin Used(c.pool, swept)
                /\ c.slot <= capacity[c.pool]
           /\ \A q \in ps : \E c \in ClaimsOf(k, ps, swept) : c.key = k /\ c.pool = q
<1> DEFINE N == ClaimsOf(k, ps, swept)
           f == [q \in ps |-> [key |-> k, pool |-> q, slot |-> FreeSlot(Used(q, swept))]]
<1>1. ASSUME NEW q \in ps
      PROVE  /\ FreeSlot(Used(q, swept)) \in Nat \ {0}
             /\ FreeSlot(Used(q, swept)) \notin Used(q, swept)
             /\ FreeSlot(Used(q, swept)) <= capacity[q]
  <2>1. /\ IsFiniteSet(Used(q, swept)) /\ Cardinality(Used(q, swept)) \in Nat
        /\ Used(q, swept) \subseteq Nat
    BY UsedFinite DEF TypeOK
  <2>2. /\ FreeSlot(Used(q, swept)) \in Nat \ {0}
        /\ FreeSlot(Used(q, swept)) \notin Used(q, swept)
        /\ FreeSlot(Used(q, swept)) <= Cardinality(Used(q, swept)) + 1
    BY <2>1, FreeSlotIsFree
  <2>3. capacity[q] \in Nat
    BY ReservationAssumption DEF TypeOK
  <2> QED BY <2>1, <2>2, <2>3
<1>2. N \subseteq Claims
  BY <1>1 DEF ClaimsOf, Claims
<1>3. IsFiniteSet(N)
  <2>1. IsFiniteSet(ps)
    BY ReservationAssumption, FS_Subset
  <2>2. f \in Surjection(ps, N)
    BY DEF Surjection, ClaimsOf
  <2> HIDE DEF f, N
  <2> QED BY <2>1, <2>2, FS_Surjection
<1>4. \A c \in N : /\ c.key = k /\ c.pool \in ps
                   /\ c.slot = FreeSlot(Used(c.pool, swept))
                   /\ c.slot \notin Used(c.pool, swept)
                   /\ c.slot <= capacity[c.pool]
  BY <1>1 DEF ClaimsOf
<1>5. ASSUME NEW q \in ps PROVE \E c \in N : c.key = k /\ c.pool = q
  <2>1. f[q] \in N
    BY DEF ClaimsOf
  <2>2. f[q].key = k /\ f[q].pool = q
    OBVIOUS
  <2> HIDE DEF f, N
  <2> QED BY <2>1, <2>2
<1> QED BY <1>2, <1>3, <1>4, <1>5

-----------------------------------------------------------------------------
(* Steps that leave the reservations alone.                                 *)

\* What the rest of the system changes besides checkouts, and the clock.
LEMMA AroundSteps ==
    ASSUME ReservationInv, UNCHANGED <<res, claims, fence, txn, lease, run>>,
           catalog' \in [revision : Nat, active : BOOLEAN],
           admission' \in [Agents -> [revision : Nat, key : Nat]],
           capacity' \in [Pools -> Capacities], cap' \in [Agents -> Caps],
           grant' \in [Agents -> [key : Nat, live : BOOLEAN]],
           now' \in Nat, now <= now'
    PROVE  ReservationInv'
<1> USE DEF ReservationInv
<1>1. TypeOK'
  BY DEF TypeOK
<1>2. ClaimsAreOccupancy' /\ SlotsWithinCapacity' /\ OneWriter'
  BY DEF ClaimsAreOccupancy, SlotsWithinCapacity, OneWriter, Active
<1>3. OpenTransactions'
  <2>1. ASSUME NEW j \in Keys, Lapsed(j, now) PROVE Lapsed(j, now)'
    BY <2>1 DEF Lapsed, TypeOK, Rows
  <2>2. ASSUME NEW p \in Procs PROVE txn[p].at <= now'
    BY DEF TypeOK, Transactions, OpenTransactions
  <2>3. \A p \in Procs : txn[p].swept \subseteq Keys
    BY DEF TypeOK, Transactions
  <2> QED BY <2>1, <2>2, <2>3 DEF OpenTransactions
<1>4. RowHistory' /\ FencesOrderWriters'
  BY DEF RowHistory, FencesOrderWriters
<1> QED BY <1>1, <1>2, <1>3, <1>4

\* Checkouts: a task whose row an open acquire shares is not written.
LEMMA LeaseSteps ==
    ASSUME ReservationInv, NEW t \in Tasks,
           DropLease(t) \/ RenewLease(t) \/ \E a \in Agents : TakeLease(t, a)
    PROVE  ReservationInv'
<1> USE DEF ReservationInv
<1>1. /\ ~TaskShared(t)
      /\ lease' \in [Tasks -> [holder : Agents \cup {None}, generation : Nat, expires : Nat]]
      /\ \A u \in Tasks \ {t} : lease'[u] = lease[u]
      /\ \A u \in Tasks : lease[u].generation <= lease'[u].generation
      /\ UNCHANGED <<res, claims, fence, txn, catalog, admission, capacity, cap, grant, run, now>>
  <2>1. CASE DropLease(t)
    BY <2>1 DEF DropLease, TypeOK
  <2>2. ASSUME NEW a \in Agents, TakeLease(t, a) PROVE <1>1!:
    BY <2>2, ReservationAssumption DEF TakeLease, TypeOK
  <2>3. CASE RenewLease(t)
    <3>1. now + CheckoutTTL \in Nat
      BY ReservationAssumption DEF TypeOK
    <3> QED BY <2>3, <3>1 DEF RenewLease, TypeOK
  <2> QED BY <2>1, <2>2, <2>3
<1>2. TypeOK'
  BY <1>1 DEF TypeOK
<1>3. ClaimsAreOccupancy' /\ SlotsWithinCapacity' /\ OneWriter' /\ RowHistory'
  BY <1>1 DEF ClaimsAreOccupancy, SlotsWithinCapacity, OneWriter, Active, RowHistory
<1>4. OpenTransactions'
  <2>1. \A p \in Procs : txn[p].pc = "insert" => txn[p].task \in Tasks /\ txn[p].task # t
    BY <1>1 DEF TaskShared, OpenTransactions
  <2> QED BY <1>1, <2>1 DEF OpenTransactions, Lapsed
<1>5. FencesOrderWriters'
  BY <1>1 DEF FencesOrderWriters, RowHistory, TypeOK, Rows
<1> QED BY <1>2, <1>3, <1>4, <1>5

\* Opening a transaction, and rolling one back.
LEMMA TransactionSteps ==
    ASSUME ReservationInv, NEW p \in Procs, NEW t \in Transactions,
           txn' = [txn EXCEPT ![p] = t],
           UNCHANGED <<res, claims, fence, environment>>,
           t.pc # "insert", t.swept = {}, t.pc # "idle" => t.key \in Keys,
           t.pc = "acquire" => t.task \in Tasks /\ t.worker \in Workers,
           t.at <= now
    PROVE  ReservationInv'
<1> USE DEF ReservationInv, environment
<1>1. TypeOK'
  BY DEF TypeOK
<1>2. ClaimsAreOccupancy' /\ SlotsWithinCapacity' /\ OneWriter'
  BY DEF ClaimsAreOccupancy, SlotsWithinCapacity, OneWriter, Active
<1>3. OpenTransactions'
  <2>1. \A q \in Procs : txn'[q] = IF q = p THEN t ELSE txn[q]
    BY DEF TypeOK
  <2> QED BY <2>1 DEF OpenTransactions, Lapsed
<1>4. RowHistory' /\ FencesOrderWriters'
  BY DEF RowHistory, FencesOrderWriters
<1> QED BY <1>1, <1>2, <1>3, <1>4

\* The check of an acquire: it alone holds its agent's lock and its swept rows.
LEMMA CheckStep ==
    ASSUME ReservationInv, NEW p \in Procs, CheckAcquire(p)
    PROVE  ReservationInv'
<1> USE DEF ReservationInv, environment
<1> DEFINE t == txn[p]
           swept == {j \in Keys : Lapsed(j, t.at)}
           u == [t EXCEPT !.pc = "insert", !.limit = cap[AgentOf[t.key]], !.swept = swept]
<1>1. t \in Transactions /\ t.pc = "acquire" /\ t.key \in Keys /\ t.task \in Tasks
  BY DEF CheckAcquire, OpenTransactions, TypeOK
<1>2. txn' = [txn EXCEPT ![p] = u] /\ UNCHANGED <<res, claims, fence, environment>>
  BY DEF CheckAcquire, Open
<1>3. u \in Transactions
  <2>1. cap[AgentOf[t.key]] \in Nat
    BY <1>1, ReservationAssumption DEF TypeOK
  <2> QED BY <1>1, <2>1 DEF Transactions
<1>4. TypeOK'
  BY <1>2, <1>3 DEF TypeOK
<1>5. ClaimsAreOccupancy' /\ SlotsWithinCapacity' /\ OneWriter' /\ RowHistory' /\ FencesOrderWriters'
  BY <1>2 DEF ClaimsAreOccupancy, SlotsWithinCapacity, OneWriter, Active, RowHistory, FencesOrderWriters
<1>6. OpenTransactions'
  <2>1. \A q \in Procs : txn'[q] = IF q = p THEN u ELSE txn[q]
    BY <1>2 DEF TypeOK
  <2>2. /\ u.pc = "insert" /\ u.key = t.key /\ u.task = t.task /\ u.worker = t.worker
        /\ u.at = t.at /\ u.swept = swept
    BY <1>1 DEF Transactions
  <2>3. \A j \in swept : Lapsed(j, now)
    BY DEF Lapsed, TypeOK, Rows, Transactions, OpenTransactions
  <2>4. /\ res[t.key].state = "none"
        /\ lease[t.task].holder = AgentOf[t.key]
        /\ \A q \in Procs : txn[q].pc = "insert" => AgentOf[txn[q].key] # AgentOf[t.key]
        /\ \A q \in Procs : txn[q].swept \cap swept = {}
    BY DEF CheckAcquire, TaskWriter, AgentLocked, RowLocked
  <2>5. t.worker \in Workers /\ t.at <= now
    BY <1>1 DEF OpenTransactions
  <2> HIDE DEF t, u, swept
  <2>6. \A j \in Keys : Lapsed(j, now)' = Lapsed(j, now)
    BY <1>2 DEF Lapsed
  <2>7. \A q \in Procs : txn[q].swept \subseteq Keys
    BY DEF TypeOK, Transactions
  <2>8. swept \subseteq Keys
    BY DEF swept
  <2> QED BY <1>1, <1>2, <2>1, <2>2, <2>3, <2>4, <2>5, <2>6, <2>7, <2>8 DEF OpenTransactions
<1> QED BY <1>4, <1>5, <1>6

-----------------------------------------------------------------------------
(* Steps that write a reservation.                                          *)

\* Consume and renew keep what the reservation occupies.
LEMMA RunSteps ==
    ASSUME ReservationInv, NEW p \in Procs, NEW k \in Keys, NEW row \in Rows,
           ~RowLocked(k), Active(k),
           row.state = "consumed", row.receipt, row.task = res[k].task,
           row.worker = res[k].worker, row.pools = res[k].pools,
           row.generation = res[k].generation, row.fence = res[k].fence,
           res' = [res EXCEPT ![k] = row], Close(p),
           UNCHANGED <<claims, fence, environment>>
    PROVE  ReservationInv'
<1> USE DEF ReservationInv, environment
<1>1. /\ \A j \in Keys : res'[j] = IF j = k THEN row ELSE res[j]
      /\ \A q \in Procs : txn'[q] = IF q = p THEN Idle ELSE txn[q]
  BY DEF TypeOK, Close
<1>2. Idle \in Transactions
  BY DEF Idle, Transactions
<1>3. TypeOK'
  BY <1>2 DEF TypeOK, Close
<1>4. \A j \in Keys : /\ Active(j)' = Active(j)
                      /\ res'[j].task = res[j].task /\ res'[j].worker = res[j].worker
                      /\ res'[j].pools = res[j].pools /\ res'[j].fence = res[j].fence
                      /\ res'[j].generation = res[j].generation
  BY <1>1 DEF Active
<1>5. ClaimsAreOccupancy'
  BY <1>4 DEF ClaimsAreOccupancy, TypeOK, Claims
<1>6. SlotsWithinCapacity' /\ OneWriter'
  BY <1>4 DEF SlotsWithinCapacity, OneWriter
<1>7. OpenTransactions'
  <2>1. \A q \in Procs : k \notin txn[q].swept
    BY DEF RowLocked
  <2>2. \A j \in Keys \ {k} : Lapsed(j, now)' = Lapsed(j, now)
    BY <1>1 DEF Lapsed
  <2>3. \A q \in Procs : txn[q].pc = "insert" => txn[q].key # k
    BY DEF OpenTransactions, Active
  <2>4. \A q \in Procs : txn[q].swept \subseteq Keys
    BY DEF TypeOK, Transactions
  <2>5. /\ Idle.pc = "idle" /\ Idle.swept = {} /\ Idle.at <= now
    BY DEF Idle, TypeOK
  <2> HIDE DEF Idle
  <2> QED BY <1>1, <2>1, <2>2, <2>3, <2>4, <2>5 DEF OpenTransactions
<1>8. RowHistory'
  BY <1>1 DEF RowHistory, Active
<1>9. FencesOrderWriters'
  <2>1. \A j \in Keys : (res'[j].state = "none") = (res[j].state = "none")
    BY <1>1 DEF Active
  <2> QED BY <1>4, <2>1 DEF FencesOrderWriters
<1> QED BY <1>3, <1>5, <1>6, <1>7, <1>8, <1>9

\* Expiry and release free exactly what the reservation occupied.
LEMMA EndSteps ==
    ASSUME ReservationInv, NEW k \in Keys, NEW state \in {"expired", "released"},
           ~RowLocked(k), Active(k),
           state = "expired" => res[k].state = "reserved",
           state = "released" => run[k] = "gone",
           res' = Ended({k}, state), claims' = Without({k}),
           UNCHANGED txn \/ \E p \in Procs : Close(p),
           UNCHANGED <<fence, environment>>
    PROVE  ReservationInv'
<1> USE DEF ReservationInv, environment
<1> DEFINE row == [res[k] EXCEPT !.state = state]
<1>1. /\ \A j \in Keys : res'[j] = IF j = k THEN row ELSE res[j]
      /\ \A q \in Procs : txn'[q] = txn[q] \/ txn'[q] = Idle
  BY DEF TypeOK, Close, Ended
<1>2. /\ row \in Rows /\ row.state = state /\ row.task = res[k].task
      /\ row.worker = res[k].worker /\ row.pools = res[k].pools
      /\ row.generation = res[k].generation /\ row.fence = res[k].fence
      /\ row.receipt = res[k].receipt
  <2>1. res[k] \in Rows
    BY DEF TypeOK
  <2>2. state \in States
    BY DEF States
  <2> QED BY <2>1, <2>2 DEF Rows
<1> HIDE DEF row
<1>3. TypeOK'
  <2>1. res' \in [Keys -> Rows]
    BY <1>1, <1>2 DEF TypeOK, Ended
  <2>2. claims' \subseteq Claims /\ IsFiniteSet(claims')
    BY FS_Subset DEF TypeOK, Without
  <2>3. txn' \in [Procs -> Transactions]
    BY DEF TypeOK, Close, Idle, Transactions
  <2> QED BY <2>1, <2>2, <2>3 DEF TypeOK
<1>4. /\ ~Active(k)'
      /\ \A j \in Keys \ {k} : Active(j)' = Active(j) /\ res'[j] = res[j]
  BY <1>1, <1>2 DEF Active
<1>5. ClaimsAreOccupancy'
  <2>1. \A c \in claims' : c \in claims /\ c.key \in Keys \ {k}
    BY DEF Without, TypeOK, Claims
  <2>2. ASSUME NEW j \in Keys \ {k}, Active(j), NEW q \in res[j].pools
        PROVE  \E c \in claims' : c.key = j /\ c.pool = q
    BY <2>2 DEF ClaimsAreOccupancy, Without
  <2>3. \A c \in claims' : Active(c.key)' /\ c.pool \in res'[c.key].pools
    BY <1>4, <2>1 DEF ClaimsAreOccupancy
  <2>4. \A c, d \in claims' : c.key = d.key /\ c.pool = d.pool => c = d
    BY <2>1 DEF ClaimsAreOccupancy
  <2>5. \A j \in Keys : Active(j)' => \A q \in res'[j].pools : \E c \in claims' : c.key = j /\ c.pool = q
    BY <1>4, <2>2
  <2> QED BY <2>3, <2>4, <2>5 DEF ClaimsAreOccupancy
<1>6. SlotsWithinCapacity' /\ OneWriter'
  <2>1. claims' \subseteq claims
    BY DEF Without
  <2>2. SlotsWithinCapacity'
    BY <2>1 DEF SlotsWithinCapacity
  <2>3. OneWriter'
    BY SMTT(30), <1>4 DEF OneWriter
  <2> QED BY <2>2, <2>3
<1>7. OpenTransactions'
  <2>1. \A q \in Procs : k \notin txn[q].swept
    BY DEF RowLocked
  <2>2. \A j \in Keys \ {k} : Lapsed(j, now)' = Lapsed(j, now)
    BY <1>1 DEF Lapsed
  <2>3. \A q \in Procs : txn[q].pc = "insert" => txn[q].key # k
    BY DEF OpenTransactions, Active
  <2>4. \A q \in Procs : txn[q].swept \subseteq Keys
    BY DEF TypeOK, Transactions
  <2>5. /\ Idle.pc = "idle" /\ Idle.swept = {} /\ Idle.at <= now
    BY DEF Idle, TypeOK
  <2> HIDE DEF Idle
  <2>6. \A q \in Procs : /\ txn'[q].pc # "idle" => txn'[q] = txn[q]
                         /\ txn'[q].swept \in {{}, txn[q].swept}
                         /\ txn'[q].at <= now
    BY <1>1, <2>5 DEF OpenTransactions
  <2>7. ASSUME NEW q \in Procs
        PROVE  /\ txn'[q].pc # "idle" => txn'[q].key \in Keys
               /\ txn'[q].pc # "insert" => txn'[q].swept = {}
               /\ txn'[q].pc \in {"acquire", "insert"} => txn'[q].task \in Tasks /\ txn'[q].worker \in Workers
    BY <2>6, <1>1, <2>5 DEF OpenTransactions
  <2>8. ASSUME NEW q \in Procs, NEW j \in txn'[q].swept PROVE Lapsed(j, now)'
    BY <2>1, <2>2, <2>4, <2>6 DEF OpenTransactions
  <2>9. ASSUME NEW q \in Procs, txn'[q].pc = "insert"
        PROVE  /\ res'[txn'[q].key].state = "none"
               /\ lease[txn'[q].task].holder = AgentOf[txn'[q].key]
               /\ \A r \in Procs : txn'[r].pc = "insert" /\ q # r =>
                    /\ AgentOf[txn'[q].key] # AgentOf[txn'[r].key]
                    /\ txn'[q].swept \cap txn'[r].swept = {}
    <3>1. txn'[q] = txn[q] /\ txn[q].pc = "insert" /\ txn[q].key \in Keys \ {k}
      BY <2>3, <2>6, <2>7, <2>9
    <3>2. /\ res'[txn[q].key].state = "none"
          /\ lease[txn[q].task].holder = AgentOf[txn[q].key]
      BY <3>1, <1>1 DEF OpenTransactions
    <3>3. ASSUME NEW r \in Procs, txn'[r].pc = "insert", q # r
          PROVE  /\ AgentOf[txn[q].key] # AgentOf[txn'[r].key]
                 /\ txn[q].swept \cap txn'[r].swept = {}
      <4>1. txn'[r] = txn[r]
        BY <2>6, <3>3
      <4> QED BY <3>1, <3>3, <4>1 DEF OpenTransactions
    <3> QED BY <3>1, <3>2, <3>3
  <2> QED BY <2>6, <2>7, <2>8, <2>9 DEF OpenTransactions
<1>8. RowHistory'
  BY <1>1, <1>2 DEF RowHistory, Active
<1>9. FencesOrderWriters'
  <2>1. \A j \in Keys : /\ (res'[j].state = "none") = (res[j].state = "none")
                        /\ res'[j].task = res[j].task /\ res'[j].fence = res[j].fence
                        /\ res'[j].generation = res[j].generation
    BY <1>1, <1>2 DEF Active
  <2> QED BY <2>1 DEF FencesOrderWriters
<1> QED BY <1>3, <1>5, <1>6, <1>7, <1>8, <1>9

\* The controller's own steps.
LEMMA ProcessSteps ==
    ASSUME ReservationInv, NEW k \in Keys, StartProcess(k) \/ EndAttempt(k)
    PROVE  ReservationInv'
<1> USE DEF ReservationInv
<1>1. UNCHANGED <<res, claims, fence, txn, lease, catalog, admission, capacity, cap, grant, now>>
  BY DEF StartProcess, EndAttempt
<1>2. TypeOK'
  BY <1>1 DEF TypeOK, StartProcess, EndAttempt
<1>3. ClaimsAreOccupancy' /\ SlotsWithinCapacity' /\ OneWriter' /\ FencesOrderWriters'
  BY <1>1 DEF ClaimsAreOccupancy, SlotsWithinCapacity, OneWriter, Active, FencesOrderWriters
<1>4. OpenTransactions'
  BY <1>1 DEF OpenTransactions, Lapsed
<1>5. RowHistory'
  BY <1>1 DEF RowHistory, StartProcess, EndAttempt, TypeOK
<1> QED BY <1>2, <1>3, <1>4, <1>5

\* The insert: all or nothing, in free slots, with the swept rows expired.
LEMMA InsertStep ==
    ASSUME ReservationInv, NEW p \in Procs, InsertReservation(p)
    PROVE  ReservationInv'
<1> USE DEF ReservationInv
<1>0. PICK k : k = txn[p].key
  OBVIOUS
<1> DEFINE t == txn[p]
           row == [state |-> "reserved", task |-> t.task, worker |-> t.worker,
                   pools |-> t.pools, generation |-> lease[t.task].generation,
                   revision |-> catalog.revision,
                   admission |-> admission[AgentOf[k]].revision, grant |-> t.grant,
                   fence |-> fence, expires |-> t.at + TTL, receipt |-> FALSE]
           new == ClaimsOf(k, t.pools, t.swept)
           kept == Without(t.swept)
<1>1. /\ k = t.key /\ t.pc = "insert" /\ t \in Transactions /\ k \in Keys /\ t.task \in Tasks
      /\ t.worker \in Workers /\ t.pools \in SUBSET Pools /\ t.swept \subseteq Keys
      /\ t.at \in Nat /\ t.grant \in Nat /\ AgentOf[k] \in Agents
      /\ res[k].state = "none" /\ lease[t.task].holder = AgentOf[k]
  BY <1>0, ReservationAssumption DEF InsertReservation, OpenTransactions, TypeOK, Transactions
<1>2. /\ \A q \in t.pools : Cardinality(Used(q, t.swept)) < capacity[q]
      /\ Unoccupied(t.task, t.worker, t.swept)
      /\ res' = [Ended(t.swept, "expired") EXCEPT ![k] = row]
      /\ claims' = kept \cup new
      /\ fence' = fence + 1
      /\ txn' = [txn EXCEPT ![p] = Idle]
      /\ UNCHANGED <<lease, catalog, admission, capacity, cap, grant, run, now>>
  BY <1>0 DEF InsertReservation, Close, environment
<1>3. \A j \in t.swept : res[j].state = "reserved" /\ res[j].expires <= now
  BY <1>1 DEF OpenTransactions, Lapsed
<1>4. k \notin t.swept
  BY <1>1, <1>3
<1>5. /\ row \in Rows /\ row.state = "reserved" /\ row.task = t.task /\ row.worker = t.worker
      /\ row.pools = t.pools /\ row.generation = lease[t.task].generation
      /\ row.fence = fence /\ row.receipt = FALSE
  <2>1. row.expires \in Nat
    BY <1>1, ReservationAssumption
  <2>2. /\ lease[t.task].generation \in Nat /\ catalog.revision \in Nat
        /\ admission[AgentOf[k]].revision \in Nat /\ fence \in Nat
    BY <1>1 DEF TypeOK
  <2> HIDE DEF t
  <2>3. row \in Rows
    BY <1>1, <2>1, <2>2 DEF Rows, States
  <2> QED BY <2>3
<1>6. /\ new \subseteq Claims /\ IsFiniteSet(new)
      /\ \A c \in new : /\ c.key = k /\ c.pool \in t.pools
                        /\ c.slot = FreeSlot(Used(c.pool, t.swept))
                        /\ c.slot \notin Used(c.pool, t.swept)
                        /\ c.slot <= capacity[c.pool]
      /\ \A q \in t.pools : \E c \in new : c.key = k /\ c.pool = q
  <2> HIDE DEF t
  <2>1. TypeOK /\ k \in Keys /\ t.pools \in SUBSET Pools
    BY <1>1
  <2>2. \A q \in t.pools : Cardinality(Used(q, t.swept)) < capacity[q]
    BY <1>2
  <2> HIDE DEF ReservationInv
  <2> QED BY <2>1, <2>2, NewClaims
<1>7. \A j \in Keys : res'[j] = IF j = k THEN row ELSE
                                IF j \in t.swept THEN [res[j] EXCEPT !.state = "expired"] ELSE res[j]
  BY <1>1, <1>2 DEF Ended
<1>8. \A j \in t.swept : /\ [res[j] EXCEPT !.state = "expired"] \in Rows
                         /\ [res[j] EXCEPT !.state = "expired"].state = "expired"
                         /\ [res[j] EXCEPT !.state = "expired"].task = res[j].task
                         /\ [res[j] EXCEPT !.state = "expired"].worker = res[j].worker
                         /\ [res[j] EXCEPT !.state = "expired"].fence = res[j].fence
                         /\ [res[j] EXCEPT !.state = "expired"].generation = res[j].generation
                         /\ [res[j] EXCEPT !.state = "expired"].receipt = res[j].receipt
  <2>1. \A j \in t.swept : res[j] \in Rows
    BY <1>1 DEF TypeOK
  <2> HIDE DEF t
  <2> QED BY <2>1 DEF Rows, States
<1>9. \A c \in kept : c \in claims /\ c.key \in Keys /\ c.key \notin t.swept /\ c.key # k
  BY <1>1 DEF Without, TypeOK, Claims, ClaimsAreOccupancy, Active
<1>10. \A q \in Procs : txn'[q] = IF q = p THEN Idle ELSE txn[q]
  BY <1>2 DEF TypeOK
<1> HIDE DEF row, new, kept, t
<1>11. /\ res'[k] = row /\ Active(k)'
       /\ \A j \in t.swept : res'[j].state = "expired" /\ ~Active(j)'
       /\ \A j \in Keys \ (t.swept \cup {k}) : res'[j] = res[j] /\ Active(j)' = Active(j)
       /\ \A j \in Keys \ {k} : /\ res'[j].task = res[j].task /\ res'[j].worker = res[j].worker
                                /\ res'[j].fence = res[j].fence
                                /\ res'[j].generation = res[j].generation
                                /\ res'[j].receipt = res[j].receipt
                                /\ (res'[j].state = "none") = (res[j].state = "none")
  <2>1. res'[k] = row /\ Active(k)'
    BY <1>1, <1>5, <1>7 DEF Active
  <2>2. \A j \in t.swept : res'[j] = [res[j] EXCEPT !.state = "expired"]
    BY <1>1, <1>4, <1>7
  <2>3. \A j \in t.swept : res'[j].state = "expired" /\ ~Active(j)'
    BY <1>8, <2>2 DEF Active
  <2>4. \A j \in Keys \ (t.swept \cup {k}) : res'[j] = res[j] /\ Active(j)' = Active(j)
    BY <1>7 DEF Active
  <2>5. \A j \in t.swept : /\ res'[j].task = res[j].task /\ res'[j].worker = res[j].worker
                           /\ res'[j].fence = res[j].fence
                           /\ res'[j].generation = res[j].generation
                           /\ res'[j].receipt = res[j].receipt
                           /\ (res'[j].state = "none") = (res[j].state = "none")
    BY ZenonT(40), <1>3, <1>8, <2>2
  <2> QED BY <2>1, <2>3, <2>4, <2>5
<1>12. TypeOK'
  <2>1. res' \in [Keys -> Rows]
    BY <1>1, <1>2, <1>5, <1>7, <1>8 DEF TypeOK, Ended
  <2>2. IsFiniteSet(kept)
    BY FS_Subset DEF kept, Without, TypeOK
  <2>3. claims' \subseteq Claims /\ IsFiniteSet(claims')
    BY <1>2, <1>6, <1>9, <2>2, FS_Union DEF TypeOK
  <2>4. txn' \in [Procs -> Transactions]
    BY <1>2 DEF TypeOK, Idle, Transactions
  <2> QED BY <1>2, <2>1, <2>3, <2>4 DEF TypeOK
<1>13. ClaimsAreOccupancy'
  <2>1. \A c \in claims' : Active(c.key)' /\ c.pool \in res'[c.key].pools
    <3>1. ASSUME NEW c \in kept PROVE Active(c.key)' /\ c.pool \in res'[c.key].pools
      BY <1>9, <1>11 DEF ClaimsAreOccupancy
    <3>2. ASSUME NEW c \in new PROVE Active(c.key)' /\ c.pool \in res'[c.key].pools
      BY <1>5, <1>6, <1>11
    <3> QED BY <1>2, <3>1, <3>2
  <2>2. ASSUME NEW j \in Keys, Active(j)', NEW q \in res'[j].pools
        PROVE  \E c \in claims' : c.key = j /\ c.pool = q
    <3>1. CASE j = k
      BY <3>1, <1>2, <1>5, <1>6, <1>11
    <3>2. CASE j # k
      <4>1. j \notin t.swept /\ Active(j) /\ res'[j] = res[j]
        BY <2>2, <3>2, <1>11
      <4>2. PICK c \in claims : c.key = j /\ c.pool = q
        BY <4>1 DEF ClaimsAreOccupancy
      <4> QED BY <4>1, <4>2, <1>2 DEF kept, Without
    <3> QED BY <3>1, <3>2
  <2>3. \A c, d \in new : c.pool = d.pool => c = d
    <3>1. \A c \in new : c = [key |-> k, pool |-> c.pool, slot |-> FreeSlot(Used(c.pool, t.swept))]
      BY <1>6 DEF Claims
    <3> QED BY <3>1
  <2>4. \A c, d \in claims' : c.key = d.key /\ c.pool = d.pool => c = d
    BY <1>2, <1>6, <1>9, <2>3 DEF ClaimsAreOccupancy
  <2> QED BY <2>1, <2>2, <2>4 DEF ClaimsAreOccupancy
<1>14. SlotsWithinCapacity'
  <2>1. \A c \in kept : c.slot \in Used(c.pool, t.swept)
    BY DEF kept, Without, Used
  <2>2. \A c, d \in new : c.pool = d.pool => c = d
    <3>1. \A c \in new : c = [key |-> k, pool |-> c.pool, slot |-> FreeSlot(Used(c.pool, t.swept))]
      BY <1>6 DEF Claims
    <3> QED BY <3>1
  <2>3. \A c, d \in claims' : c.pool = d.pool /\ c.slot = d.slot => c = d
    BY <1>2, <1>6, <1>9, <2>1, <2>2 DEF SlotsWithinCapacity
  <2>4. \A c \in new : capacity[c.pool] \in Capacities
    BY <1>1, <1>6 DEF TypeOK
  <2>5. \A c \in claims' : \E n \in Capacities : c.slot <= n
    BY <1>2, <1>6, <1>9, <2>4 DEF SlotsWithinCapacity
  <2> QED BY <2>3, <2>5 DEF SlotsWithinCapacity
<1>15. OneWriter'
  <2>1. \A j \in Keys \ {k} : Active(j)' => Active(j) /\ j \notin t.swept
    BY <1>11
  <2>2. \A j \in Keys \ {k} : Active(j)' =>
          res'[j].task # t.task /\ res'[j].worker # t.worker
    BY <1>2, <1>11, <2>1 DEF Unoccupied
  <2>3. res'[k].task = t.task /\ res'[k].worker = t.worker
    BY <1>5, <1>11
  <2>4. ASSUME NEW i \in Keys \ {k}, NEW j \in Keys \ {k}, Active(i)', Active(j)', i # j
        PROVE  res'[i].task # res'[j].task /\ res'[i].worker # res'[j].worker
    BY <1>11, <2>1, <2>4 DEF OneWriter
  <2> QED BY <2>2, <2>3, <2>4 DEF OneWriter
<1>16. OpenTransactions'
  <2>1. /\ Idle.pc = "idle" /\ Idle.swept = {} /\ Idle.at <= now
    BY DEF Idle, TypeOK
  <2>2. ASSUME NEW q \in Procs \ {p}, txn[q].pc = "insert"
        PROVE  txn[q].key \in Keys \ {k} /\ txn[q].swept \cap t.swept = {}
    <3>1. AgentOf[txn[q].key] # AgentOf[k] /\ txn[q].swept \cap t.swept = {}
      BY <1>1, <2>2 DEF OpenTransactions, t
    <3> QED BY <2>2, <3>1 DEF OpenTransactions
  <2>3. ASSUME NEW q \in Procs \ {p}, NEW j \in txn[q].swept
        PROVE  Lapsed(j, now)'
    <3>1. txn[q].pc = "insert" /\ Lapsed(j, now) /\ j \in Keys
      BY <2>3 DEF OpenTransactions, TypeOK, Transactions
    <3>2. j \notin t.swept /\ j # k
      BY <1>1, <2>2, <2>3, <3>1 DEF Lapsed
    <3> QED BY <1>2, <1>11, <3>1, <3>2 DEF Lapsed
  <2>4. \A q \in Procs \ {p} : txn[q].pc = "insert" => res'[txn[q].key].state = "none"
    BY <2>2, <1>11 DEF OpenTransactions
  <2> HIDE DEF Idle
  <2> QED BY <1>2, <1>10, <2>1, <2>3, <2>4 DEF OpenTransactions
<1>17. RowHistory'
  <2>1. run[k] = "none" /\ fence \in Nat \ {0}
    BY <1>1 DEF RowHistory, TypeOK
  <2>2. ASSUME NEW j \in Keys PROVE res'[j].fence < fence'
    BY <1>2, <1>5, <1>11, <2>1 DEF RowHistory, TypeOK, Rows
  <2>3. ASSUME NEW j \in t.swept PROVE ~res'[j].receipt /\ run'[j] # "live"
    BY <1>1, <1>2, <1>3, <1>4, <1>11 DEF RowHistory
  <2> QED BY <1>1, <1>2, <1>3, <1>4, <1>5, <1>11, <2>1, <2>2, <2>3 DEF RowHistory
<1>18. FencesOrderWriters'
  <2>1. \A j \in Keys : res[j].fence < fence /\ res[j].fence \in Nat /\ fence \in Nat
    BY DEF RowHistory, TypeOK, Rows
  <2>2. \A j \in Keys : res[j].task = t.task => res[j].generation <= lease[t.task].generation
    BY <1>1, ReservationAssumption DEF FencesOrderWriters, RowHistory, Absent
  <2>3. lease[t.task].generation \in Nat
    BY <1>1 DEF TypeOK
  <2> QED BY <1>1, <1>2, <1>5, <1>11, <2>1, <2>2, <2>3 DEF FencesOrderWriters
<1> QED BY <1>12, <1>13, <1>14, <1>15, <1>16, <1>17, <1>18

-----------------------------------------------------------------------------
(* The theorems.                                                            *)

\* No reservation, claim, process or open transaction at the start.
LEMMA InitInv == Init => ReservationInv
<1> SUFFICES ASSUME Init PROVE ReservationInv
  OBVIOUS
<1> USE DEF Init
<1>1. TypeOK
  <2>1. Absent \in Rows
    BY DEF Absent, Rows, States
  <2>2. Idle \in Transactions
    BY DEF Idle, Transactions
  <2>3. claims \subseteq Claims /\ IsFiniteSet(claims)
    BY FS_EmptySet
  <2> QED BY <2>1, <2>2, <2>3 DEF TypeOK
<1>2. ClaimsAreOccupancy /\ SlotsWithinCapacity /\ OneWriter
  BY DEF ClaimsAreOccupancy, SlotsWithinCapacity, OneWriter, Active, Absent
<1>3. OpenTransactions
  BY DEF OpenTransactions, Idle
<1>4. RowHistory /\ FencesOrderWriters
  BY DEF RowHistory, FencesOrderWriters, Absent
<1> QED BY <1>1, <1>2, <1>3, <1>4 DEF ReservationInv

\* One step per action of Next.
LEMMA NextInv == ReservationInv /\ [Next]_vars => ReservationInv'
<1> SUFFICES ASSUME ReservationInv, [Next]_vars PROVE ReservationInv'
  OBVIOUS
<1>1. TypeOK /\ OpenTransactions /\ RowHistory
  BY DEF ReservationInv
<1>2. Idle \in Transactions /\ Idle.pc = "idle" /\ Idle.swept = {} /\ Idle.at <= now
  BY <1>1 DEF Idle, Transactions, TypeOK
<1>3. ASSUME NEW p \in Procs, NEW k \in Keys, NEW t \in Tasks, NEW w \in Workers,
             NEW ps \in ProfilePools, BeginAcquire(p, k, t, w, ps)
      PROVE  ReservationInv'
  <2> DEFINE u == [Idle EXCEPT !.pc = "acquire", !.key = k, !.at = now,
                               !.grant = grant[AgentOf[k]].key,
                               !.task = t, !.worker = w, !.pools = ps]
  <2>1. grant[AgentOf[k]].key \in Nat /\ now \in Nat /\ ps \in SUBSET Pools
    BY <1>1, ReservationAssumption DEF TypeOK
  <2>2. /\ u \in Transactions /\ u.pc = "acquire" /\ u.swept = {} /\ u.key = k
        /\ u.task = t /\ u.worker = w /\ u.at = now
    BY <2>1 DEF Idle, Transactions
  <2>3. txn' = [txn EXCEPT ![p] = u] /\ UNCHANGED <<res, claims, fence, environment>>
    BY <1>3 DEF BeginAcquire, Open
  <2>4. /\ u.pc # "insert" /\ u.pc # "idle" => u.key \in Keys
        /\ u.pc = "acquire" => u.task \in Tasks /\ u.worker \in Workers
        /\ u.at <= now
    BY <2>1, <2>2
  <2> HIDE DEF u
  <2> QED BY <2>2, <2>3, <2>4, TransactionSteps
<1>4. ASSUME NEW p \in Procs, NEW k \in Keys, BeginConsume(p, k) \/ BeginRenew(p, k)
      PROVE  ReservationInv'
  <2>1. PICK pc \in {"consume", "renew"} :
          /\ txn' = [txn EXCEPT ![p] = [Idle EXCEPT !.pc = pc, !.key = k, !.at = now,
                                                    !.grant = grant[AgentOf[k]].key]]
          /\ UNCHANGED <<res, claims, fence, environment>>
    BY <1>4 DEF BeginConsume, BeginRenew, Open
  <2> DEFINE u == [Idle EXCEPT !.pc = pc, !.key = k, !.at = now,
                               !.grant = grant[AgentOf[k]].key]
  <2>2. grant[AgentOf[k]].key \in Nat /\ now \in Nat
    BY <1>1, ReservationAssumption DEF TypeOK
  <2>3. u \in Transactions /\ u.pc = pc /\ u.swept = {} /\ u.key = k /\ u.at = now
    BY <2>2 DEF Idle, Transactions
  <2>4. txn' = [txn EXCEPT ![p] = u]
    BY <2>1
  <2>5. /\ u.pc # "insert" /\ u.pc # "idle" => u.key \in Keys
        /\ u.pc = "acquire" => u.task \in Tasks /\ u.worker \in Workers
        /\ u.at <= now
    BY <2>2, <2>3
  <2> HIDE DEF u
  <2> QED BY <2>1, <2>3, <2>4, <2>5, TransactionSteps
<1>5. ASSUME NEW p \in Procs, Rollback(p) PROVE ReservationInv'
  <2> HIDE DEF Idle
  <2>1. txn' = [txn EXCEPT ![p] = Idle] /\ UNCHANGED <<res, claims, fence, environment>>
    BY <1>5 DEF Rollback, Close
  <2> QED BY <1>2, <2>1, TransactionSteps
<1>6. ASSUME NEW p \in Procs, CheckAcquire(p) PROVE ReservationInv'
  BY <1>6, CheckStep
<1>7. ASSUME NEW p \in Procs, InsertReservation(p) PROVE ReservationInv'
  BY <1>7, InsertStep
<1>8. ASSUME NEW p \in Procs, CommitConsume(p) PROVE ReservationInv'
  <2>1. PICK k : k = txn[p].key
    OBVIOUS
  <2> DEFINE row == Consumed(k, txn[p].at)
  <2>2. /\ k \in Keys /\ ~RowLocked(k) /\ Active(k)
        /\ res' = [res EXCEPT ![k] = row] /\ Close(p)
        /\ UNCHANGED <<claims, fence, environment>>
    BY <1>1, <1>8, <2>1 DEF CommitConsume, Consumable, Active, OpenTransactions
  <2>3. res[k] \in Rows /\ txn[p].at + RunLease \in Nat
    BY <1>1, <2>2, ReservationAssumption DEF TypeOK, Transactions
  <2>4. /\ row \in Rows /\ row.state = "consumed" /\ row.receipt
        /\ row.task = res[k].task /\ row.worker = res[k].worker
        /\ row.pools = res[k].pools /\ row.generation = res[k].generation
        /\ row.fence = res[k].fence
    BY <2>3 DEF Consumed, Rows, States
  <2> HIDE DEF row
  <2> QED BY <2>2, <2>4, RunSteps
<1>9. ASSUME NEW p \in Procs, CommitRenew(p) PROVE ReservationInv'
  <2>1. PICK k : k = txn[p].key
    OBVIOUS
  <2> DEFINE row == [res[k] EXCEPT !.expires = Later(res[k].expires, txn[p].at + RunLease)]
  <2>2. /\ k \in Keys /\ res[k].state = "consumed"
        /\ res' = [res EXCEPT ![k] = row] /\ Close(p)
        /\ UNCHANGED <<claims, fence, environment>>
    BY <1>1, <1>9, <2>1 DEF CommitRenew, OpenTransactions
  <2>3. Active(k) /\ ~RowLocked(k) /\ res[k].receipt
    BY <1>1, <2>2 DEF Active, RowLocked, OpenTransactions, Lapsed, RowHistory
  <2>4. res[k] \in Rows /\ Later(res[k].expires, txn[p].at + RunLease) \in Nat
    BY <1>1, <2>2, ReservationAssumption DEF TypeOK, Transactions, Rows, Later
  <2>5. /\ row \in Rows /\ row.state = "consumed" /\ row.receipt
        /\ row.task = res[k].task /\ row.worker = res[k].worker
        /\ row.pools = res[k].pools /\ row.generation = res[k].generation
        /\ row.fence = res[k].fence
    BY <2>2, <2>3, <2>4 DEF Rows
  <2> HIDE DEF row
  <2> QED BY <2>2, <2>3, <2>5, RunSteps
<1>10. ASSUME NEW p \in Procs, ExpireOnConsume(p) PROVE ReservationInv'
  <2>1. PICK k : k = txn[p].key
    OBVIOUS
  <2>2. /\ k \in Keys /\ ~RowLocked(k) /\ Active(k) /\ res[k].state = "reserved"
        /\ res' = Ended({k}, "expired") /\ claims' = Without({k}) /\ Close(p)
        /\ UNCHANGED <<fence, environment>>
    BY <1>1, <1>10, <2>1 DEF ExpireOnConsume, Active, Lapsed, OpenTransactions
  <2> QED BY <2>2, EndSteps
<1>11. ASSUME NEW k \in Keys, NEW stopped \in BOOLEAN, NEW kind \in ProofKinds,
              ReleaseReservation(k, stopped, kind)
       PROVE  ReservationInv'
  <2>1. /\ ~RowLocked(k) /\ Active(k) /\ claims' = Without({k})
        /\ UNCHANGED <<fence, txn, environment>>
    BY <1>11 DEF ReleaseReservation, Active, Lapsed
  <2>2. CASE Lapsed(k, now)
    BY <1>11, <2>1, <2>2, EndSteps DEF ReleaseReservation, Lapsed
  <2>3. CASE ~Lapsed(k, now)
    BY <1>11, <2>1, <2>3, EndSteps DEF ReleaseReservation, ProofAccepted
  <2> QED BY <2>2, <2>3
<1>12. ASSUME NEW k \in Keys, StartProcess(k) \/ EndAttempt(k) PROVE ReservationInv'
  BY <1>12, ProcessSteps
<1>13. ASSUME NEW t \in Tasks, DropLease(t) \/ RenewLease(t) \/ \E a \in Agents : TakeLease(t, a)
       PROVE  ReservationInv'
  BY <1>13, LeaseSteps
<1>14. ASSUME NEW c \in [Pools -> Capacities], NEW carried \in SUBSET Agents, SaveCatalog(c, carried)
       PROVE  ReservationInv'
  <2>1. /\ catalog' \in [revision : Nat, active : BOOLEAN]
        /\ admission' \in [Agents -> [revision : Nat, key : Nat]]
    BY SMTT(30), <1>1, <1>14 DEF SaveCatalog, TypeOK
  <2> QED BY <1>1, <1>14, <2>1, AroundSteps DEF SaveCatalog, TypeOK
<1>15. ASSUME NEW a \in Agents, NEW on \in BOOLEAN, Admit(a, on) PROVE ReservationInv'
  <2>1. admission' \in [Agents -> [revision : Nat, key : Nat]]
    BY <1>1, <1>15 DEF Admit, TypeOK
  <2> QED BY <1>1, <1>15, <2>1, AroundSteps DEF Admit, TypeOK
<1>16. ASSUME NEW on \in BOOLEAN, SetRunnerActive(on) PROVE ReservationInv'
  <2>1. catalog' \in [revision : Nat, active : BOOLEAN]
    BY <1>1, <1>16 DEF SetRunnerActive, TypeOK
  <2> QED BY <1>1, <1>16, <2>1, AroundSteps DEF SetRunnerActive, TypeOK
<1>17. ASSUME NEW a \in Agents, NEW n \in Caps, SetCap(a, n) PROVE ReservationInv'
  BY <1>1, <1>17, AroundSteps DEF SetCap, TypeOK
<1>18. ASSUME NEW a \in Agents, NEW live \in BOOLEAN, ChangeGrant(a, live) PROVE ReservationInv'
  <2>1. grant' \in [Agents -> [key : Nat, live : BOOLEAN]]
    BY <1>1, <1>18 DEF ChangeGrant, TypeOK
  <2> QED BY <1>1, <1>18, <2>1, AroundSteps DEF ChangeGrant, TypeOK
<1>19. CASE Tick
  BY <1>1, <1>19, AroundSteps DEF Tick, TypeOK
<1>20. CASE UNCHANGED vars
  BY <1>1, <1>20, AroundSteps DEF vars, TypeOK
<1> QED
  BY <1>3, <1>4, <1>5, <1>6, <1>7, <1>8, <1>9, <1>10, <1>11, <1>12, <1>13, <1>14, <1>15, <1>16,
     <1>17, <1>18, <1>19, <1>20 DEF Next, Acquiring, Holding, Attempt, Around

\* Occupancy is exact, within capacity and exclusive, and fences follow the
\* checkouts, in every reachable state (AcquireReservation and its locks,
\* runtime_reservations' indexes, runtimeSweepExpired, ReleaseReservation).
THEOREM ReservationsSound == Spec => []ReservationInv
  BY InitInv, NextInv, PTL DEF Spec

\* A live process always has its consumed reservation with all its claims, so
\* two live processes never share a task or a worker.
THEOREM RunsAdmitted == Spec => []RunsAreAdmitted
<1>1. ReservationInv => RunsAreAdmitted
  <2> SUFFICES ASSUME ReservationInv, NEW k \in Keys, run[k] = "live"
               PROVE  /\ res[k].state = "consumed"
                      /\ \A q \in res[k].pools : \E c \in claims : c.key = k /\ c.pool = q
                      /\ \A j \in Keys \ {k} : run[j] = "live" =>
                           res[j].task # res[k].task /\ res[j].worker # res[k].worker
    BY DEF RunsAreAdmitted
  <2>1. \A j \in Keys : run[j] = "live" => res[j].state = "consumed"
    BY DEF ReservationInv, RowHistory
  <2>2. \A j \in Keys : run[j] = "live" => Active(j)
    BY <2>1 DEF Active
  <2>3. \A q \in res[k].pools : \E c \in claims : c.key = k /\ c.pool = q
    BY <2>2 DEF ReservationInv, ClaimsAreOccupancy
  <2>4. \A j \in Keys \ {k} : run[j] = "live" =>
          res[j].task # res[k].task /\ res[j].worker # res[k].worker
    BY <2>2 DEF ReservationInv, OneWriter
  <2> QED BY <2>1, <2>3, <2>4
<1> QED BY <1>1, ReservationsSound, PTL
\* A consumed reservation keeps its claims until a proven release, and an
\* ended reservation and a receipt never change (ReleaseReservation,
\* runtimeSweepExpired, runtimeExpireOne).
THEOREM OccupancyKept == Spec => OccupancyEndsByRelease
<1> DEFINE Kept(k) ==
      /\ res[k].state = "consumed" =>
           \/ res'[k].state = "consumed" /\ \A c \in claims : c.key = k => c \in claims'
           \/ res'[k].state = "released" /\ run[k] = "gone"
      /\ res[k].state \in {"released", "expired"} => res'[k] = res[k]
      /\ res[k].receipt => res'[k].receipt
<1>1. ASSUME ReservationInv, [Next]_vars, NEW k \in Keys
      PROVE  Kept(k)
  <2>1. /\ res \in [Keys -> Rows]
        /\ \A p \in Procs : txn[p].pc # "idle" => txn[p].key \in Keys
        /\ \A p \in Procs : \A j \in txn[p].swept : res[j].state = "reserved"
        /\ \A p \in Procs : txn[p].pc = "insert" => res[txn[p].key].state = "none"
        /\ \A j \in Keys : res[j].receipt => res[j].state \in {"consumed", "released"}
    BY <1>1 DEF ReservationInv, TypeOK, OpenTransactions, RowHistory, Lapsed
  <2>2. CASE UNCHANGED <<res, claims>>
    BY <2>2
  <2>3. ASSUME NEW p \in Procs, InsertReservation(p) PROVE Kept(k)
    <3>1. PICK j : j = txn[p].key
      OBVIOUS
    <3>2. PICK swept : swept = txn[p].swept
      OBVIOUS
    <3>3. PICK row : res' = [Ended(swept, "expired") EXCEPT ![j] = row]
      BY <2>3, <3>1, <3>2 DEF InsertReservation
    <3>4. Without(swept) \subseteq claims'
      BY <2>3, <3>2 DEF InsertReservation
    <3>5. CASE k = j
      BY <2>1, <2>3, <3>1, <3>5 DEF InsertReservation
    <3>6. CASE k \in swept
      BY <2>1, <3>2, <3>6
    <3>7. CASE k # j /\ k \notin swept
      <4>1. res'[k] = res[k]
        BY <3>3, <3>7 DEF Ended
      <4>2. \A c \in claims : c.key = k => c \in claims'
        BY <3>4, <3>7 DEF Without
      <4> QED BY <4>1, <4>2
    <3> QED BY <3>5, <3>6, <3>7
  <2>4. ASSUME NEW p \in Procs, CommitConsume(p) PROVE Kept(k)
    <3>1. PICK j : j = txn[p].key
      OBVIOUS
    <3>2. res[j].state = "reserved" /\ claims' = claims
      BY <2>4, <3>1 DEF CommitConsume, Consumable
    <3>3. k # j => res'[k] = res[k]
      BY <2>4, <3>1, <2>1 DEF CommitConsume
    <3> QED BY <2>1, <3>2, <3>3
  <2>5. ASSUME NEW p \in Procs, CommitRenew(p) PROVE Kept(k)
    <3>1. PICK j : j = txn[p].key
      OBVIOUS
    <3>2. PICK e : res' = [res EXCEPT ![j] = [res[j] EXCEPT !.expires = e]]
      BY <2>5, <3>1 DEF CommitRenew
    <3>3. j \in Keys /\ res[j].state = "consumed" /\ claims' = claims
      BY <2>1, <2>5, <3>1 DEF CommitRenew
    <3>4. res[j] \in Rows
      BY <2>1, <3>3
    <3>5. res'[k].state = res[k].state /\ res'[k].receipt = res[k].receipt
      BY <2>1, <3>2, <3>3, <3>4 DEF Rows
    <3>6. k # j => res'[k] = res[k]
      BY <2>1, <3>2
    <3> QED BY <3>3, <3>5, <3>6
  <2>6. ASSUME NEW j \in Keys, NEW state, res' = Ended({j}, state), claims' = Without({j}),
               \/ res[j].state = "reserved"
               \/ res[j].state = "consumed" /\ state = "released" /\ run[j] = "gone"
        PROVE  Kept(k)
    <3>1. CASE k = j
      <4>1. res[k] \in Rows
        BY <2>1
      <4>2. res'[k].state = state /\ res'[k].receipt = res[k].receipt
        BY <2>6, <3>1, <4>1 DEF Ended, Rows
      <4> QED BY <2>1, <2>6, <3>1, <4>2
    <3>2. CASE k # j
      <4>1. res'[k] = res[k]
        BY <2>6, <3>2 DEF Ended
      <4>2. \A c \in claims : c.key = k => c \in claims'
        BY <2>6, <3>2 DEF Without
      <4> QED BY <4>1, <4>2
    <3> QED BY <3>1, <3>2
  <2>7. ASSUME NEW p \in Procs, ExpireOnConsume(p) PROVE Kept(k)
    <3>1. PICK j : j = txn[p].key
      OBVIOUS
    <3>2. j \in Keys /\ res[j].state = "reserved" /\ res' = Ended({j}, "expired") /\ claims' = Without({j})
      BY <2>1, <2>7, <3>1 DEF ExpireOnConsume, Lapsed
    <3> QED BY <2>6, <3>2
  <2>8. ASSUME NEW j \in Keys, NEW stopped \in BOOLEAN, NEW kind \in ProofKinds,
               ReleaseReservation(j, stopped, kind)
        PROVE  Kept(k)
    <3>1. claims' = Without({j})
      BY <2>8 DEF ReleaseReservation
    <3>2. CASE Lapsed(j, now)
      <4>1. res[j].state = "reserved" /\ res' = Ended({j}, "expired")
        BY <2>8, <3>2 DEF ReleaseReservation, Lapsed
      <4> QED BY <2>6, <3>1, <4>1
    <3>3. CASE ~Lapsed(j, now)
      <4>1. /\ res[j].state \in {"reserved", "consumed"}
            /\ res' = Ended({j}, "released") /\ run[j] = "gone"
        BY <2>8, <3>3 DEF ReleaseReservation, Active, ProofAccepted
      <4> QED BY <2>6, <3>1, <4>1
    <3> QED BY <3>2, <3>3
  <2>9. UNCHANGED <<res, claims>>
        \/ (\E p \in Procs : InsertReservation(p) \/ CommitConsume(p) \/ CommitRenew(p) \/ ExpireOnConsume(p))
        \/ (\E j \in Keys, stopped \in BOOLEAN, kind \in ProofKinds : ReleaseReservation(j, stopped, kind))
    BY <1>1 DEF Next, Acquiring, Holding, Attempt, Around, vars, BeginAcquire, CheckAcquire, Rollback,
       BeginConsume, BeginRenew, StartProcess, EndAttempt, TakeLease, RenewLease, DropLease, SaveCatalog, Admit,
       SetRunnerActive, SetCap, ChangeGrant, Tick
  <2> HIDE DEF Kept
  <2> QED BY <2>2, <2>3, <2>4, <2>5, <2>7, <2>8, <2>9
<1>2. ReservationInv /\ [Next]_vars => \A k \in Keys : Kept(k)
  BY <1>1
<1>3. (\A k \in Keys : Kept(k)) =>
      [\A k \in Keys :
        /\ res[k].state = "consumed" =>
             \/ res'[k].state = "consumed" /\ \A c \in claims : c.key = k => c \in claims'
             \/ res'[k].state = "released" /\ run[k] = "gone"
        /\ res[k].state \in {"released", "expired"} => res'[k] = res[k]
        /\ res[k].receipt => res'[k].receipt]_vars
  OBVIOUS
<1> QED BY <1>2, <1>3, ReservationsSound, PTL DEF Spec, OccupancyEndsByRelease
-----------------------------------------------------------------------------
(* Limits.                                                                  *)

\* The agent's active reservations besides the swept ones.
Working(a, swept) == {j \in Keys \ swept : Active(j) /\ AgentOf[j] = a}

\* What an acquire has counted under its agent's lock still holds when it inserts.
BelowLimit ==
    \A p \in Procs : txn[p].pc = "insert" =>
        Cardinality(Working(AgentOf[txn[p].key], txn[p].swept)) < txn[p].limit

\* Only finitely many attempts are active at any time.
CountInv ==
    /\ ReservationInv
    /\ IsFiniteSet({j \in Keys : Active(j)})
    /\ BelowLimit

\* A smaller set of an agent's reservations is not more of them.
LEMMA FewerWorking ==
    ASSUME IsFiniteSet({j \in Keys : Active(j)}), NEW a, NEW swept,
           NEW S, S \subseteq Working(a, swept)
    PROVE  /\ IsFiniteSet(S)
           /\ Cardinality(S) \in Nat /\ Cardinality(Working(a, swept)) \in Nat
           /\ Cardinality(S) <= Cardinality(Working(a, swept))
<1>1. Working(a, swept) \subseteq {j \in Keys : Active(j)}
  BY DEF Working
<1>2. IsFiniteSet(Working(a, swept))
  BY <1>1, FS_Subset
<1>3. /\ IsFiniteSet(S)
      /\ Cardinality(S) <= Cardinality(Working(a, swept))
  BY <1>2, FS_Subset
<1> QED BY <1>2, <1>3, FS_CardinalityType

\* A step that activates no reservation of an agent who is about to insert keeps
\* every count of an insert that was there before.
LEMMA CountsKept ==
    ASSUME CountInv, NEW p \in Procs, txn[p].pc = "insert", txn'[p] = txn[p],
           \A j \in Keys : Active(j)' /\ AgentOf[j] = AgentOf[txn[p].key] => Active(j)
    PROVE  Cardinality(Working(AgentOf[txn[p].key], txn[p].swept)') < txn[p].limit
<1> DEFINE a == AgentOf[txn[p].key]
           w == txn[p].swept
<1>1. Working(a, w)' \subseteq Working(a, w)
  BY DEF Working
<1>2. txn[p].limit \in Nat
  BY DEF CountInv, ReservationInv, TypeOK, Transactions
<1>3. Cardinality(Working(a, w)) < txn[p].limit
  BY DEF CountInv, BelowLimit
<1>4. /\ Cardinality(Working(a, w)') \in Nat /\ Cardinality(Working(a, w)) \in Nat
      /\ Cardinality(Working(a, w)') <= Cardinality(Working(a, w))
  BY <1>1, FewerWorking DEF CountInv
<1> QED BY <1>2, <1>3, <1>4

\* A step that activates nothing and begins no insert.
LEMMA QuietCounts ==
    ASSUME CountInv, ReservationInv', \A j \in Keys : Active(j)' => Active(j),
           \A p \in Procs : txn'[p].pc = "insert" => txn'[p] = txn[p]
    PROVE  CountInv'
<1>1. IsFiniteSet({j \in Keys : Active(j)}')
  <2>1. {j \in Keys : Active(j)}' \subseteq {j \in Keys : Active(j)}
    OBVIOUS
  <2> QED BY <2>1, FS_Subset DEF CountInv
<1>2. ASSUME NEW p \in Procs, txn'[p].pc = "insert"
      PROVE  (Cardinality(Working(AgentOf[txn[p].key], txn[p].swept)) < txn[p].limit)'
  BY <1>2, CountsKept
<1> QED BY <1>1, <1>2 DEF CountInv, BelowLimit

\* Every step but the check and the insert of an acquire is such a step.
LEMMA OthersAreQuiet ==
    ASSUME ReservationInv, [Next]_vars,
           \A p \in Procs : ~CheckAcquire(p) /\ ~InsertReservation(p)
    PROVE  /\ \A j \in Keys : Active(j)' => Active(j)
           /\ \A p \in Procs : txn'[p].pc = "insert" => txn'[p] = txn[p]
<1> DEFINE Quiet == /\ \A j \in Keys : Active(j)' => Active(j)
                    /\ \A p \in Procs : txn'[p].pc = "insert" => txn'[p] = txn[p]
<1>1. /\ res \in [Keys -> Rows] /\ txn \in [Procs -> Transactions]
      /\ \A p \in Procs : txn[p].pc # "idle" => txn[p].key \in Keys
  BY DEF ReservationInv, TypeOK, OpenTransactions
<1>2. ASSUME UNCHANGED <<res, txn>> PROVE Quiet
  BY <1>2 DEF Active
<1>3. ASSUME NEW p \in Procs, NEW t, t.pc # "insert", Open(p, t), res' = res PROVE Quiet
  BY <1>1, <1>3 DEF Open, Active
<1>4. ASSUME NEW p \in Procs, Close(p), \A j \in Keys : Active(j)' => Active(j) PROVE Quiet
  BY <1>1, <1>4 DEF Close, Idle
<1>5. ASSUME NEW j \in Keys, NEW state, state \in {"expired", "released"}, res' = Ended({j}, state)
      PROVE  \A i \in Keys : Active(i)' => Active(i)
  BY <1>1, <1>5 DEF Ended, Active, Rows
<1>6. ASSUME NEW p \in Procs, NEW k \in Keys, NEW t \in Tasks, NEW w \in Workers, NEW ps \in ProfilePools,
             BeginAcquire(p, k, t, w, ps)
      PROVE  Quiet
  <2>1. [Idle EXCEPT !.pc = "acquire", !.key = k, !.at = now, !.grant = grant[AgentOf[k]].key,
                     !.task = t, !.worker = w, !.pools = ps].pc # "insert"
    BY DEF Idle
  <2> HIDE DEF Quiet
  <2> QED BY <1>3, <1>6, <2>1 DEF BeginAcquire
<1>7. ASSUME NEW p \in Procs, Rollback(p) PROVE Quiet
  BY <1>4, <1>7 DEF Rollback, Active
<1>8. ASSUME NEW p \in Procs, NEW k \in Keys, BeginConsume(p, k) \/ BeginRenew(p, k) PROVE Quiet
  <2>1. /\ [Idle EXCEPT !.pc = "consume", !.key = k, !.at = now, !.grant = grant[AgentOf[k]].key].pc # "insert"
        /\ [Idle EXCEPT !.pc = "renew", !.key = k, !.at = now, !.grant = grant[AgentOf[k]].key].pc # "insert"
    BY DEF Idle
  <2> HIDE DEF Quiet
  <2> QED BY <1>3, <1>8, <2>1 DEF BeginConsume, BeginRenew
<1>9. ASSUME NEW p \in Procs, CommitConsume(p) PROVE Quiet
  <2>1. PICK k : k = txn[p].key
    OBVIOUS
  <2>2. k \in Keys /\ Active(k)
    BY <1>1, <1>9, <2>1 DEF CommitConsume, Consumable, Active
  <2>3. \A j \in Keys : j # k => res'[j] = res[j]
    BY <1>1, <1>9, <2>1 DEF CommitConsume
  <2>4. \A j \in Keys : Active(j)' => Active(j)
    BY <2>2, <2>3 DEF Active
  <2> QED BY <1>4, <1>9, <2>4 DEF CommitConsume
<1>10. ASSUME NEW p \in Procs, CommitRenew(p) PROVE Quiet
  <2>1. PICK k : k = txn[p].key
    OBVIOUS
  <2>2. k \in Keys /\ Active(k)
    BY <1>1, <1>10, <2>1 DEF CommitRenew, Active
  <2>3. \A j \in Keys : j # k => res'[j] = res[j]
    BY <1>1, <1>10, <2>1 DEF CommitRenew
  <2>4. \A j \in Keys : Active(j)' => Active(j)
    BY <2>2, <2>3 DEF Active
  <2> QED BY <1>4, <1>10, <2>4 DEF CommitRenew
<1>11. ASSUME NEW p \in Procs, ExpireOnConsume(p) PROVE Quiet
  <2>1. \A j \in Keys : Active(j)' => Active(j)
    BY <1>1, <1>5, <1>11 DEF ExpireOnConsume
  <2> QED BY <1>4, <1>11, <2>1 DEF ExpireOnConsume
<1>12. ASSUME NEW k \in Keys, NEW stopped, NEW kind, ReleaseReservation(k, stopped, kind) PROVE Quiet
  <2>1. \A j \in Keys : Active(j)' => Active(j)
    BY <1>5, <1>12 DEF ReleaseReservation
  <2> QED BY <1>12, <2>1 DEF ReleaseReservation
<1>13. ASSUME (\E k \in Keys : StartProcess(k) \/ EndAttempt(k)) \/ Around \/ UNCHANGED vars PROVE Quiet
  <2>1. UNCHANGED <<res, txn>>
    BY <1>13 DEF StartProcess, EndAttempt, Around, TakeLease, RenewLease, DropLease, SaveCatalog, Admit,
       SetRunnerActive, SetCap, ChangeGrant, Tick, vars
  <2> QED BY <1>2, <2>1
<1> QED
  <2> HIDE DEF Quiet
  <2>1. Quiet
    BY <1>6, <1>7, <1>8, <1>9, <1>10, <1>11, <1>12, <1>13 DEF Next, Acquiring, Holding, Attempt
  <2> QED BY <2>1 DEF Quiet

\* The check leaves room for the reservation it is going to insert.
LEMMA CheckCounts ==
    ASSUME CountInv, ReservationInv', NEW p \in Procs, CheckAcquire(p)
    PROVE  CountInv'
<1>1. txn \in [Procs -> Transactions] /\ res' = res
  BY DEF CountInv, ReservationInv, TypeOK, CheckAcquire
<1>2. PICK t, a, swept : t = txn[p] /\ a = AgentOf[t.key] /\ swept = {j \in Keys : Lapsed(j, t.at)}
  OBVIOUS
<1>3. txn' = [txn EXCEPT ![p] = [t EXCEPT !.pc = "insert", !.limit = cap[a], !.swept = swept]]
  BY <1>2 DEF CheckAcquire, Open
<1>4. Cardinality(Working(a, swept)) < cap[a]
  BY <1>2 DEF CheckAcquire, Working
<1>5. t \in Transactions
  BY <1>1, <1>2
<1>6. txn'[p].key = t.key /\ txn'[p].limit = cap[a] /\ txn'[p].swept = swept
  BY <1>1, <1>3, <1>5 DEF Transactions
<1>7. Working(a, swept)' = Working(a, swept)
  BY <1>1 DEF Working, Active
<1>8. ASSUME NEW q \in Procs, txn'[q].pc = "insert"
      PROVE  (Cardinality(Working(AgentOf[txn[q].key], txn[q].swept)) < txn[q].limit)'
  <2>1. CASE q = p
    <3>1. AgentOf[txn'[q].key] = a /\ txn'[q].limit = cap[a] /\ txn'[q].swept = swept
      BY <1>2, <1>6, <2>1
    <3>2. (Cardinality(Working(AgentOf[txn[q].key], txn[q].swept)))' = Cardinality(Working(a, swept)')
      BY <3>1
    <3> QED BY <1>4, <1>7, <3>1, <3>2
  <2>2. CASE q # p
    <3>1. txn'[q] = txn[q]
      BY <1>1, <1>3, <2>2
    <3>2. \A j \in Keys : Active(j)' => Active(j)
      BY <1>1 DEF Active
    <3> QED BY <1>8, <3>1, <3>2, CountsKept
  <2> QED BY <2>1, <2>2
<1> QED BY <1>1, <1>8 DEF CountInv, BelowLimit, Active

\* An insert activates its own attempt and ends the swept ones.
LEMMA InsertActivates ==
    ASSUME ReservationInv, NEW p \in Procs, InsertReservation(p)
    PROVE  /\ txn[p].key \in Keys
           /\ res'[txn[p].key].state = "reserved" /\ res'[txn[p].key].pools = txn[p].pools
           /\ \A j \in Keys \ {txn[p].key} :
                /\ Active(j)' => Active(j) /\ j \notin txn[p].swept
                /\ res'[j].state = "reserved" => res[j].state = "reserved"
           /\ txn' = [txn EXCEPT ![p] = Idle]
<1>1. /\ res \in [Keys -> Rows] /\ txn[p].pc = "insert"
      /\ \A q \in Procs : txn[q].pc # "idle" => txn[q].key \in Keys
  BY DEF ReservationInv, TypeOK, OpenTransactions, InsertReservation
<1>2. PICK k, swept, ps : k = txn[p].key /\ swept = txn[p].swept /\ ps = txn[p].pools
  OBVIOUS
<1>3. k \in Keys
  BY <1>1, <1>2
<1>4. PICK row : /\ row.state = "reserved" /\ row.pools = ps
                 /\ res' = [Ended(swept, "expired") EXCEPT ![k] = row]
  BY <1>2 DEF InsertReservation
<1>5. res'[k] = row
  BY <1>3, <1>4 DEF Ended
<1>6. ASSUME NEW j \in Keys \ {k}
      PROVE  /\ Active(j)' => Active(j) /\ j \notin swept
             /\ res'[j].state = "reserved" => res[j].state = "reserved"
  <2>1. res'[j] = IF j \in swept THEN [res[j] EXCEPT !.state = "expired"] ELSE res[j]
    BY <1>4, <1>6 DEF Ended
  <2>2. res[j] \in Rows
    BY <1>1
  <2>3. CASE j \in swept
    <3>1. res'[j].state = "expired"
      BY <2>1, <2>2, <2>3 DEF Rows
    <3> QED BY <3>1 DEF Active
  <2>4. CASE j \notin swept
    BY <2>1, <2>4 DEF Active
  <2> QED BY <2>3, <2>4
<1>7. txn' = [txn EXCEPT ![p] = Idle]
  BY DEF InsertReservation, Close
<1> QED BY <1>2, <1>3, <1>4, <1>5, <1>6, <1>7

\* No other insert is of the same agent, so no other count grows.
LEMMA InsertCounts ==
    ASSUME CountInv, ReservationInv', NEW p \in Procs, InsertReservation(p)
    PROVE  CountInv'
<1>1. PICK k : k = txn[p].key
  OBVIOUS
<1>2. /\ ReservationInv /\ txn \in [Procs -> Transactions] /\ txn[p].pc = "insert"
  BY DEF CountInv, ReservationInv, TypeOK, InsertReservation
<1>3. /\ k \in Keys
      /\ \A j \in Keys \ {k} : Active(j)' => Active(j)
      /\ txn' = [txn EXCEPT ![p] = Idle]
  BY <1>1, <1>2, InsertActivates
<1>4. IsFiniteSet({j \in Keys : Active(j)}')
  <2>1. {j \in Keys : Active(j)}' \subseteq {j \in Keys : Active(j)} \cup {k}
    BY <1>3
  <2>2. IsFiniteSet({j \in Keys : Active(j)} \cup {k})
    BY FS_AddElement DEF CountInv
  <2> QED BY <2>1, <2>2, FS_Subset
<1>5. ASSUME NEW q \in Procs, txn'[q].pc = "insert"
      PROVE  (Cardinality(Working(AgentOf[txn[q].key], txn[q].swept)) < txn[q].limit)'
  <2>1. q # p
    BY <1>2, <1>3, <1>5 DEF Idle
  <2>2. txn'[q] = txn[q]
    BY <1>2, <1>3, <2>1
  <2>3. AgentOf[txn[q].key] # AgentOf[k]
    BY <1>1, <1>2, <1>5, <2>1, <2>2 DEF ReservationInv, OpenTransactions
  <2>4. \A j \in Keys : Active(j)' /\ AgentOf[j] = AgentOf[txn[q].key] => Active(j)
    BY <1>3, <2>3
  <2> QED BY <1>5, <2>2, <2>4, CountsKept
<1> QED BY <1>4, <1>5 DEF CountInv, BelowLimit

\* The counts behind the locks are an invariant.
LEMMA CountsInvariant == Spec => []CountInv
<1>1. Init => CountInv
  <2> SUFFICES ASSUME Init PROVE CountInv
    OBVIOUS
  <2>1. {j \in Keys : Active(j)} = {}
    BY DEF Init, Active, Absent
  <2>2. \A p \in Procs : txn[p].pc # "insert"
    BY DEF Init, Idle
  <2>3. IsFiniteSet({j \in Keys : Active(j)})
    BY <2>1, FS_EmptySet
  <2> QED BY <2>2, <2>3, InitInv DEF CountInv, BelowLimit
<1>2. CountInv /\ [Next]_vars => CountInv'
  <2> SUFFICES ASSUME CountInv, [Next]_vars PROVE CountInv'
    OBVIOUS
  <2>1. ReservationInv /\ ReservationInv'
    BY NextInv DEF CountInv
  <2>2. CASE \E p \in Procs : CheckAcquire(p) \/ InsertReservation(p)
    BY <2>1, <2>2, CheckCounts, InsertCounts
  <2>3. CASE \A p \in Procs : ~CheckAcquire(p) /\ ~InsertReservation(p)
    BY <2>1, <2>3, OthersAreQuiet, QuietCounts
  <2> QED BY <2>2, <2>3
<1> QED BY <1>1, <1>2, PTL DEF Spec

\* Claims of one pool are in different slots, so they are as many as its used slots.
LEMMA SlotsCountClaims ==
    ASSUME ReservationInv, NEW q, NEW swept
    PROVE  LET S == {d \in claims : d.pool = q /\ d.key \notin swept}
           IN  IsFiniteSet(S) /\ Cardinality(S) = Cardinality(Used(q, swept))
<1> DEFINE S == {d \in claims : d.pool = q /\ d.key \notin swept}
           f == [c \in S |-> c.slot]
<1>1. IsFiniteSet(S)
  BY FS_Subset DEF ReservationInv, TypeOK
<1>2. f \in Surjection(S, Used(q, swept))
  BY DEF Surjection, Used
<1>3. \A c, d \in S : f[c] = f[d] => c = d
  BY DEF ReservationInv, SlotsWithinCapacity
<1>4. f \in Injection(S, Used(q, swept))
  <2> HIDE DEF f, S
  <2> QED BY <1>2, <1>3 DEF Injection, Surjection, IsInjective
<1>5. Cardinality(Used(q, swept)) = Cardinality(S)
  <2> HIDE DEF f, S
  <2> QED BY <1>1, <1>2, <1>4, FS_Surjection
<1> QED BY <1>1, <1>5

\* One more than fewer than a limit is within it.
LEMMA OneMore ==
    ASSUME NEW S, IsFiniteSet(S), NEW x, NEW T, T \subseteq S \cup {x},
           NEW n \in Nat, Cardinality(S) < n
    PROVE  Cardinality(T) <= n
<1>1. /\ IsFiniteSet(S \cup {x}) /\ Cardinality(S) \in Nat
      /\ Cardinality(S \cup {x}) = IF x \in S THEN Cardinality(S) ELSE Cardinality(S) + 1
  BY FS_AddElement, FS_CardinalityType
<1>2. /\ IsFiniteSet(T)
      /\ Cardinality(T) <= Cardinality(S \cup {x})
  BY <1>1, FS_Subset
<1>3. Cardinality(T) \in Nat
  BY <1>2, FS_CardinalityType
<1> QED BY <1>1, <1>2, <1>3

\* An acquire that commits leaves its agent within the cap it read and its pools within
\* their capacities, however many acquires overlap (AcquireReservation, the advisory locks).
THEOREM AdmissionsLimited == Spec => AdmitsWithinLimits
<1> DEFINE Limited(k) ==
      res[k].state = "none" /\ res'[k].state = "reserved" =>
        /\ \E p \in Procs :
             /\ txn[p].key = k
             /\ Cardinality({j \in Keys : res'[j].state \in {"reserved", "consumed"}
                                        /\ AgentOf[j] = AgentOf[k]}) <= txn[p].limit
        /\ \A q \in res'[k].pools :
             Cardinality({c \in claims' : c.pool = q}) <= capacity[q]
<1>1. ASSUME CountInv, [Next]_vars, NEW k \in Keys, res[k].state = "none", res'[k].state = "reserved"
      PROVE  /\ \E p \in Procs :
                  /\ txn[p].key = k
                  /\ Cardinality({j \in Keys : res'[j].state \in {"reserved", "consumed"}
                                             /\ AgentOf[j] = AgentOf[k]}) <= txn[p].limit
             /\ \A q \in res'[k].pools :
                  Cardinality({c \in claims' : c.pool = q}) <= capacity[q]
  <2>1. ReservationInv
    BY <1>1 DEF CountInv
  <2>2. ~ \A p \in Procs : ~CheckAcquire(p) /\ ~InsertReservation(p)
    BY <1>1, <2>1, OthersAreQuiet DEF Active
  <2>3. PICK p \in Procs : InsertReservation(p)
    <3>1. \A p \in Procs : ~CheckAcquire(p)
      BY <1>1 DEF CheckAcquire
    <3> QED BY <2>2, <3>1
  <2>4. /\ res'[txn[p].key].pools = txn[p].pools
        /\ \A j \in Keys \ {txn[p].key} :
             /\ Active(j)' => Active(j) /\ j \notin txn[p].swept
             /\ res'[j].state = "reserved" => res[j].state = "reserved"
    BY <2>1, <2>3, InsertActivates
  <2>5. txn[p].key = k
    BY <1>1, <2>4
  <2>6. txn[p].pc = "insert" /\ txn[p].limit \in Nat
    BY <2>1, <2>3 DEF InsertReservation, ReservationInv, TypeOK, Transactions
  <2>7. Cardinality({j \in Keys : res'[j].state \in {"reserved", "consumed"}
                                  /\ AgentOf[j] = AgentOf[k]}) <= txn[p].limit
    <3>1. Cardinality(Working(AgentOf[k], txn[p].swept)) < txn[p].limit
      BY <1>1, <2>5, <2>6 DEF CountInv, BelowLimit
    <3>2. IsFiniteSet(Working(AgentOf[k], txn[p].swept))
      BY <1>1, FewerWorking DEF CountInv
    <3>3. {j \in Keys : res'[j].state \in {"reserved", "consumed"} /\ AgentOf[j] = AgentOf[k]}
             \subseteq Working(AgentOf[k], txn[p].swept) \cup {k}
      BY <2>4, <2>5 DEF Working, Active
    <3> QED BY <2>6, <3>1, <3>2, <3>3, OneMore
  <2>8. ASSUME NEW q \in res'[k].pools
        PROVE  Cardinality({c \in claims' : c.pool = q}) <= capacity[q]
    <3> DEFINE S == {d \in claims : d.pool = q /\ d.key \notin txn[p].swept}
               x == [key |-> k, pool |-> q, slot |-> FreeSlot(Used(q, txn[p].swept))]
    <3>1. q \in txn[p].pools
      BY <2>4, <2>5, <2>8
    <3>2. Cardinality(Used(q, txn[p].swept)) < capacity[q]
      BY <2>3, <3>1 DEF InsertReservation
    <3>3. IsFiniteSet(S) /\ Cardinality(S) < capacity[q]
      BY <2>1, <3>2, SlotsCountClaims
    <3>4. q \in Pools
      BY <2>1, <3>1 DEF ReservationInv, TypeOK, Transactions
    <3>5. capacity[q] \in Nat
      BY <2>1, <3>4, ReservationAssumption DEF ReservationInv, TypeOK
    <3>6. claims' = Without(txn[p].swept) \cup ClaimsOf(k, txn[p].pools, txn[p].swept)
      BY <2>3, <2>5 DEF InsertReservation
    <3>7. {c \in claims' : c.pool = q} \subseteq S \cup {x}
      <4>1. \A c \in Without(txn[p].swept) : c.pool = q => c \in S
        BY DEF Without
      <4>2. \A c \in ClaimsOf(k, txn[p].pools, txn[p].swept) : c.pool = q => c = x
        BY DEF ClaimsOf
      <4> HIDE DEF S, x
      <4> QED BY <3>6, <4>1, <4>2
    <3> HIDE DEF S, x
    <3> QED BY <3>3, <3>5, <3>7, OneMore
  <2> QED BY <2>5, <2>7, <2>8
<1>2. CountInv /\ [Next]_vars => \A k \in Keys : Limited(k)
  BY <1>1
<1>3. (\A k \in Keys : Limited(k)) =>
      [\A k \in Keys : res[k].state = "none" /\ res'[k].state = "reserved" =>
        /\ \E p \in Procs :
             /\ txn[p].key = k
             /\ Cardinality({j \in Keys : res'[j].state \in {"reserved", "consumed"}
                                        /\ AgentOf[j] = AgentOf[k]}) <= txn[p].limit
        /\ \A q \in res'[k].pools :
             Cardinality({c \in claims' : c.pool = q}) <= capacity[q]]_vars
  OBVIOUS
<1> QED BY <1>2, <1>3, CountsInvariant, PTL DEF Spec, AdmitsWithinLimits

-----------------------------------------------------------------------------
(* The checkout columns are leases.                                         *)

\* A task's checkout columns take the steps of a lease, whoever writes them.
LEMMA LeaseStep ==
    ASSUME TypeOK, [Next]_vars, NEW t \in Tasks
    PROVE  [Lease(t)!Next]_(Lease(t)!vars)
<1>1. /\ now \in Nat /\ CheckoutTTL \in Nat \ {0} /\ lease[t].expires \in Nat
      /\ lease \in [Tasks -> [holder : Agents \cup {None}, generation : Nat, expires : Nat]]
      /\ None \notin Agents
  BY ReservationAssumption DEF TypeOK
<1>2. CASE lease' = lease /\ now' = now
  BY <1>2 DEF Lease!vars
<1>3. CASE Tick
  BY <1>1, <1>3 DEF Tick, Lease!Next, Lease!Tick
<1>4. ASSUME NEW u \in Tasks, NEW a \in Agents, TakeLease(u, a) PROVE [Lease(t)!Next]_(Lease(t)!vars)
  <2>1. CASE u = t
    <3>1. /\ lease'[t].holder = a /\ lease'[t].expires = now + CheckoutTTL
          /\ lease'[t].generation = lease[t].generation + 1 /\ now' = now
      BY <1>1, <1>4, <2>1 DEF TakeLease
    <3>2. lease[t].holder = None \/ lease[t].expires <= now
      BY <1>4, <2>1 DEF TakeLease
    <3>3. Lease(t)!Grant
      BY <1>1, <3>1, <3>2 DEF Lease!Grant, Lease!Live
    <3> QED BY <3>3 DEF Lease!Next
  <2>2. CASE u # t
    BY <1>1, <1>4, <2>2 DEF TakeLease, Lease!vars
  <2> QED BY <2>1, <2>2
<1>5. ASSUME NEW u \in Tasks, RenewLease(u) PROVE [Lease(t)!Next]_(Lease(t)!vars)
  <2>1. CASE u = t
    <3>1. /\ lease'[t].holder = lease[t].holder /\ lease'[t].expires = now + CheckoutTTL
          /\ lease'[t].generation = lease[t].generation /\ now' = now /\ lease[t].holder # None
      BY <1>1, <1>5, <2>1 DEF RenewLease
    <3>2. Lease(t)!Renew
      BY <1>1, <3>1 DEF Lease!Renew
    <3> QED BY <3>2 DEF Lease!Next
  <2>2. CASE u # t
    BY <1>1, <1>5, <2>2 DEF RenewLease, Lease!vars
  <2> QED BY <2>1, <2>2
<1>6. ASSUME NEW u \in Tasks, DropLease(u) PROVE [Lease(t)!Next]_(Lease(t)!vars)
  <2>1. CASE u = t
    <3>1. /\ lease'[t].holder = None /\ lease'[t].generation = lease[t].generation
          /\ now' = now /\ lease[t].holder # None
      BY <1>1, <1>6, <2>1 DEF DropLease
    <3>2. Lease(t)!End
      BY <3>1 DEF Lease!End
    <3> QED BY <3>2 DEF Lease!Next
  <2>2. CASE u # t
    BY <1>1, <1>6, <2>2 DEF DropLease, Lease!vars
  <2> QED BY <2>1, <2>2
<1>7. \/ lease' = lease /\ now' = now
      \/ Tick
      \/ \E u \in Tasks : DropLease(u) \/ RenewLease(u) \/ \E a \in Agents : TakeLease(u, a)
  BY DEF Next, Acquiring, Holding, Attempt, Around, vars, environment, BeginAcquire, CheckAcquire,
     InsertReservation, Rollback, BeginConsume, BeginRenew, CommitConsume, ExpireOnConsume,
     CommitRenew, ReleaseReservation, StartProcess, EndAttempt, SaveCatalog, Admit,
     SetRunnerActive, SetCap, ChangeGrant
<1> QED BY <1>2, <1>3, <1>4, <1>5, <1>6, <1>7

\* Reservations are bound to checkouts that are leases: the environment this module gives
\* them is the one that TaskCheckout is proved to provide.
THEOREM CheckoutsAreLeases == Spec => LeasesSpec
<1> SUFFICES ASSUME NEW t \in Tasks PROVE Spec => Lease(t)!Spec
  BY DEF LeasesSpec
<1>1. Init => Lease(t)!Init
  BY DEF Init, Lease!Init
<1>2. TypeOK /\ [Next]_vars => [Lease(t)!Next]_(Lease(t)!vars)
  BY LeaseStep
<1>3. ReservationInv => TypeOK
  BY DEF ReservationInv
<1> QED BY <1>1, <1>2, <1>3, ReservationsSound, PTL DEF Spec, Lease!Spec

-----------------------------------------------------------------------------
(* Reservations are the fleet's admissions.                                 *)

\* The attempts that occupy something, and what.
Occupants == {k \in Keys : Active(k)}
HeldBy == [k \in Occupants |-> Occupancy(k)]
OverKeys == {k \in Keys : res[k].state \in {"released", "expired"}}

\* An attempt whose task, worker and claims stay occupies what it did.
LEMMA OccupancyStays ==
    ASSUME NEW j, res'[j].task = res[j].task, res'[j].worker = res[j].worker,
           \A c : c.key = j => (c \in claims' <=> c \in claims)
    PROVE  Occupancy(j)' = Occupancy(j)
<1>1. {<<c.pool, c.slot>> : c \in {d \in claims' : d.key = j}}
        = {<<c.pool, c.slot>> : c \in {d \in claims : d.key = j}}
  OBVIOUS
<1> QED BY <1>1 DEF Occupancy

\* A row rewritten in place by its consume or a renewal keeps what it occupies.
LEMMA RunStaysAdmitted ==
    ASSUME ReservationInv, NEW k \in Keys, NEW row, Active(k),
           row.state = "consumed", row.task = res[k].task, row.worker = res[k].worker,
           res' = [res EXCEPT ![k] = row], UNCHANGED <<claims, run>>
    PROVE  UNCHANGED Fleet!vars
<1>1. res \in [Keys -> Rows]
  BY DEF ReservationInv, TypeOK
<1>2. Occupants' = Occupants /\ OverKeys' = OverKeys
  BY <1>1 DEF Occupants, OverKeys, Active
<1>3. \A j \in Keys : res'[j].task = res[j].task /\ res'[j].worker = res[j].worker
  BY <1>1
<1>4. \A j \in Keys : Occupancy(j)' = Occupancy(j)
  BY <1>3, OccupancyStays
<1>5. HeldBy' = HeldBy
  BY <1>2, <1>4 DEF HeldBy, Occupants
<1> QED BY <1>2, <1>5 DEF Fleet!vars, HeldBy, Occupants, OverKeys

\* Ending one reservation ends one admission.
LEMMA EndEndsAdmission ==
    ASSUME ReservationInv, NEW k \in Keys, NEW state \in {"released", "expired"},
           Active(k), run[k] # "live",
           res' = Ended({k}, state), claims' = Without({k}), UNCHANGED run
    PROVE  Fleet!EndAdmission(k)
<1>1. res \in [Keys -> Rows]
  BY DEF ReservationInv, TypeOK
<1>2. /\ \A j \in Keys : j # k => res'[j] = res[j]
      /\ res'[k].state = state
  BY <1>1 DEF Ended, Rows
<1>3. Occupants' = Occupants \ {k} /\ OverKeys' = OverKeys \cup {k} /\ k \in Occupants
  BY <1>1, <1>2 DEF Occupants, OverKeys, Active
<1>4. \A j \in Keys : j # k => Occupancy(j)' = Occupancy(j)
  <2> SUFFICES ASSUME NEW j \in Keys, j # k PROVE Occupancy(j)' = Occupancy(j)
    OBVIOUS
  <2>1. \A c : c.key = j => (c \in claims' <=> c \in claims)
    BY DEF Without
  <2> QED BY <1>2, <2>1, OccupancyStays
<1>5. HeldBy' = [j \in Occupants \ {k} |-> HeldBy[j]] /\ DOMAIN HeldBy = Occupants
  BY <1>3, <1>4 DEF HeldBy, Occupants
<1>6. k \in {j \in Occupants : run[j] # "live"}
  BY <1>3
<1> QED BY <1>3, <1>5, <1>6
        DEF Fleet!EndAdmission, Fleet!MayEnd, Fleet!Admitted, HeldBy, Occupants, OverKeys

\* An insert admits its attempt, over the swept ones, beside everyone else.
LEMMA InsertAdmits ==
    ASSUME ReservationInv, ReservationInv', NEW p \in Procs, InsertReservation(p)
    PROVE  \E k \in Keys : Fleet!Admit(k)
<1>0. PICK k : k = txn[p].key
  OBVIOUS
<1> DEFINE t == txn[p]
           swept == txn[p].swept
<1>1. /\ t.pc = "insert" /\ k \in Keys /\ t.task \in Tasks /\ t.worker \in Workers
      /\ res[k].state = "none" /\ res \in [Keys -> Rows]
      /\ swept \subseteq Keys /\ \A j \in swept : res[j].state = "reserved"
  BY <1>0 DEF InsertReservation, ReservationInv, OpenTransactions, TypeOK, Transactions, Lapsed
<1> DEFINE row == [state |-> "reserved", task |-> t.task, worker |-> t.worker,
                   pools |-> t.pools, generation |-> lease[t.task].generation,
                   revision |-> catalog.revision,
                   admission |-> admission[AgentOf[k]].revision, grant |-> t.grant,
                   fence |-> fence, expires |-> t.at + TTL, receipt |-> FALSE]
<1>2. /\ res' = [Ended(swept, "expired") EXCEPT ![k] = row]
      /\ row.state = "reserved" /\ row.task = t.task /\ row.worker = t.worker
  BY <1>0 DEF InsertReservation
<1> HIDE DEF row
<1>3. claims' = Without(swept) \cup ClaimsOf(k, t.pools, swept) /\ run' = run
  BY <1>0 DEF InsertReservation, environment
<1>4. k \notin swept
  BY <1>1
<1>5. /\ res'[k] = row
      /\ \A j \in swept : res'[j].state = "expired"
      /\ \A j \in Keys \ swept : j # k => res'[j] = res[j]
  BY <1>1, <1>2, <1>4 DEF Ended, Rows
<1>6. /\ Occupants' = (Occupants \ swept) \cup {k} /\ k \notin Occupants
      /\ OverKeys' = OverKeys \cup swept /\ k \notin OverKeys
      /\ swept \subseteq Occupants
  BY <1>1, <1>2, <1>5 DEF Occupants, OverKeys, Active
<1>7. \A j \in Occupants \ swept : Occupancy(j)' = Occupancy(j)
  <2> SUFFICES ASSUME NEW j \in Occupants \ swept PROVE Occupancy(j)' = Occupancy(j)
    OBVIOUS
  <2>1. j \in Keys \ swept /\ j # k
    BY <1>6 DEF Occupants
  <2>2. \A c \in ClaimsOf(k, t.pools, swept) : c.key = k
    BY DEF ClaimsOf
  <2>3. \A c : c.key = j => (c \in claims' <=> c \in claims)
    BY <1>3, <2>1, <2>2 DEF Without
  <2> QED BY <1>5, <2>1, <2>3, OccupancyStays
<1>8. HeldBy' = [j \in (Occupants \ swept) \cup {k} |-> IF j = k THEN HeldBy'[k] ELSE HeldBy[j]]
  BY <1>6, <1>7 DEF HeldBy
<1>9. k \in Occupants' /\ HeldBy'[k] \in Fleet!Holdings
  <2>1. Occupancy(k)'.slots \in SUBSET (Pools \X Nat)
    BY DEF Occupancy, ReservationInv, TypeOK, Claims
  <2>2. Occupancy(k)' \in Fleet!Holdings
    BY <1>1, <1>2, <1>5, <2>1 DEF Occupancy, Fleet!Holdings
  <2> QED BY <1>6, <2>2 DEF HeldBy
<1>10. \A j \in Occupants \ swept : Fleet!Apart(HeldBy[j], HeldBy'[k])
  <2> SUFFICES ASSUME NEW j \in Occupants \ swept PROVE Fleet!Apart(Occupancy(j)', Occupancy(k)')
    BY <1>6, <1>7 DEF HeldBy
  <2>1. j \in Keys /\ j # k /\ j \in Occupants' /\ k \in Occupants'
    BY <1>6 DEF Occupants
  <2>2. res'[j].task # res'[k].task /\ res'[j].worker # res'[k].worker
    BY <2>1 DEF ReservationInv, OneWriter, Occupants, Active
  <2>3. \A c \in claims', d \in claims' : c.pool = d.pool /\ c.slot = d.slot => c = d
    BY DEF ReservationInv, SlotsWithinCapacity
  <2>4. {<<c.pool, c.slot>> : c \in {d \in claims' : d.key = j}}
          \cap {<<c.pool, c.slot>> : c \in {d \in claims' : d.key = k}} = {}
    BY <2>1, <2>3
  <2> QED BY <2>2, <2>4 DEF Occupancy, Fleet!Apart
<1>11. \A j \in swept : run[j] # "live"
  BY <1>1 DEF ReservationInv, RowHistory
<1>12. Fleet!Admitted = Occupants /\ Fleet!Admitted' = Occupants'
  BY DEF Fleet!Admitted, Occupants
<1>13. swept \in SUBSET Fleet!MayEnd
  BY <1>6, <1>11, <1>12 DEF Fleet!MayEnd
<1>14. Fleet!Admit(k)
  BY <1>3, <1>6, <1>8, <1>9, <1>10, <1>12, <1>13 DEF Fleet!Admit, HeldBy, Occupants, OverKeys
<1> QED BY <1>1, <1>14

\* Every step is one of the fleet's admissions or none.
LEMMA FleetStep ==
    ASSUME ReservationInv, ReservationInv', [Next]_vars
    PROVE  [Fleet!Next]_(Fleet!vars)
<1>1. /\ \A p \in Procs : txn[p].pc # "idle" => txn[p].key \in Keys
      /\ \A j \in Keys : run[j] = "live" => res[j].receipt
      /\ \A j \in Keys : res[j].receipt => res[j].state \in {"consumed", "released"}
      /\ \A j \in Keys : res[j].state = "released" => run[j] = "gone"
      /\ res \in [Keys -> Rows] /\ run \in [Keys -> {"none", "live", "gone"}]
  BY DEF ReservationInv, OpenTransactions, RowHistory, TypeOK
<1>2. CASE UNCHANGED <<res, claims, run>>
  BY <1>2 DEF Fleet!vars, Occupancy, Active
<1>3. ASSUME NEW p \in Procs, InsertReservation(p) PROVE Fleet!Next
  BY <1>3, InsertAdmits DEF Fleet!Next
<1>4. ASSUME NEW p \in Procs, CommitConsume(p) PROVE UNCHANGED Fleet!vars
  <2>1. PICK k : k = txn[p].key
    OBVIOUS
  <2> DEFINE row == Consumed(k, txn[p].at)
  <2>2. k \in Keys /\ Active(k) /\ res[k] \in Rows
    BY <1>1, <1>4, <2>1 DEF CommitConsume, Consumable, Active
  <2>3. row.state = "consumed" /\ row.task = res[k].task /\ row.worker = res[k].worker
    BY <2>2 DEF Consumed, Rows
  <2>4. res' = [res EXCEPT ![k] = row] /\ UNCHANGED <<claims, run>>
    BY <1>4, <2>1 DEF CommitConsume, environment
  <2> HIDE DEF row
  <2> QED BY <2>2, <2>3, <2>4, RunStaysAdmitted
<1>5. ASSUME NEW p \in Procs, CommitRenew(p) PROVE UNCHANGED Fleet!vars
  <2>1. PICK k : k = txn[p].key
    OBVIOUS
  <2>2. PICK e : res' = [res EXCEPT ![k] = [res[k] EXCEPT !.expires = e]]
    BY <1>5, <2>1 DEF CommitRenew
  <2> DEFINE row == [res[k] EXCEPT !.expires = e]
  <2>3. k \in Keys /\ Active(k) /\ res[k] \in Rows /\ res[k].state = "consumed"
    BY <1>1, <1>5, <2>1 DEF CommitRenew, Active
  <2>4. row.state = "consumed" /\ row.task = res[k].task /\ row.worker = res[k].worker
    BY <2>3 DEF Rows
  <2>5. res' = [res EXCEPT ![k] = row] /\ UNCHANGED <<claims, run>>
    BY <1>5, <2>2 DEF CommitRenew, environment
  <2> HIDE DEF row
  <2> QED BY <2>3, <2>4, <2>5, RunStaysAdmitted
<1>6. ASSUME NEW p \in Procs, ExpireOnConsume(p) PROVE Fleet!Next
  <2>1. PICK k : k = txn[p].key
    OBVIOUS
  <2>2. /\ k \in Keys /\ Active(k) /\ res[k].state = "reserved"
        /\ res' = Ended({k}, "expired") /\ claims' = Without({k}) /\ run' = run
    BY <1>1, <1>6, <2>1 DEF ExpireOnConsume, Lapsed, Active, environment
  <2>3. run[k] # "live"
    BY <1>1, <2>2
  <2> QED BY <2>2, <2>3, EndEndsAdmission DEF Fleet!Next
<1>7. ASSUME NEW k \in Keys, NEW stopped \in BOOLEAN, NEW kind \in ProofKinds,
             ReleaseReservation(k, stopped, kind)
      PROVE  Fleet!Next
  <2>1. claims' = Without({k}) /\ run' = run
    BY <1>7 DEF ReleaseReservation, environment
  <2>2. CASE Lapsed(k, now)
    <3>1. Active(k) /\ res' = Ended({k}, "expired") /\ run[k] # "live"
      BY <1>1, <1>7, <2>2 DEF ReleaseReservation, Lapsed, Active
    <3> QED BY <2>1, <3>1, EndEndsAdmission DEF Fleet!Next
  <2>3. CASE ~Lapsed(k, now)
    <3>1. Active(k) /\ res' = Ended({k}, "released") /\ run[k] # "live"
      BY <1>7, <2>3 DEF ReleaseReservation, ProofAccepted
    <3> QED BY <2>1, <3>1, EndEndsAdmission DEF Fleet!Next
  <2> QED BY <2>2, <2>3
<1>8. ASSUME NEW k \in Keys, StartProcess(k) PROVE Fleet!Next
  <2>1. /\ res[k].receipt /\ run[k] = "none" /\ run' = [run EXCEPT ![k] = "live"]
        /\ UNCHANGED <<res, claims>>
    BY <1>8 DEF StartProcess
  <2>2. k \in Occupants
    BY <1>1, <2>1 DEF Occupants, Active
  <2>3. UNCHANGED <<HeldBy, OverKeys>> /\ DOMAIN HeldBy = Occupants
    BY <2>1 DEF HeldBy, OverKeys, Occupants, Occupancy, Active
  <2>4. Fleet!Start(k)
    BY <2>1, <2>2, <2>3 DEF Fleet!Start, Fleet!Admitted, HeldBy, OverKeys, Occupants
  <2> QED BY <2>4 DEF Fleet!Next
<1>9. ASSUME NEW k \in Keys, EndAttempt(k) PROVE Fleet!Next
  <2>1. /\ res[k].state # "none" /\ run[k] # "gone" /\ run' = [run EXCEPT ![k] = "gone"]
        /\ UNCHANGED <<res, claims>>
    BY <1>9 DEF EndAttempt
  <2>2. k \in Occupants \cup OverKeys
    BY <1>1, <2>1 DEF Occupants, OverKeys, Active, Rows, States
  <2>3. UNCHANGED <<HeldBy, OverKeys>> /\ DOMAIN HeldBy = Occupants
    BY <2>1 DEF HeldBy, OverKeys, Occupants, Occupancy, Active
  <2>4. Fleet!Exit(k)
    BY <2>1, <2>2, <2>3 DEF Fleet!Exit, Fleet!Admitted, HeldBy, OverKeys, Occupants
  <2> QED BY <2>4 DEF Fleet!Next
<1>10. UNCHANGED <<res, claims, run>>
        \/ (\E p \in Procs : InsertReservation(p) \/ CommitConsume(p) \/ CommitRenew(p) \/ ExpireOnConsume(p))
        \/ (\E k \in Keys, stopped \in BOOLEAN, kind \in ProofKinds : ReleaseReservation(k, stopped, kind))
        \/ (\E k \in Keys : StartProcess(k) \/ EndAttempt(k))
  BY DEF Next, Acquiring, Holding, Attempt, Around, vars, environment, BeginAcquire, CheckAcquire, Rollback,
     BeginConsume, BeginRenew, TakeLease, RenewLease, DropLease, SaveCatalog, Admit,
     SetRunnerActive, SetCap, ChangeGrant, Tick
<1> QED BY <1>2, <1>3, <1>4, <1>5, <1>6, <1>7, <1>8, <1>9, <1>10

\* The reservations implement the fleet's admissions: exclusive, given once, unchanged
\* while they last, and no process outside of its own (runtime_reservation_repo.go).
THEOREM ImplementsAdmission == Spec => AdmissionSpec
<1>1. Init => Fleet!Init
  <2> SUFFICES ASSUME Init PROVE Fleet!Init
    OBVIOUS
  <2>1. Occupants = {} /\ OverKeys = {} /\ run = [k \in Keys |-> "none"]
    BY DEF Init, Absent, Occupants, OverKeys, Active
  <2>2. HeldBy = [k \in {} |-> k]
    BY <2>1 DEF HeldBy
  <2> QED BY <2>1, <2>2 DEF Fleet!Init, HeldBy, Occupants, OverKeys
<1>2. ReservationInv /\ ReservationInv' /\ [Next]_vars => [Fleet!Next]_(Fleet!vars)
  BY FleetStep
<1> QED BY <1>1, <1>2, ReservationsSound, PTL DEF Spec, AdmissionSpec, Fleet!Spec
=============================================================================
