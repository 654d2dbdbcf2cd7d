------------------------ MODULE TaskCheckout_proofs ------------------------
(***************************************************************************)
(* The safety properties of TaskCheckout for every set of clients, agents, *)
(* statuses, TTLs and bounds: IInv is inductive, and the action properties *)
(* follow from it step by step.                                            *)
(***************************************************************************)
EXTENDS TaskCheckout, TLAPS

-----------------------------------------------------------------------------
(* What the row operators do to a row.                                      *)

\* The stage trigger keeps every column but the stage, and leaves the stage
\* either cleared or as it was and equal to the status.
LEMMA StoredRow ==
    ASSUME NEW t \in TaskRow
    PROVE  /\ Stored(t) \in TaskRow
           /\ Stored(t).status = t.status /\ Stored(t).holder = t.holder
           /\ Stored(t).token = t.token /\ Stored(t).expires = t.expires
           /\ Stored(t).session = t.session /\ Stored(t).generation = t.generation
           /\ Stored(t).gate = t.gate /\ Stored(t).marker = t.marker
           /\ Stored(t).stage # None => Stored(t).stage = t.stage /\ t.stage = t.status
BY DEF Stored, TaskRow

\* A release clears holder, token and deadline and nothing else.
LEMMA ReleasedRow ==
    ASSUME NEW t \in TaskRow
    PROVE  /\ Released(t) \in TaskRow
           /\ Released(t).holder = None /\ Released(t).token = None
           /\ Released(t).expires = None
           /\ Released(t).status = t.status /\ Released(t).stage = t.stage
           /\ Released(t).session = t.session
           /\ Released(t).generation = t.generation
           /\ Released(t).gate = t.gate /\ Released(t).marker = t.marker
BY DEF Released, TaskRow

\* Voiding a lease never gives a client a deadline it did not have.
LEMMA VoidedPromise ==
    ASSUME NEW g \in Nat, promise \in [Clients -> Promise]
    PROVE  /\ Voided(g) \in [Clients -> Promise]
           /\ \A c \in Clients :
                /\ Voided(g)[c].generation = promise[c].generation
                /\ Voided(g)[c].session = promise[c].session
                /\ Voided(g)[c].until =
                     IF promise[c].generation = g THEN 0 ELSE promise[c].until
BY DEF Voided, Promise

-----------------------------------------------------------------------------
(* Two shapes of write: one that keeps the lease, one that ends it.         *)

\* A row with the status, stage and lease columns of the current one.
KeepsLease(t) ==
    /\ t \in TaskRow
    /\ t.status = task.status /\ t.stage = task.stage
    /\ t.holder = task.holder /\ t.token = task.token
    /\ t.expires = task.expires /\ t.session = task.session
    /\ t.generation = task.generation

\* A write of such a row preserves the invariant, whatever call makes it.
LEMMA KeepLeaseCall ==
    ASSUME IInv, NEW t, KeepsLease(t), Write(t),
           UNCHANGED <<now, promise, stageBy>>,
           op' \in [Procs -> Calls], CallShape', phase' \in 1 .. 3
    PROVE  IInv'
<1>1. /\ task' \in TaskRow /\ current' = {}
      /\ task'.status = task.status /\ task'.holder = task.holder
      /\ task'.token = task.token /\ task'.expires = task.expires
      /\ task'.session = task.session /\ task'.generation = task.generation
      /\ task'.stage # None => task'.stage = task.stage /\ task.stage = task.status
  BY StoredRow DEF Write, KeepsLease
<1>2. TypeOK' /\ SnapshotsHold'
  BY <1>1 DEF IInv, TypeOK, SnapshotsHold
<1>3. LeaseShape' /\ PromiseShape' /\ LeaseHonored' /\ TerminalHoldsNoLease'
  BY <1>1 DEF IInv, LeaseShape, PromiseShape, LeaseHonored, TerminalHoldsNoLease
<1>4. MarkerMeansCheckoutStage'
  BY <1>1 DEF IInv, MarkerMeansCheckoutStage
<1>5. QED
  BY <1>2, <1>3, <1>4 DEF IInv

\* In particular by a statement that is a call of its own.
LEMMA KeepLease ==
    ASSUME IInv, NEW t, KeepsLease(t), Write(t),
           UNCHANGED <<now, op, phase, promise, stageBy>>
    PROVE  IInv'
<1>1. op' \in [Procs -> Calls] /\ CallShape' /\ phase' \in 1 .. 3
  BY DEF IInv, TypeOK, CallShape
<1>2. QED
  BY <1>1, KeepLeaseCall

\* A write that ends the lease, when nothing is owed to any session.
LEMMA EndLease ==
    ASSUME IInv, NEW t \in TaskRow, Write(t),
           t.holder = None, t.token = None, t.expires = None,
           t.generation = task.generation,
           promise' \in [Clients -> Promise],
           \A c \in Clients :
             /\ promise'[c].generation = promise[c].generation
             /\ promise'[c].session = promise[c].session
             /\ promise'[c].session = c => promise'[c].until <= now,
           op' \in [Procs -> Calls],
           CallShape', phase' \in 1 .. 3, UNCHANGED now,
           stageBy' \in {"checkout", "other"},
           (t.stage = t.status) => (t.stage = None \/ stageBy' = "checkout")
    PROVE  IInv'
<1>1. /\ task' \in TaskRow /\ current' = {}
      /\ task'.status = t.status /\ task'.holder = None
      /\ task'.token = None /\ task'.expires = None
      /\ task'.generation = task.generation
      /\ task'.stage # None => task'.stage = t.stage /\ t.stage = t.status
  BY StoredRow DEF Write
<1>2. TypeOK' /\ SnapshotsHold'
  BY <1>1 DEF IInv, TypeOK, SnapshotsHold
<1>3. LeaseShape' /\ TerminalHoldsNoLease'
  BY <1>1 DEF IInv, LeaseShape, TerminalHoldsNoLease
<1>4. PromiseShape'
  BY <1>1 DEF IInv, PromiseShape
<1>5. LeaseHonored'
  <2>1. SUFFICES ASSUME NEW c \in Clients, promise'[c].session = c,
                        promise'[c].until > now
                 PROVE  FALSE
    BY DEF LeaseHonored
  <2>2. promise'[c].until \in Nat /\ now \in Nat
    BY DEF Promise, IInv, TypeOK
  <2>3. QED
    BY <2>1, <2>2
<1>6. MarkerMeansCheckoutStage'
  BY <1>1 DEF MarkerMeansCheckoutStage
<1>7. QED
  BY <1>2, <1>3, <1>4, <1>5, <1>6 DEF IInv

\* A step that writes no row: only calls, snapshots and the phase move on.
LEMMA NoWrite ==
    ASSUME IInv, UNCHANGED <<task, now, promise, stageBy>>,
           op' \in [Procs -> Calls],
           CallShape', SnapshotsHold', current' \subseteq Procs, phase' \in 1 .. 3
    PROVE  IInv'
<1>1. TypeOK'
  BY DEF IInv, TypeOK
<1>2. LeaseShape' /\ PromiseShape' /\ TerminalHoldsNoLease' /\ MarkerMeansCheckoutStage'
  BY DEF IInv, LeaseShape, PromiseShape, TerminalHoldsNoLease, MarkerMeansCheckoutStage
<1>3. LeaseHonored'
  BY DEF IInv, LeaseHonored
<1>4. QED
  BY <1>1, <1>2, <1>3 DEF IInv

\* Setting one process's call keeps the calls well shaped.
LEMMA SetCall ==
    ASSUME IInv, NEW p \in Procs, NEW m,
           m \in Calls,
           m.pc \in {"read", "write"} => m.target \in Statuses,
           m.pc = "explain" => m.target = "review" /\ "review" \in Statuses,
           p = Reaper => m = Idle \/ ByReaper(m),
           p = User => m = Idle \/ m.kind = "move",
           p \in Clients => ~ByReaper(m),
           op' = [op EXCEPT ![p] = m]
    PROVE  /\ op' \in [Procs -> Calls]
           /\ CallShape'
           /\ op'[p] = m
           /\ \A q \in Procs \ {p} : op'[q] = op[q]
<1>1. /\ op' \in [Procs -> Calls]
      /\ op'[p] = m
      /\ \A q \in Procs \ {p} : op'[q] = op[q]
  BY DEF IInv, TypeOK
<1>2. CallShape'
  <2>1. SUFFICES ASSUME NEW q \in Procs
                 PROVE  /\ op'[q].pc \in {"read", "write"} => op'[q].target \in Statuses
                        /\ op'[q].pc = "explain" =>
                             op'[q].target = "review" /\ "review" \in Statuses
                        /\ q = Reaper => op'[q] = Idle \/ ByReaper(op'[q])
                        /\ q = User => op'[q] = Idle \/ op'[q].kind = "move"
                        /\ q \in Clients => ~ByReaper(op'[q])
    BY DEF CallShape, ByReaper
  <2>2. CASE q = p
    BY <1>1, <2>2
  <2>3. CASE q # p
    BY <1>1, <2>3 DEF IInv, CallShape
  <2>4. QED
    BY <2>2, <2>3
<1>3. QED
  BY <1>1, <1>2

\* An idle process is a well-shaped call of anybody's.
LEMMA IdleCall ==
    /\ Idle \in Calls
    /\ Idle.pc = "idle" /\ Idle.kind = "none" /\ ~ByReaper(Idle)
BY DEF Idle, Calls, Kinds, ByReaper

\* The phase counter goes round.
LEMMA PhaseRound == \A n \in 1 .. 3 : (n % 3) + 1 \in 1 .. 3
<1>1. SUFFICES ASSUME NEW n \in 1 .. 3 PROVE (n % 3) + 1 \in 1 .. 3
  OBVIOUS
<1>2. n = 1 \/ n = 2 \/ n = 3
  BY <1>1
<1>3. QED
  BY <1>2

\* A write that grants, extends or keeps a lease, when the new promises fit it.
LEMMA LeaseWrite ==
    ASSUME IInv, NEW t \in TaskRow, Write(t), UNCHANGED now,
           op' \in [Procs -> Calls], CallShape', phase' \in 1 .. 3,
           stageBy' \in {"checkout", "other"}, promise' \in [Clients -> Promise],
           t.holder = None <=> t.expires = None,
           t.holder # None => t.token = t.generation /\ t.generation > 0,
           t.holder = None => t.token = None,
           (t.holder # None /\ t.session # None) => t.holder = AgentOf[t.session],
           t.status \in Terminal => t.holder = None,
           (t.stage = t.status) => (t.stage = None \/ stageBy' = "checkout"),
           \A c \in Clients :
             /\ promise'[c].session \in {c, None}
             /\ promise'[c].generation <= t.generation
             /\ (t.holder # None /\ promise'[c].generation = t.generation) =>
                   promise'[c].session = t.session
             /\ (promise'[c].session = c /\ promise'[c].until > now) =>
                   /\ t.holder = AgentOf[c] /\ t.session = c
                   /\ t.generation = promise'[c].generation
                   /\ t.expires >= promise'[c].until
    PROVE  IInv'
<1>1. /\ task' \in TaskRow /\ current' = {}
      /\ task'.status = t.status /\ task'.holder = t.holder
      /\ task'.token = t.token /\ task'.expires = t.expires
      /\ task'.session = t.session /\ task'.generation = t.generation
      /\ task'.stage # None => task'.stage = t.stage /\ t.stage = t.status
  BY StoredRow DEF Write
<1>2. TypeOK' /\ SnapshotsHold'
  BY <1>1 DEF IInv, TypeOK, SnapshotsHold
<1>3. LeaseShape' /\ TerminalHoldsNoLease'
  BY <1>1 DEF LeaseShape, TerminalHoldsNoLease
<1>4. PromiseShape' /\ LeaseHonored'
  BY <1>1 DEF PromiseShape, LeaseHonored
<1>5. MarkerMeansCheckoutStage'
  BY <1>1 DEF MarkerMeansCheckoutStage
<1>6. QED
  BY <1>2, <1>3, <1>4, <1>5 DEF IInv

\* A held row has a deadline in Nat.
LEMMA HeldRow ==
    ASSUME IInv, task.holder # None
    PROVE  task.expires \in Nat /\ task.holder \in Agents /\ now \in Nat
BY DEF IInv, TypeOK, TaskRow, LeaseShape

\* Nothing is owed to a session once the deadline is past, or when the row's
\* lease carries no session.
LEMMA NothingOwed ==
    ASSUME IInv, Lapsed(task) \/ task.session = None, NEW c \in Clients,
           promise[c].session = c
    PROVE  promise[c].until <= now
<1>1. promise[c].until \in Nat /\ now \in Nat /\ c # None
  BY ConstantsAssumption DEF IInv, TypeOK, Promise
<1>2. SUFFICES ASSUME promise[c].until > now PROVE FALSE
  BY <1>1
<1>3. /\ task.holder = AgentOf[c] /\ task.session = c
      /\ task.expires >= promise[c].until
  BY <1>2 DEF IInv, LeaseHonored
<1>4. task.holder # None
  BY <1>3, ConstantsAssumption
<1>5. task.expires \in Nat
  BY <1>4, HeldRow
<1>6. task.expires > now
  BY <1>1, <1>2, <1>3, <1>5
<1>7. QED
  BY <1>1, <1>3, <1>4, <1>5, <1>6 DEF Lapsed

\* Voiding the row's own generation leaves nothing owed to any session.
LEMMA VoidedOwesNothing ==
    ASSUME IInv, NEW c \in Clients, promise[c].session = c
    PROVE  Voided(task.generation)[c].until <= now
<1>1. /\ promise \in [Clients -> Promise] /\ task.generation \in Nat /\ now \in Nat
      /\ promise[c].until \in Nat
  BY DEF IInv, TypeOK, TaskRow, Promise
<1>2. Voided(task.generation)[c].until =
        IF promise[c].generation = task.generation THEN 0 ELSE promise[c].until
  BY <1>1, VoidedPromise
<1>3. CASE promise[c].generation = task.generation
  BY <1>1, <1>2, <1>3
<1>4. CASE promise[c].generation # task.generation
  BY <1>1, <1>2, <1>4 DEF IInv, LeaseHonored
<1>5. QED
  BY <1>3, <1>4

-----------------------------------------------------------------------------
(* One lemma per action: it preserves IInv.                                 *)

\* The first row, with no call and no promise, satisfies the invariant.
LEMMA InitIInv == Init => IInv
<1> SUFFICES ASSUME Init PROVE IInv
  OBVIOUS
<1>2. TypeOK
  BY ConstantsAssumption, IdleCall DEF Init, TypeOK, TaskRow, Promise
<1>3. LeaseShape /\ SnapshotsHold /\ PromiseShape /\ TerminalHoldsNoLease
  BY DEF Init, LeaseShape, SnapshotsHold, PromiseShape, TerminalHoldsNoLease, Terminal
<1>4. CallShape
  BY IdleCall DEF Init, CallShape
<1>5. LeaseHonored /\ MarkerMeansCheckoutStage
  BY DEF Init, LeaseHonored, MarkerMeansCheckoutStage
<1>6. QED
  BY <1>2, <1>3, <1>4, <1>5 DEF IInv

\* The pre-read of a checkout writes nothing.
LEMMA CheckoutTaskStep ==
    ASSUME IInv, NEW c \in Clients, CheckoutTask(c)
    PROVE  IInv'
<1> DEFINE m == Call("acquire", "checkout",
                     IF task.status = "todo" THEN "in_progress" ELSE None, 0)
<1>1. c \in Procs /\ c # Reaper /\ c # User
  BY ConstantsAssumption DEF Procs
<1>2. /\ m \in Calls /\ m.pc = "acquire" /\ m.kind = "checkout" /\ ~ByReaper(m)
  BY ConstantsAssumption DEF Call, Calls, Kinds, ByReaper
<1>3. op' = [op EXCEPT ![c] = m] /\ UNCHANGED <<task, now, current, phase, promise, stageBy>>
  BY DEF CheckoutTask, Begin
<1> HIDE DEF m
<1>4. /\ op' \in [Procs -> Calls] /\ CallShape' /\ op'[c] = m
      /\ \A q \in Procs \ {c} : op'[q] = op[q]
  BY <1>1, <1>2, <1>3, SetCall
<1>5. SnapshotsHold'
  BY <1>2, <1>3, <1>4 DEF IInv, TypeOK, SnapshotsHold, WaitMarkerLive
<1>6. QED
  BY <1>3, <1>4, <1>5, NoWrite DEF IInv, TypeOK

\* A call that returns leaves its process idle and its snapshot dropped.
LEMMA ReturnStep ==
    ASSUME IInv, NEW p \in Procs, Return(p), current' \subseteq current \ {p},
           UNCHANGED <<task, now, promise, stageBy>>
    PROVE  IInv'
<1>1. /\ op' \in [Procs -> Calls] /\ CallShape' /\ op'[p] = Idle
      /\ \A q \in Procs \ {p} : op'[q] = op[q]
  BY IdleCall, SetCall DEF Return
<1>2. phase' \in 1 .. 3
  BY PhaseRound DEF IInv, TypeOK, Return
<1>3. SnapshotsHold'
  BY <1>1 DEF IInv, TypeOK, SnapshotsHold, WaitMarkerLive
<1>4. QED
  BY <1>1, <1>2, <1>3, NoWrite DEF IInv, TypeOK

\* Ending a call without a write.
LEMMA AbandonStep ==
    ASSUME IInv, NEW p \in Procs, Abandon(p)
    PROVE  IInv'
BY ReturnStep DEF Abandon

\* Who a move is made as: only a person's move is made as a person.
LEMMA ActorIsUser ==
    ASSUME NEW p \in Procs, NEW m, p = Reaper => ByReaper(m),
           Actor(p, m) = User
    PROVE  p = User
<1>1. CASE ByReaper(m) \/ m.kind = "checkout"
  BY <1>1, ConstantsAssumption DEF Actor
<1>2. CASE p \in Clients /\ ~(ByReaper(m) \/ m.kind = "checkout")
  BY <1>2, ConstantsAssumption DEF Actor
<1>3. QED
  BY <1>1, <1>2 DEF Procs

\* What a read lets through still holds of the row it read.
LEMMA ReadStep ==
    ASSUME IInv, NEW p \in Procs, NEW m \in Calls, Read(p, m),
           m.target \in Statuses,
           p = Reaper => ByReaper(m),
           p = User => m.kind = "move",
           p \in Clients => ~ByReaper(m),
           m.kind = "unleased" => m = op[p]
    PROVE  IInv'
<1>1. UNCHANGED <<task, now, promise, stageBy>>
  BY DEF Read
<1>2. CASE Refuses(p, m) \/ (m.target = task.status /\ m.kind # "finish")
  <2>1. Return(p) /\ current' = current \ {p}
    BY <1>2 DEF Read
  <2>2. QED
    BY <1>1, <2>1, ReturnStep
<1>3. CASE ~(Refuses(p, m) \/ (m.target = task.status /\ m.kind # "finish"))
  <2>0. PICK usable \in ReviewerUsable :
          op' = [op EXCEPT ![p] = [m EXCEPT !.pc = AfterRead(m, usable)]]
    BY <1>3 DEF Read, Begin
  <2> DEFINE w == [m EXCEPT !.pc = AfterRead(m, usable)]
  <2>1. /\ op' = [op EXCEPT ![p] = w] /\ current' = current \cup {p}
        /\ phase' = phase
    BY <1>3, <2>0 DEF Read
  <2>2. /\ w \in Calls /\ w.kind = m.kind /\ w.target = m.target
        /\ w.pc = "write" \/ (w.pc = "explain" /\ w.target = "review")
    BY DEF Calls, AfterRead
  <2>3. ByReaper(w) <=> ByReaper(m)
    BY <2>2 DEF ByReaper
  <2> HIDE DEF w
  <2>4. /\ op' \in [Procs -> Calls] /\ CallShape' /\ op'[p] = w
        /\ \A q \in Procs \ {p} : op'[q] = op[q]
    BY <2>1, <2>2, <2>3, SetCall
  <2>5. (m.target \in Terminal /\ m.target # task.status) =>
          task.gate = None \/ p = User
    BY <1>3, ActorIsUser DEF Refuses
  <2>6. m.kind = "unleased" => ~WaitMarkerLive(task)
    BY <1>3 DEF Refuses, ByReaper, IInv, SnapshotsHold
  <2>7. SnapshotsHold'
    <3> SUFFICES ASSUME NEW q \in current'
                 PROVE  /\ (op'[q].pc = "write" /\ op'[q].target \in Terminal
                              /\ op'[q].target # task'.status)
                             => task'.gate = None \/ q = User
                        /\ op'[q].kind = "unleased" => ~WaitMarkerLive(task)'
      BY DEF SnapshotsHold
    <3>1. WaitMarkerLive(task)' <=> WaitMarkerLive(task)
      BY <1>1 DEF WaitMarkerLive
    <3>2. CASE q = p
      BY <1>1, <2>2, <2>4, <2>5, <2>6, <3>1, <3>2
    <3>3. CASE q # p
      <4>1. q \in current /\ q \in Procs
        BY <2>1, <3>3 DEF IInv, TypeOK
      <4>2. QED
        BY <1>1, <2>4, <3>1, <3>3, <4>1 DEF IInv, SnapshotsHold
    <3>4. QED
      BY <3>2, <3>3
  <2>8. QED
    BY <1>1, <2>1, <2>4, <2>7, NoWrite DEF IInv, TypeOK
<1>4. QED
  BY <1>2, <1>3

\* The read halves of MoveTask, finish_task, the reflection and the sweeps.
LEMMA MoveReadStep ==
    ASSUME IInv
    PROVE  /\ \A p \in Procs \ {Reaper}, target \in Statuses :
                MoveTask(p, target) => IInv'
           /\ \A c \in Clients, target \in Statuses : FinishTask(c, target) => IInv'
           /\ \A p \in Procs : MoveRead(p) => IInv'
<1>1. ASSUME NEW p \in Procs \ {Reaper}, NEW target \in Statuses, MoveTask(p, target)
      PROVE  IInv'
  <2> DEFINE m == Call("read", "move", target, CASAttempts)
  <2>1. m \in Calls /\ m.kind = "move" /\ m.target = target /\ ~ByReaper(m)
    BY ConstantsAssumption DEF Call, Calls, Kinds, ByReaper
  <2>2. Read(p, m)
    BY <1>1 DEF MoveTask
  <2> HIDE DEF m
  <2>3. QED
    BY <1>1, <2>1, <2>2, ReadStep
<1>2. ASSUME NEW c \in Clients, NEW target \in Statuses, FinishTask(c, target)
      PROVE  IInv'
  <2> DEFINE m == Call("read", "finish", target, CASAttempts)
  <2>1. m \in Calls /\ m.kind = "finish" /\ m.target = target /\ ~ByReaper(m)
    BY ConstantsAssumption DEF Call, Calls, Kinds, ByReaper
  <2>2. Read(c, m)
    BY <1>2 DEF FinishTask
  <2>3. c \in Procs /\ c # Reaper /\ c # User
    BY ConstantsAssumption DEF Procs
  <2> HIDE DEF m
  <2>4. QED
    BY <2>1, <2>2, <2>3, ReadStep
<1>3. ASSUME NEW p \in Procs, MoveRead(p)
      PROVE  IInv'
  <2>1. Read(p, op[p]) /\ op[p].pc = "read" /\ op[p] # Idle
    BY <1>3, IdleCall DEF MoveRead
  <2>2. /\ op[p] \in Calls /\ op[p].target \in Statuses
        /\ p = Reaper => ByReaper(op[p])
        /\ p = User => op[p].kind = "move"
        /\ p \in Clients => ~ByReaper(op[p])
    BY <2>1 DEF IInv, TypeOK, CallShape
  <2>3. QED
    BY <2>1, <2>2, ReadStep
<1>4. QED
  BY <1>1, <1>2, <1>3

\* A sweep's selection: it starts a call on the snapshot, or the phase passes.
LEMMA SelectStep ==
    ASSUME IInv, NEW m \in Calls, ByReaper(m), m.pc = "read", m.target \in Statuses,
           m.kind = "unleased" => ~WaitMarkerLive(task),
           UNCHANGED <<task, now, promise, stageBy>>,
           \/ Begin(Reaper, m) /\ current' = current \cup {Reaper} /\ UNCHANGED phase
           \/ NextPhase /\ UNCHANGED <<op, current>>
    PROVE  IInv'
<1>1. Reaper \in Procs /\ Reaper # User /\ Reaper \notin Clients
  BY ConstantsAssumption DEF Procs
<1>2. WaitMarkerLive(task)' <=> WaitMarkerLive(task)
  BY DEF WaitMarkerLive
<1>3. CASE Begin(Reaper, m) /\ current' = current \cup {Reaper} /\ UNCHANGED phase
  <2>1. /\ op' \in [Procs -> Calls] /\ CallShape' /\ op'[Reaper] = m
        /\ \A q \in Procs \ {Reaper} : op'[q] = op[q]
    BY <1>1, <1>3, SetCall DEF Begin
  <2>2. SnapshotsHold'
    BY <1>2, <1>3, <2>1 DEF IInv, TypeOK, SnapshotsHold
  <2>3. QED
    BY <1>1, <1>3, <2>1, <2>2, NoWrite DEF IInv, TypeOK
<1>4. CASE NextPhase /\ UNCHANGED <<op, current>>
  <2>1. CallShape' /\ SnapshotsHold'
    BY <1>2, <1>4 DEF IInv, CallShape, SnapshotsHold
  <2>2. phase' \in 1 .. 3
    BY <1>4, PhaseRound DEF NextPhase, IInv, TypeOK
  <2>3. QED
    BY <1>4, <2>1, <2>2, NoWrite DEF IInv, TypeOK
<1>5. QED
  BY <1>3, <1>4

\* A row with an expired lease is held, and lapsed.
LEMMA ExpiredRow ==
    ASSUME IInv, Expired(task)
    PROVE  task.holder # None /\ task.expires \in Nat /\ Lapsed(task)
BY DEF IInv, TypeOK, TaskRow, LeaseShape, Expired, Lapsed

\* The three phases of the reaper.
LEMMA SweepStep ==
    ASSUME IInv, Sweep
    PROVE  IInv'
<1>1. CASE SweepExpiredLeases
  <2> DEFINE m == Call("read", "expired", "todo", 1)
  <2>1. /\ m \in Calls /\ ByReaper(m) /\ m.pc = "read" /\ m.target \in Statuses
        /\ m.kind = "expired"
    BY ConstantsAssumption DEF Call, Calls, Kinds, ByReaper
  <2>2. /\ UNCHANGED <<task, now, promise, stageBy>>
        /\ \/ Begin(Reaper, m) /\ current' = current \cup {Reaper} /\ UNCHANGED phase
           \/ NextPhase /\ UNCHANGED <<op, current>>
    BY <1>1 DEF SweepExpiredLeases
  <2> HIDE DEF m
  <2>3. QED
    BY <2>1, <2>2, SelectStep
<1>2. CASE ReleaseExpiredCheckouts
  <2>1. /\ phase' \in 1 .. 3
        /\ UNCHANGED <<now, op, promise, stageBy>>
    BY <1>2, PhaseRound DEF ReleaseExpiredCheckouts, NextPhase, IInv, TypeOK
  <2>2. CallShape' /\ op' \in [Procs -> Calls]
    BY <2>1 DEF IInv, CallShape, TypeOK
  <2>3. CASE Expired(task) /\ ~OnCheckoutStage(task)
    <3> DEFINE t == [Released(task) EXCEPT !.touched = now]
    <3>1. Write(t)
      BY <1>2, <2>3 DEF ReleaseExpiredCheckouts
    <3>2. /\ t \in TaskRow /\ t.holder = None /\ t.token = None /\ t.expires = None
          /\ t.generation = task.generation
          /\ t.status = task.status /\ t.stage = task.stage
      BY ReleasedRow DEF IInv, TypeOK, TaskRow
    <3> HIDE DEF t
    <3>3. \A c \in Clients : promise'[c].session = c => promise'[c].until <= now
      BY <2>1, <2>3, ExpiredRow, NothingOwed
    <3>4. (t.stage = t.status) => (t.stage = None \/ stageBy' = "checkout")
      BY <2>1, <3>2 DEF IInv, MarkerMeansCheckoutStage
    <3>5. QED
      BY <2>1, <2>2, <3>1, <3>2, <3>3, <3>4, EndLease DEF IInv, TypeOK
  <2>4. CASE ~(Expired(task) /\ ~OnCheckoutStage(task))
    <3>1. UNCHANGED <<task, current>>
      BY <1>2, <2>4 DEF ReleaseExpiredCheckouts
    <3>2. SnapshotsHold'
      BY <2>1, <3>1 DEF IInv, SnapshotsHold, WaitMarkerLive
    <3>3. QED
      BY <2>1, <2>2, <3>1, <3>2, NoWrite DEF IInv, TypeOK
  <2>5. QED
    BY <2>3, <2>4
<1>3. CASE SweepUnleasedInProgress
  <2>1. UNCHANGED <<task, now, promise, stageBy>>
    BY <1>3 DEF SweepUnleasedInProgress
  <2>2. CASE /\ StaleUnleased(task)
             /\ \E target \in HandBackTargets :
                  Begin(Reaper, Call("read", "unleased", target, 1))
             /\ current' = current \cup {Reaper} /\ UNCHANGED phase
    <3>1. PICK target \in HandBackTargets :
            Begin(Reaper, Call("read", "unleased", target, 1))
      BY <2>2
    <3> DEFINE m == Call("read", "unleased", target, 1)
    <3>2. /\ m \in Calls /\ ByReaper(m) /\ m.pc = "read" /\ m.target \in Statuses
          /\ m.kind = "unleased"
      BY DEF Call, Calls, Kinds, ByReaper, HandBackTargets
    <3>3. Begin(Reaper, m) /\ ~WaitMarkerLive(task)
      BY <2>2, <3>1 DEF StaleUnleased
    <3> HIDE DEF m
    <3>4. QED
      BY <2>1, <2>2, <3>2, <3>3, SelectStep
  <2>3. CASE NextPhase /\ UNCHANGED <<op, current>>
    <3> DEFINE m == Call("read", "expired", "todo", 1)
    <3>1. /\ m \in Calls /\ ByReaper(m) /\ m.pc = "read" /\ m.target \in Statuses
          /\ m.kind = "expired"
      BY ConstantsAssumption DEF Call, Calls, Kinds, ByReaper
    <3> HIDE DEF m
    <3>2. QED
      BY <2>1, <2>3, <3>1, SelectStep
  <2>4. QED
    BY <1>3, <2>2, <2>3 DEF SweepUnleasedInProgress
<1>4. QED
  BY <1>1, <1>2, <1>3 DEF Sweep

\* The writers that touch neither status nor lease, and the clock.
LEMMA OtherWriterStep ==
    ASSUME IInv,
           \/ \E isMarker \in Markers : AddComment(isMarker)
           \/ AttachEvidence
           \/ \E author \in GateAuthors : ArmHumanGate(author)
           \/ ClearHumanGate
           \/ \E shipped \in Shipments : ShipTask(shipped)
    PROVE  IInv'
<1>1. ASSUME NEW isMarker \in Markers, AddComment(isMarker)
      PROVE  IInv'
  <2> DEFINE n == IF isMarker THEN now ELSE None
             t == [task EXCEPT !.touched = now, !.marker = n]
  <2>1. Write(t) /\ UNCHANGED <<now, op, phase, promise, stageBy>>
    BY <1>1 DEF AddComment
  <2>2. n \in Nat \cup {None}
    BY DEF IInv, TypeOK
  <2> HIDE DEF n
  <2>3. KeepsLease(t)
    BY ZenonT(40), <2>2 DEF KeepsLease, IInv, TypeOK, TaskRow
  <2> HIDE DEF t
  <2>4. QED
    BY <2>1, <2>3, KeepLease
<1>2. ASSUME AttachEvidence
      PROVE  IInv'
  <2> DEFINE t == [task EXCEPT !.touched = now]
  <2>1. Write(t) /\ UNCHANGED <<now, op, phase, promise, stageBy>>
    BY <1>2 DEF AttachEvidence
  <2>2. KeepsLease(t)
    BY ConstantsAssumption DEF KeepsLease, IInv, TypeOK, TaskRow, Agents
  <2> HIDE DEF t
  <2>3. QED
    BY <2>1, <2>2, KeepLease
<1>3. ASSUME NEW author \in GateAuthors, ArmHumanGate(author)
      PROVE  IInv'
  <2> DEFINE t == [task EXCEPT !.gate = author, !.touched = now]
  <2>1. Write(t) /\ UNCHANGED <<now, op, phase, promise, stageBy>>
    BY <1>3 DEF ArmHumanGate
  <2>2. KeepsLease(t)
    BY ZenonT(40), ConstantsAssumption DEF KeepsLease, IInv, TypeOK, TaskRow, Agents
  <2> HIDE DEF t
  <2>3. QED
    BY <2>1, <2>2, KeepLease
<1>4. ASSUME ClearHumanGate
      PROVE  IInv'
  <2> DEFINE t == [task EXCEPT !.gate = None, !.touched = now]
  <2>1. Write(t) /\ UNCHANGED <<now, op, phase, promise, stageBy>>
    BY <1>4 DEF ClearHumanGate
  <2>2. KeepsLease(t)
    BY ZenonT(40), ConstantsAssumption DEF KeepsLease, IInv, TypeOK, TaskRow, Agents
  <2> HIDE DEF t
  <2>3. QED
    BY <2>1, <2>2, KeepLease
<1>5. ASSUME NEW shipped \in Shipments, ShipTask(shipped)
      PROVE  IInv'
  <2> DEFINE t == [task EXCEPT !.shipped = shipped, !.touched = now]
  <2>1. Write(t) /\ UNCHANGED <<now, op, phase, promise, stageBy>>
    BY <1>5 DEF ShipTask
  <2>2. KeepsLease(t)
    BY ConstantsAssumption DEF KeepsLease, IInv, TypeOK, TaskRow, Agents
  <2> HIDE DEF t
  <2>3. QED
    BY <2>1, <2>2, KeepLease
<1>6. QED
  BY <1>1, <1>2, <1>3, <1>4, <1>5

\* Time passing only makes leases and wait markers older.
LEMMA TickStep ==
    ASSUME IInv, Tick
    PROVE  IInv'
<1>1. now \in Nat /\ now' = now + 1 /\ UNCHANGED <<task, op, current, phase, promise, stageBy>>
  BY DEF IInv, TypeOK, Tick
<1>2. TypeOK' /\ LeaseShape' /\ CallShape' /\ PromiseShape' /\ TerminalHoldsNoLease'
      /\ MarkerMeansCheckoutStage'
  BY <1>1 DEF IInv, TypeOK, LeaseShape, CallShape, PromiseShape,
              TerminalHoldsNoLease, MarkerMeansCheckoutStage
<1>3. SnapshotsHold'
  <2>1. WaitMarkerLive(task)' => WaitMarkerLive(task)
    BY <1>1, ConstantsAssumption DEF WaitMarkerLive, IInv, TypeOK, TaskRow
  <2>2. QED
    BY <1>1, <2>1 DEF IInv, SnapshotsHold
<1>4. LeaseHonored'
  <2>1. \A c \in Clients : promise[c].until > now' => promise[c].until > now
    BY <1>1 DEF IInv, TypeOK, Promise
  <2>2. QED
    BY <1>1, <2>1 DEF IInv, LeaseHonored
<1>5. QED
  BY <1>2, <1>3, <1>4 DEF IInv

\* An explicit end of the lease the row holds: release, force release, wait_for.
LEMMA VoidStep ==
    ASSUME IInv, NEW t \in TaskRow, Write(t),
           t.holder = None, t.token = None, t.expires = None,
           t.generation = task.generation,
           promise' = Voided(task.generation),
           op' \in [Procs -> Calls], CallShape', phase' \in 1 .. 3, UNCHANGED now,
           stageBy' \in {"checkout", "other"},
           (t.stage = t.status) => (t.stage = None \/ stageBy' = "checkout")
    PROVE  IInv'
<1>1. promise \in [Clients -> Promise] /\ task.generation \in Nat
  BY DEF IInv, TypeOK, TaskRow
<1>2. /\ promise' \in [Clients -> Promise]
      /\ \A c \in Clients : /\ promise'[c].generation = promise[c].generation
                            /\ promise'[c].session = promise[c].session
  BY <1>1, VoidedPromise
<1>3. \A c \in Clients : promise'[c].session = c => promise'[c].until <= now
  BY <1>2, VoidedOwesNothing
<1>4. QED
  BY <1>2, <1>3, EndLease

\* The row a release leaves behind.
LEMMA ReleaseRow ==
    ASSUME IInv, NEW n \in Nat \cup {None}
    PROVE  /\ [Released(task) EXCEPT !.touched = now] \in TaskRow
           /\ [Released(task) EXCEPT !.touched = now, !.marker = n] \in TaskRow
           /\ [Released(task) EXCEPT !.status = "todo", !.touched = now, !.marker = n]
                \in TaskRow
BY ZenonT(40), ReleasedRow, ConstantsAssumption DEF IInv, TypeOK, TaskRow

\* The calls that end a lease by name keep the invariant.
LEMMA ReleaseStep ==
    ASSUME IInv,
           \/ \E c \in Clients : ReleaseCheckout(c) \/ WaitFor(c) \/ HandOff(c)
           \/ \E a \in Agents, s \in Clients \cup {None}, g \in 1 .. MaxGeneration :
                ForceReleaseCheckout(a, s, g)
    PROVE  IInv'
<1> DEFINE r == [Released(task) EXCEPT !.touched = now]
           w == [Released(task) EXCEPT !.touched = now, !.marker = None]
           h == [Released(task) EXCEPT !.status = "todo", !.touched = now, !.marker = None]
<1>1. /\ r \in TaskRow /\ r.holder = None /\ r.token = None /\ r.expires = None
      /\ r.generation = task.generation /\ r.status = task.status
      /\ r.stage = task.stage
  BY ReleaseRow, ReleasedRow DEF IInv, TypeOK, TaskRow
<1>2. /\ w \in TaskRow /\ w.holder = None /\ w.token = None /\ w.expires = None
      /\ w.generation = task.generation /\ w.status = task.status
      /\ w.stage = task.stage
  BY ZenonT(40), ReleaseRow, ReleasedRow DEF IInv, TypeOK, TaskRow
<1>3. /\ h \in TaskRow /\ h.holder = None /\ h.token = None /\ h.expires = None
      /\ h.generation = task.generation /\ h.status = "todo"
      /\ h.stage = task.stage
  BY ZenonT(40), ReleaseRow, ReleasedRow DEF IInv, TypeOK, TaskRow
<1>4. /\ op \in [Procs -> Calls] /\ phase \in 1 .. 3 /\ stageBy \in {"checkout", "other"}
      /\ task.stage = task.status => (task.stage = None \/ stageBy = "checkout")
      /\ task.stage = "todo" => task.status = "todo" /\ stageBy = "checkout"
  BY ConstantsAssumption DEF IInv, TypeOK, MarkerMeansCheckoutStage
<1>5. UNCHANGED op => CallShape'
  BY DEF IInv, CallShape
<1>6. ASSUME NEW c \in Clients, ReleaseCheckout(c)
      PROVE  IInv'
  <2>1. Write(r) /\ UNCHANGED <<now, op, phase, stageBy>>
    BY <1>6 DEF ReleaseCheckout
  <2>2. promise[c].generation = task.generation
    BY <1>6 DEF ReleaseCheckout, IInv, LeaseShape
  <2>3. promise' = Voided(task.generation)
    BY <1>6, <2>2 DEF ReleaseCheckout
  <2> HIDE DEF r
  <2>4. QED
    BY <1>1, <1>4, <1>5, <2>1, <2>3, VoidStep
<1>7. ASSUME NEW c \in Clients, WaitFor(c)
      PROVE  IInv'
  <2>1. /\ Write(w) /\ UNCHANGED <<now, op, phase, stageBy>>
        /\ promise' = Voided(task.generation)
    BY <1>7 DEF WaitFor
  <2> HIDE DEF w
  <2>2. QED
    BY <1>2, <1>4, <1>5, <2>1, VoidStep
<1>8. ASSUME NEW c \in Clients, HandOff(c)
      PROVE  IInv'
  <2>1. /\ Write(h) /\ UNCHANGED <<now, op, phase>>
        /\ promise' = Voided(task.generation)
        /\ stageBy' = IF task.status = "todo" THEN stageBy ELSE "other"
    BY <1>8 DEF HandOff
  <2> HIDE DEF h
  <2>2. stageBy' \in {"checkout", "other"}
    BY <1>4, <2>1
  <2>3. (h.stage = h.status) => (h.stage = None \/ stageBy' = "checkout")
    BY <1>3, <1>4, <2>1
  <2>4. QED
    BY <1>3, <1>4, <1>5, <2>1, <2>2, <2>3, VoidStep
<1>9. ASSUME NEW a \in Agents, NEW s \in Clients \cup {None},
             NEW g \in 1 .. MaxGeneration, ForceReleaseCheckout(a, s, g)
      PROVE  IInv'
  <2>1. /\ Write(r) /\ UNCHANGED <<now, op, phase, stageBy>>
        /\ promise' = Voided(task.generation)
    BY <1>9 DEF ForceReleaseCheckout
  <2> HIDE DEF r
  <2>2. QED
    BY <1>1, <1>4, <1>5, <2>1, VoidStep
<1>10. QED
  BY <1>6, <1>7, <1>8, <1>9

\* The legacy release ends only a lease that carries no session.
LEMMA SelfReleaseStep ==
    ASSUME IInv, NEW c \in Clients, SelfReleaseCheckout(c)
    PROVE  IInv'
<1> DEFINE r == [Released(task) EXCEPT !.touched = now]
<1>1. /\ r \in TaskRow /\ r.holder = None /\ r.token = None /\ r.expires = None
      /\ r.generation = task.generation /\ r.status = task.status
      /\ r.stage = task.stage
  BY ReleaseRow, ReleasedRow DEF IInv, TypeOK, TaskRow
<1>2. Write(r) /\ UNCHANGED <<now, op, phase, promise, stageBy>> /\ task.session = None
  BY DEF SelfReleaseCheckout
<1> HIDE DEF r
<1>3. \A d \in Clients : promise'[d].session = d => promise'[d].until <= now
  BY <1>2, NothingOwed
<1>4. (r.stage = r.status) => (r.stage = None \/ stageBy' = "checkout")
  BY <1>1, <1>2 DEF IInv, MarkerMeansCheckoutStage
<1>5. CallShape' /\ op' \in [Procs -> Calls]
  BY <1>2 DEF IInv, CallShape, TypeOK
<1>6. QED
  BY <1>1, <1>2, <1>3, <1>4, <1>5, EndLease DEF IInv, TypeOK

\* A write that only moves the deadline of a held row.
LEMMA DeadlineStep ==
    ASSUME IInv, task.holder # None, NEW e \in Nat, NEW n \in Nat \cup {None},
           Write([task EXCEPT !.expires = e, !.touched = now, !.marker = n]),
           UNCHANGED <<now, op, phase, stageBy>>,
           promise' \in [Clients -> Promise],
           \A c \in Clients :
             /\ promise'[c].generation = promise[c].generation
             /\ promise'[c].session = promise[c].session
             /\ (promise'[c].session = c /\ promise'[c].until > now) =>
                   /\ task.holder = AgentOf[c] /\ task.session = c
                   /\ task.generation = promise[c].generation
                   /\ e >= promise'[c].until
    PROVE  IInv'
<1> DEFINE t == [task EXCEPT !.expires = e, !.touched = now, !.marker = n]
<1>1. /\ t \in TaskRow /\ t.status = task.status /\ t.stage = task.stage
      /\ t.holder = task.holder /\ t.token = task.token /\ t.expires = e
      /\ t.session = task.session /\ t.generation = task.generation
  BY DEF IInv, TypeOK, TaskRow
<1>2. Write(t)
  OBVIOUS
<1> HIDE DEF t
<1>3. /\ op' \in [Procs -> Calls] /\ CallShape' /\ phase' \in 1 .. 3
      /\ stageBy' \in {"checkout", "other"}
  BY DEF IInv, TypeOK, CallShape
<1>4. e # None
  BY ConstantsAssumption
<1>5. /\ (t.stage = t.status) => (t.stage = None \/ stageBy' = "checkout")
      /\ t.status \in Terminal => t.holder = None
      /\ t.token = t.generation /\ t.generation > 0
      /\ t.session # None => t.holder = AgentOf[t.session]
  BY <1>1 DEF IInv, MarkerMeansCheckoutStage, TerminalHoldsNoLease, LeaseShape
<1>6. \A c \in Clients :
        /\ promise'[c].session \in {c, None}
        /\ promise'[c].generation <= t.generation
        /\ (t.holder # None /\ promise'[c].generation = t.generation) =>
              promise'[c].session = t.session
  BY <1>1 DEF IInv, PromiseShape
<1>7. QED
  BY <1>1, <1>2, <1>3, <1>4, <1>5, <1>6, LeaseWrite

\* An extension reaches only the lease its caller was told of.
LEMMA ExtendStep ==
    ASSUME IInv, NEW c \in Clients, NEW ttl \in TTLs, ExtendCheckout(c, ttl)
    PROVE  IInv'
<1>1. /\ task \in TaskRow /\ now \in Nat /\ ttl \in Nat /\ promise \in [Clients -> Promise]
      /\ now + ttl \in Nat /\ task.marker \in Nat \cup {None} /\ task.holder # None
  BY ConstantsAssumption DEF IInv, TypeOK, TaskRow, ExtendCheckout, Live
<1>2. /\ Write([task EXCEPT !.expires = now + ttl, !.touched = now])
      /\ promise' = [promise EXCEPT ![c].until = now + ttl]
      /\ UNCHANGED <<now, op, phase, stageBy>>
  BY DEF ExtendCheckout
<1>3. promise[c].generation = task.generation
  BY <1>1 DEF ExtendCheckout, IInv, LeaseShape
<1>4. [task EXCEPT !.expires = now + ttl, !.touched = now] =
        [task EXCEPT !.expires = now + ttl, !.touched = now, !.marker = task.marker]
  BY <1>1 DEF TaskRow
<1>5. /\ promise' \in [Clients -> Promise]
      /\ promise'[c].until = now + ttl
      /\ \A d \in Clients : /\ promise'[d].generation = promise[d].generation
                            /\ promise'[d].session = promise[d].session
                            /\ d # c => promise'[d].until = promise[d].until
  BY <1>1, <1>2 DEF Promise
<1>6. ASSUME NEW d \in Clients, promise'[d].session = d, promise'[d].until > now
      PROVE  /\ task.holder = AgentOf[d] /\ task.session = d
             /\ task.generation = promise[d].generation
             /\ now + ttl >= promise'[d].until
  <2>1. promise[c].session = task.session /\ promise[c].session \in {c, None}
    BY <1>1, <1>3 DEF IInv, PromiseShape
  <2>2. CASE d = c
    BY <1>1, <1>3, <1>5, <1>6, <2>1, <2>2, ConstantsAssumption DEF IInv, LeaseShape
  <2>3. CASE d # c
    BY <1>5, <1>6, <2>1, <2>3, ConstantsAssumption DEF IInv, LeaseHonored
  <2>4. QED
    BY <2>2, <2>3
<1>7. QED
  BY <1>1, <1>2, <1>4, <1>5, <1>6, DeadlineStep

\* A heartbeat moves only the deadline of an unscoped lease.
LEMMA HeartbeatStep ==
    ASSUME IInv, NEW a \in Agents, ExtendCheckoutsOnHeartbeat(a)
    PROVE  IInv'
<1>1. /\ task \in TaskRow /\ now \in Nat /\ promise \in [Clients -> Promise]
      /\ now + HeartbeatTTL \in Nat /\ task.marker \in Nat \cup {None}
  BY ConstantsAssumption DEF IInv, TypeOK, TaskRow
<1>2. /\ Write([task EXCEPT !.expires = now + HeartbeatTTL, !.touched = now])
      /\ UNCHANGED <<now, op, phase, promise, stageBy>>
      /\ task.holder # None /\ task.session = None
  BY ConstantsAssumption DEF ExtendCheckoutsOnHeartbeat, Agents
<1>3. [task EXCEPT !.expires = now + HeartbeatTTL, !.touched = now] =
        [task EXCEPT !.expires = now + HeartbeatTTL, !.touched = now,
                     !.marker = task.marker]
  BY <1>1 DEF TaskRow
<1>4. \A d \in Clients : promise[d].session = d => ~(promise[d].until > now)
  BY <1>1, <1>2, NothingOwed DEF Promise
<1>5. QED
  BY <1>1, <1>2, <1>3, <1>4, DeadlineStep

\* continue_next never brings the deadline nearer.
LEMMA ContinueStep ==
    ASSUME IInv, NEW c \in Clients, ContinueNext(c)
    PROVE  IInv'
<1> DEFINE e == IF now + NextTTL > task.expires THEN now + NextTTL ELSE task.expires
<1>1. /\ task.holder # None /\ task.expires \in Nat /\ now \in Nat
      /\ promise \in [Clients -> Promise]
  BY HeldRow DEF ContinueNext, Live, IInv, TypeOK
<1>2. /\ e \in Nat /\ e >= task.expires
  BY <1>1, ConstantsAssumption
<1>3. /\ Write([task EXCEPT !.expires = e, !.touched = now, !.marker = None])
      /\ UNCHANGED <<now, op, phase, promise, stageBy>>
  BY DEF ContinueNext
<1> HIDE DEF e
<1>4. ASSUME NEW d \in Clients, promise'[d].session = d, promise'[d].until > now
      PROVE  /\ task.holder = AgentOf[d] /\ task.session = d
             /\ task.generation = promise[d].generation
             /\ e >= promise'[d].until
  <2>1. /\ task.holder = AgentOf[d] /\ task.session = d
        /\ task.generation = promise[d].generation
        /\ task.expires >= promise[d].until /\ promise[d].until \in Nat
    BY <1>1, <1>3, <1>4 DEF IInv, LeaseHonored, Promise
  <2>2. QED
    BY <1>1, <1>2, <1>3, <2>1
<1>5. QED
  BY <1>1, <1>2, <1>3, <1>4, DeadlineStep

\* A grant goes to a fresh generation, or answers a retry of the lease it holds.
LEMMA AcquireStep ==
    ASSUME IInv, NEW c \in Clients, NEW scope \in Scopes, NEW ttl \in TTLs,
           AcquireCheckout(c, scope, ttl)
    PROVE  IInv'
<1>1. /\ c \in Procs /\ c # Reaper /\ c # User /\ c # None
      /\ AgentOf[c] \in Agents /\ AgentOf[c] # None
  BY ConstantsAssumption DEF Procs, Agents
<1>2. /\ op \in [Procs -> Calls] /\ task \in TaskRow /\ now \in Nat
      /\ ttl \in Nat \ {0} /\ promise \in [Clients -> Promise] /\ op[c] \in Calls
  BY <1>1, ConstantsAssumption DEF IInv, TypeOK
<1>3. /\ scope.session \in {c, None} /\ UNCHANGED <<now, phase, stageBy>>
      /\ scope.request \in Requests \cup {None}
  BY DEF AcquireCheckout, Scopes
<1>4. CASE Acquires(c, scope)
  <2> DEFINE t == LeaseTo(c, scope, ttl)
             m == IF op[c].target = None THEN Idle
                  ELSE Call("read", "checkout", op[c].target, CASAttempts)
  <2>1. /\ Write(t) /\ op' = [op EXCEPT ![c] = m]
        /\ promise' = [promise EXCEPT ![c] =
             [generation |-> t.generation, session |-> t.session, until |-> t.expires]]
    BY <1>4 DEF AcquireCheckout, Begin
  <2>2. /\ m \in Calls /\ ~ByReaper(m) /\ m.pc \notin {"write", "explain"}
        /\ m.pc \in {"read", "write"} => m.target \in Statuses
    <3>1. CASE op[c].target = None
      BY <3>1, IdleCall
    <3>2. CASE op[c].target # None
      <4>1. m = Call("read", "checkout", op[c].target, CASAttempts)
        BY <3>2
      <4>2. op[c].target \in Statuses
        BY <1>2, <3>2 DEF Calls
      <4> HIDE DEF m
      <4>3. QED
        BY <4>1, <4>2, ConstantsAssumption DEF Call, Calls, Kinds, ByReaper
    <3>3. QED
      BY <3>1, <3>2
  <2> HIDE DEF m
  <2>3. op' \in [Procs -> Calls] /\ CallShape'
    BY <1>1, <2>1, <2>2, SetCall
  <2>4. task.status \notin Terminal
    BY <1>4 DEF Acquires
  <2>5. CASE IsRetry(c, scope)
    <3>1. task.holder = AgentOf[c] /\ task.session \in {c, None} /\ task.expires \in Nat
      BY <1>1, <1>3, <2>5, HeldRow DEF IsRetry
    <3>2. /\ t \in TaskRow /\ t.status = task.status /\ t.stage = task.stage
          /\ t.holder = AgentOf[c] /\ t.token = task.token /\ t.expires \in Nat
          /\ t.session = task.session /\ t.generation = task.generation
      <4>1. CASE scope.request # None
        BY ZenonT(40), <1>2, <2>5, <3>1, <4>1 DEF LeaseTo, TaskRow
      <4>2. CASE scope.request = None
        <5>1. t = [task EXCEPT !.expires = now + ttl, !.touched = now]
          BY <2>5, <4>2 DEF LeaseTo
        <5>2. now + ttl \in Nat
          BY <1>2
        <5>3. QED
          BY <1>2, <3>1, <5>1, <5>2 DEF TaskRow
      <4>3. QED
        BY <4>1, <4>2
    <3> HIDE DEF t
    <3>3. /\ promise' \in [Clients -> Promise]
          /\ promise'[c].generation = task.generation
          /\ promise'[c].session = task.session
          /\ promise'[c].until = t.expires
          /\ \A d \in Clients \ {c} : promise'[d] = promise[d]
      BY <1>2, <2>1, <3>2 DEF Promise, TaskRow
    <3>4. t.expires # None /\ t.token = t.generation /\ t.generation > 0
      BY <1>1, <3>1, <3>2, ConstantsAssumption DEF IInv, LeaseShape
    <3>5. t.session # None => t.holder = AgentOf[t.session]
      BY <3>1, <3>2
    <3>6. (t.stage = t.status) => (t.stage = None \/ stageBy' = "checkout")
      BY <1>3, <3>2 DEF IInv, MarkerMeansCheckoutStage
    <3>7. ASSUME NEW d \in Clients
          PROVE  /\ promise'[d].session \in {d, None}
                 /\ promise'[d].generation <= t.generation
                 /\ (t.holder # None /\ promise'[d].generation = t.generation) =>
                       promise'[d].session = t.session
                 /\ (promise'[d].session = d /\ promise'[d].until > now) =>
                       /\ t.holder = AgentOf[d] /\ t.session = d
                       /\ t.generation = promise'[d].generation
                       /\ t.expires >= promise'[d].until
      <4>1. CASE d = c
        BY <1>2, <3>1, <3>2, <3>3, <4>1 DEF TaskRow
      <4>2. CASE d # c
        <5>1. promise'[d] = promise[d]
          BY <3>3, <4>2
        <5>2. ~(promise[d].session = d /\ promise[d].until > now)
          BY <3>1, <4>2, ConstantsAssumption DEF IInv, LeaseHonored
        <5>3. QED
          BY <1>1, <3>1, <3>2, <5>1, <5>2 DEF IInv, PromiseShape
      <4>3. QED
        BY <4>1, <4>2
    <3>8. QED
      BY <1>1, <1>3, <2>1, <2>3, <2>4, <3>2, <3>3, <3>4, <3>5, <3>6, <3>7, LeaseWrite
         DEF IInv, TypeOK
  <2>6. CASE ~IsRetry(c, scope)
    <3>1. Lapsed(task)
      BY <1>4, <2>6 DEF Acquires
    <3>2. /\ t \in TaskRow /\ t.status = task.status /\ t.stage = task.stage
          /\ t.holder = AgentOf[c] /\ t.token = task.generation + 1
          /\ t.expires = now + ttl /\ t.session = scope.session
          /\ t.generation = task.generation + 1
      <4>1. t = [task EXCEPT !.holder = AgentOf[c], !.token = task.generation + 1,
                             !.expires = now + ttl, !.session = scope.session,
                             !.request = scope.request,
                             !.generation = task.generation + 1, !.touched = now]
        BY <2>6 DEF LeaseTo
      <4>2. now + ttl \in Nat /\ task.generation + 1 \in Nat
        BY <1>2 DEF TaskRow
      <4>3. scope.session \in Clients \cup {None}
        BY <1>3
      <4> HIDE DEF t
      <4>4. PICK h \in Agents, n \in Nat, e \in Nat, q \in Requests \cup {None},
                 ss \in Clients \cup {None} :
              /\ h = AgentOf[c] /\ n = task.generation + 1 /\ e = now + ttl
              /\ q = scope.request /\ ss = scope.session
        BY <1>1, <1>3, <4>2, <4>3
      <4>5. t = [task EXCEPT !.holder = h, !.token = n, !.expires = e, !.session = ss,
                             !.request = q, !.generation = n, !.touched = now]
        BY <4>1, <4>4
      <4>6. /\ t \in TaskRow /\ t.status = task.status /\ t.stage = task.stage
            /\ t.holder = h /\ t.token = n /\ t.expires = e /\ t.session = ss
            /\ t.generation = n
        BY <1>2, <4>5 DEF TaskRow
      <4>7. QED
        BY <4>4, <4>6
    <3> HIDE DEF t
    <3>3. /\ promise' \in [Clients -> Promise]
          /\ promise'[c].generation = t.generation
          /\ promise'[c].session = t.session
          /\ promise'[c].until = t.expires
          /\ \A d \in Clients \ {c} : promise'[d] = promise[d]
      BY <1>2, <1>3, <2>1, <3>2 DEF Promise, TaskRow
    <3>4. /\ t.expires # None /\ t.expires \in Nat /\ t.token = t.generation
          /\ t.generation > 0 /\ t.generation \in Nat /\ task.generation \in Nat
      BY <1>2, <3>2, ConstantsAssumption DEF TaskRow
    <3>5. t.session # None => t.holder = AgentOf[t.session]
      BY <1>3, <3>2
    <3>6. (t.stage = t.status) => (t.stage = None \/ stageBy' = "checkout")
      BY <1>3, <3>2 DEF IInv, MarkerMeansCheckoutStage
    <3>7. ASSUME NEW d \in Clients
          PROVE  /\ promise'[d].session \in {d, None}
                 /\ promise'[d].generation <= t.generation
                 /\ (t.holder # None /\ promise'[d].generation = t.generation) =>
                       promise'[d].session = t.session
                 /\ (promise'[d].session = d /\ promise'[d].until > now) =>
                       /\ t.holder = AgentOf[d] /\ t.session = d
                       /\ t.generation = promise'[d].generation
                       /\ t.expires >= promise'[d].until
      <4>1. CASE d = c
        BY <1>3, <3>2, <3>3, <3>4, <4>1
      <4>2. CASE d # c
        <5>1. promise'[d] = promise[d] /\ promise[d].until \in Nat
              /\ promise[d].generation \in Nat
          BY <1>2, <3>3, <4>2 DEF Promise
        <5>2. ~(promise[d].session = d /\ promise[d].until > now)
          BY <1>2, <3>1, <5>1, NothingOwed
        <5>3. promise[d].session \in {d, None} /\ promise[d].generation <= task.generation
          BY DEF IInv, PromiseShape
        <5>4. promise[d].generation < t.generation
          BY <3>2, <3>4, <5>1, <5>3
        <5>5. QED
          BY <3>4, <5>1, <5>2, <5>3, <5>4
      <4>3. QED
        BY <4>1, <4>2
    <3>8. QED
      BY <1>1, <1>3, <2>1, <2>3, <2>4, <3>2, <3>3, <3>4, <3>5, <3>6, <3>7, LeaseWrite
         DEF IInv, TypeOK
  <2>7. QED
    BY <2>5, <2>6
<1>5. CASE ~Acquires(c, scope)
  <2>1. op' = [op EXCEPT ![c] = Idle] /\ UNCHANGED <<task, current, promise>>
    BY <1>5 DEF AcquireCheckout, Begin
  <2>2. /\ op' \in [Procs -> Calls] /\ CallShape' /\ op'[c] = Idle
        /\ \A q \in Procs \ {c} : op'[q] = op[q]
    BY <1>1, <2>1, IdleCall, SetCall
  <2>3. SnapshotsHold'
    BY <1>3, <2>1, <2>2, IdleCall DEF IInv, TypeOK, SnapshotsHold, WaitMarkerLive
  <2>4. QED
    BY <1>3, <2>1, <2>2, <2>3, NoWrite DEF IInv, TypeOK
<1>6. QED
  BY <1>4, <1>5

\* The row a move leaves: its status is the target, the lease is either ended or
\* kept as it was, and a move into a closing status ends it.
LEMMA MovedRow ==
    ASSUME IInv, NEW p \in Procs, op[p].pc = "write"
    PROVE  /\ Moved(p) \in TaskRow /\ Moved(p).status = op[p].target
           /\ Moved(p).generation = task.generation
           /\ Moved(p).gate = task.gate
           /\ Moved(p).stage = IF op[p].kind = "checkout" /\ op[p].target # task.status
                               THEN op[p].target ELSE task.stage
           /\ (op[p].kind = "expired" \/ ReleasesLease(p)) =>
                /\ Moved(p).holder = None /\ Moved(p).token = None
                /\ Moved(p).expires = None
           /\ ~(op[p].kind = "expired" \/ ReleasesLease(p)) =>
                /\ Moved(p).holder = task.holder /\ Moved(p).token = task.token
                /\ Moved(p).expires = task.expires /\ Moved(p).session = task.session
<1> DEFINE s == IF op[p].kind = "checkout" /\ op[p].target # task.status
                THEN op[p].target ELSE task.stage
           n == IF op[p].kind = "finish" THEN None ELSE task.marker
           t == [task EXCEPT !.status = op[p].target, !.touched = now,
                             !.stage = s, !.marker = n]
<1>1. /\ op[p].target \in Statuses /\ task \in TaskRow /\ now \in Nat
  BY DEF IInv, CallShape, TypeOK
<1>2. s \in Statuses \cup {None} /\ n \in Nat \cup {None}
  BY <1>1 DEF TaskRow
<1>3. Moved(p) = IF op[p].kind = "expired"
                 THEN [Released(t) EXCEPT !.session = None, !.request = None]
                 ELSE IF ReleasesLease(p) THEN Released(t) ELSE t
  BY DEF Moved
<1> HIDE DEF s, n
<1>4. /\ t \in TaskRow /\ t.status = op[p].target /\ t.generation = task.generation
      /\ t.stage = s /\ t.holder = task.holder /\ t.token = task.token
      /\ t.gate = task.gate
      /\ t.expires = task.expires /\ t.session = task.session
  <2>1. ASSUME NEW st \in Statuses
        PROVE  LET u == [task EXCEPT !.status = st, !.touched = now,
                                     !.stage = s, !.marker = n]
               IN  /\ u \in TaskRow /\ u.status = st /\ u.generation = task.generation
                   /\ u.stage = s /\ u.holder = task.holder /\ u.token = task.token
                   /\ u.gate = task.gate
                   /\ u.expires = task.expires /\ u.session = task.session
    BY ZenonT(40), <1>1, <1>2 DEF TaskRow
  <2>2. QED
    BY <1>1, <2>1
<1> HIDE DEF t
<1>5. /\ Released(t) \in TaskRow /\ Released(t).holder = None
      /\ Released(t).token = None /\ Released(t).expires = None
      /\ Released(t).status = op[p].target /\ Released(t).stage = s
      /\ Released(t).gate = task.gate
      /\ Released(t).generation = task.generation
  BY <1>4, ReleasedRow
<1>6. CASE op[p].kind = "expired"
  <2>1. Moved(p) = [Released(t) EXCEPT !.session = None, !.request = None]
    BY <1>3, <1>6
  <2>2. QED
    BY <1>5, <1>6, <2>1 DEF TaskRow, s
<1>7. CASE op[p].kind # "expired" /\ ReleasesLease(p)
  BY <1>3, <1>5, <1>7 DEF s
<1>8. CASE op[p].kind # "expired" /\ ~ReleasesLease(p)
  BY <1>3, <1>4, <1>8 DEF s
<1>9. QED
  BY <1>6, <1>7, <1>8

\* The stage column after a move is the marker of a checkout's own move only.
LEMMA MovedStage ==
    ASSUME IInv, NEW p \in Procs, op[p].pc = "write",
           stageBy' = CASE op[p].target = task.status -> stageBy
                        [] op[p].kind = "checkout" -> "checkout"
                        [] OTHER -> "other"
    PROVE  /\ stageBy' \in {"checkout", "other"}
           /\ (Moved(p).stage = Moved(p).status) =>
                (Moved(p).stage = None \/ stageBy' = "checkout")
<1>1. /\ stageBy \in {"checkout", "other"}
      /\ task.stage # None => task.stage = task.status /\ stageBy = "checkout"
  BY DEF IInv, TypeOK, MarkerMeansCheckoutStage
<1>2. CASE op[p].target = task.status
  BY <1>1, <1>2, MovedRow
<1>3. CASE op[p].target # task.status /\ op[p].kind = "checkout"
  BY <1>1, <1>3, MovedRow
<1>4. CASE op[p].target # task.status /\ op[p].kind # "checkout"
  BY <1>1, <1>4, MovedRow
<1>5. QED
  BY <1>2, <1>3, <1>4

\* A call that ends, or goes on to its system comment, stays well shaped.
LEMMA AnswerCall ==
    ASSUME IInv, NEW p \in Procs, op[p].pc = "write", Answer(p)
    PROVE  op' \in [Procs -> Calls] /\ CallShape' /\ phase' \in 1 .. 3
<1>1. CASE Return(p)
  BY <1>1, IdleCall, SetCall, PhaseRound DEF Return, IInv, TypeOK
<1>2. CASE Begin(p, [op[p] EXCEPT !.pc = "note"]) /\ UNCHANGED phase
  <2> DEFINE m == [op[p] EXCEPT !.pc = "note"]
  <2>1. op[p] \in Calls /\ op[p] # Idle
    BY IdleCall DEF IInv, TypeOK
  <2>2. m \in Calls /\ m.pc = "note" /\ m.kind = op[p].kind
    BY <2>1 DEF Calls
  <2>3. /\ p = Reaper => ByReaper(op[p])
        /\ p = User => op[p].kind = "move"
        /\ p \in Clients => ~ByReaper(op[p])
    BY <2>1 DEF IInv, CallShape
  <2>4. op' = [op EXCEPT ![p] = m]
    BY <1>2 DEF Begin
  <2> HIDE DEF m
  <2>5. ByReaper(m) = ByReaper(op[p])
    BY <2>2 DEF ByReaper
  <2>6. op' \in [Procs -> Calls] /\ CallShape'
    BY <2>2, <2>3, <2>4, <2>5, SetCall
  <2> QED BY <1>2, <2>6 DEF IInv, TypeOK
<1> QED BY <1>1, <1>2 DEF Answer

\* A move's write, admitted or refused by its guard.
LEMMA MoveWriteStep ==
    ASSUME IInv, NEW p \in Procs, MoveWrite(p)
    PROVE  IInv'
<1>1. /\ op[p].pc = "write" /\ UNCHANGED now /\ op[p] \in Calls
      /\ op[p].target \in Statuses
  BY DEF MoveWrite, IInv, TypeOK, CallShape
<1>2. CASE WriteAdmitted(p)
  <2>1. /\ Write(Moved(p)) /\ Answer(p)
        /\ promise' = IF ReleasesLease(p) THEN Voided(task.generation) ELSE promise
        /\ stageBy' = CASE op[p].target = task.status -> stageBy
                        [] op[p].kind = "checkout" -> "checkout"
                        [] OTHER -> "other"
    BY <1>2 DEF MoveWrite
  <2>2. op' \in [Procs -> Calls] /\ CallShape' /\ phase' \in 1 .. 3
    BY <1>1, <2>1, AnswerCall
  <2>3. /\ stageBy' \in {"checkout", "other"}
        /\ (Moved(p).stage = Moved(p).status) =>
             (Moved(p).stage = None \/ stageBy' = "checkout")
    BY <1>1, <2>1, MovedStage
  <2>4. /\ Moved(p) \in TaskRow /\ Moved(p).generation = task.generation
        /\ Moved(p).status = op[p].target
    BY <1>1, MovedRow
  <2>5. CASE ReleasesLease(p)
    <3>1. /\ Moved(p).holder = None /\ Moved(p).token = None
          /\ Moved(p).expires = None /\ promise' = Voided(task.generation)
      BY <1>1, <2>1, <2>5, MovedRow
    <3>2. QED
      BY <1>1, <2>1, <2>2, <2>3, <2>4, <3>1, VoidStep
  <2>6. CASE ~ReleasesLease(p) /\ op[p].kind = "expired"
    <3>1. /\ Moved(p).holder = None /\ Moved(p).token = None
          /\ Moved(p).expires = None /\ promise' = promise
      BY <1>1, <2>1, <2>6, MovedRow
    <3>2. Expired(task)
      BY <1>2, <2>6 DEF WriteAdmitted, ByReaper, ReaperGuard
    <3>3. \A c \in Clients : promise'[c].session = c => promise'[c].until <= now
      BY <3>1, <3>2, ExpiredRow, NothingOwed
    <3>4. QED
      BY <1>1, <2>1, <2>2, <2>3, <2>4, <3>1, <3>3, EndLease DEF IInv, TypeOK
  <2>7. CASE ~ReleasesLease(p) /\ op[p].kind # "expired"
    <3>1. /\ Moved(p).holder = task.holder /\ Moved(p).token = task.token
          /\ Moved(p).expires = task.expires /\ Moved(p).session = task.session
          /\ promise' = promise
      BY <1>1, <2>1, <2>7, MovedRow
    <3>2. Moved(p).status \in Terminal => Moved(p).holder = None
      BY <2>4, <2>7, <3>1 DEF ReleasesLease, IInv, TerminalHoldsNoLease
    <3>3. /\ Moved(p).holder = None <=> Moved(p).expires = None
          /\ Moved(p).holder # None =>
               Moved(p).token = Moved(p).generation /\ Moved(p).generation > 0
          /\ Moved(p).holder = None => Moved(p).token = None
          /\ (Moved(p).holder # None /\ Moved(p).session # None) =>
               Moved(p).holder = AgentOf[Moved(p).session]
      BY <2>4, <3>1 DEF IInv, LeaseShape
    <3>4. ASSUME NEW c \in Clients
          PROVE  /\ promise'[c].session \in {c, None}
                 /\ promise'[c].generation <= Moved(p).generation
                 /\ (Moved(p).holder # None /\ promise'[c].generation = Moved(p).generation)
                      => promise'[c].session = Moved(p).session
                 /\ (promise'[c].session = c /\ promise'[c].until > now) =>
                       /\ Moved(p).holder = AgentOf[c] /\ Moved(p).session = c
                       /\ Moved(p).generation = promise'[c].generation
                       /\ Moved(p).expires >= promise'[c].until
      BY <2>4, <3>1 DEF IInv, PromiseShape, LeaseHonored
    <3>5. QED
      BY <1>1, <2>1, <2>2, <2>3, <2>4, <3>1, <3>2, <3>3, <3>4, LeaseWrite
         DEF IInv, TypeOK
  <2>8. QED
    BY <2>5, <2>6, <2>7
<1>3. CASE ~WriteAdmitted(p)
  <2>1. current' = current \ {p} /\ UNCHANGED <<task, now, promise, stageBy>>
    BY <1>1, <1>3 DEF MoveWrite
  <2>2. CASE op[p].tries > 1 /\ ~ByReaper(op[p])
    <3> DEFINE m == [op[p] EXCEPT !.pc = "read", !.tries = op[p].tries - 1]
    <3>1. op' = [op EXCEPT ![p] = m] /\ phase' = phase
      BY <1>3, <2>2 DEF MoveWrite, IInv, TypeOK, Calls
    <3>2. /\ m \in Calls /\ m.pc = "read" /\ m.kind = op[p].kind
          /\ m.target = op[p].target
      <4>1. op[p].tries - 1 \in Nat
        BY <1>1, <2>2 DEF Calls
      <4>2. QED
        BY <1>1, <4>1 DEF Calls
    <3>3. ~ByReaper(m)
      BY <2>2, <3>2 DEF ByReaper
    <3>4. /\ p # Reaper
          /\ p = User => m.kind = "move"
      BY <1>1, <2>2, <3>2, IdleCall DEF IInv, CallShape
    <3> HIDE DEF m
    <3>5. /\ op' \in [Procs -> Calls] /\ CallShape'
          /\ \A q \in Procs \ {p} : op'[q] = op[q]
      BY <1>1, <3>1, <3>2, <3>3, <3>4, SetCall
    <3>6. SnapshotsHold'
      BY <2>1, <3>5 DEF IInv, TypeOK, SnapshotsHold, WaitMarkerLive
    <3>7. QED
      BY <2>1, <3>1, <3>5, <3>6, NoWrite DEF IInv, TypeOK
  <2>3. CASE ~(op[p].tries > 1 /\ ~ByReaper(op[p]))
    <3>1. Return(p)
      BY <1>3, <2>3 DEF MoveWrite
    <3>2. QED
      BY <2>1, <3>1, ReturnStep
  <2>4. QED
    BY <2>2, <2>3
<1>4. QED
  BY <1>2, <1>3

\* The comment a hand-back leaves keeps status and lease.
LEMMA NoteStep ==
    ASSUME IInv, NEW p \in Procs, PostSystemComment(p)
    PROVE  IInv'
<1> DEFINE t == [task EXCEPT !.touched = now]
<1>1. Write(t) /\ Return(p) /\ UNCHANGED <<now, promise, stageBy>>
  BY DEF PostSystemComment
<1>2. op' \in [Procs -> Calls] /\ CallShape' /\ phase' \in 1 .. 3
  BY <1>1, IdleCall, SetCall, PhaseRound DEF Return, IInv, TypeOK
<1>3. KeepsLease(t)
  BY DEF KeepsLease, IInv, TypeOK, TaskRow
<1> HIDE DEF t
<1> QED BY <1>1, <1>2, <1>3, KeepLeaseCall

\* So does the comment a move into review leaves, written or not.
LEMMA ExplainStep ==
    ASSUME IInv, NEW p \in Procs, PostReviewerNotAssigned(p)
    PROVE  IInv'
<1> DEFINE t == [task EXCEPT !.touched = now]
           m == [op[p] EXCEPT !.pc = "write"]
<1>1. /\ op[p].pc = "explain" /\ op[p] \in Calls
      /\ UNCHANGED <<now, phase, promise, stageBy>> /\ op' = [op EXCEPT ![p] = m]
  BY DEF PostReviewerNotAssigned, Begin, IInv, TypeOK
<1>2. op[p].target = "review" /\ "review" \in Statuses /\ op[p] # Idle
  BY <1>1, IdleCall DEF IInv, CallShape
<1>3. /\ m \in Calls /\ m.pc = "write" /\ m.kind = op[p].kind /\ m.target = "review"
  BY <1>1, <1>2 DEF Calls
<1>4. ByReaper(m) <=> ByReaper(op[p])
  BY <1>3 DEF ByReaper
<1> HIDE DEF m
<1>5. /\ op' \in [Procs -> Calls] /\ CallShape' /\ op'[p] = m
      /\ \A q \in Procs \ {p} : op'[q] = op[q]
  <2>1. /\ p = Reaper => ByReaper(op[p])
        /\ p = User => op[p].kind = "move"
        /\ p \in Clients => ~ByReaper(op[p])
    BY <1>2 DEF IInv, CallShape
  <2>2. QED
    BY <1>1, <1>2, <1>3, <1>4, <2>1, SetCall
<1>6. CASE Write(t)
  <2>1. KeepsLease(t)
    BY DEF KeepsLease, IInv, TypeOK, TaskRow
  <2>2. phase' \in 1 .. 3
    BY <1>1 DEF IInv, TypeOK
  <2> HIDE DEF t
  <2>3. QED
    BY <1>1, <1>5, <1>6, <2>1, <2>2, KeepLeaseCall
<1>7. CASE UNCHANGED <<task, current>>
  <2>1. SnapshotsHold'
    <3> SUFFICES ASSUME NEW q \in current'
                 PROVE  /\ (op'[q].pc = "write" /\ op'[q].target \in Terminal
                              /\ op'[q].target # task'.status)
                             => task'.gate = None \/ q = User
                        /\ op'[q].kind = "unleased" => ~WaitMarkerLive(task)'
      BY DEF SnapshotsHold
    <3>1. q \in current /\ q \in Procs
      BY <1>7 DEF IInv, TypeOK
    <3>2. WaitMarkerLive(task)' <=> WaitMarkerLive(task)
      BY <1>1, <1>7 DEF WaitMarkerLive
    <3>3. op'[q].kind = op[q].kind
      BY <1>3, <1>5, <3>1
    <3>4. CASE q = p
      BY <1>3, <1>5, <3>1, <3>2, <3>3, <3>4 DEF IInv, SnapshotsHold, Terminal
    <3>5. CASE q # p
      BY <1>5, <1>7, <3>1, <3>2, <3>5 DEF IInv, SnapshotsHold
    <3>6. QED
      BY <3>4, <3>5
  <2>2. QED
    BY <1>1, <1>5, <1>7, <2>1, NoWrite DEF IInv, TypeOK
<1>8. QED
  BY <1>6, <1>7 DEF PostReviewerNotAssigned

-----------------------------------------------------------------------------
(* The theorems.                                                            *)

\* Every step preserves the inductive invariant.
LEMMA NextIInv == IInv /\ [Next]_vars => IInv'
<1> SUFFICES ASSUME IInv, [Next]_vars PROVE IInv'
  OBVIOUS
<1>1. ASSUME NEW c \in Clients, LeaseCall(c) PROVE IInv'
  BY <1>1, CheckoutTaskStep, AcquireStep, ReleaseStep, SelfReleaseStep, ExtendStep,
     ContinueStep, MoveReadStep DEF LeaseCall
<1>2. ASSUME NEW p \in Procs, Move(p) PROVE IInv'
  BY <1>2, MoveReadStep, ExplainStep, MoveWriteStep, NoteStep, AbandonStep DEF Move
<1>3. CASE UNCHANGED vars
  BY <1>3 DEF vars, IInv, TypeOK, LeaseShape, CallShape, SnapshotsHold, WaitMarkerLive,
       PromiseShape, LeaseHonored, TerminalHoldsNoLease, MarkerMeansCheckoutStage
<1>4. ASSUME NEW a \in Agents, ExtendCheckoutsOnHeartbeat(a) PROVE IInv'
  BY <1>4, HeartbeatStep
<1>5. ASSUME NEW p \in Procs \ {Reaper}, NEW target \in Statuses, MoveTask(p, target)
      PROVE  IInv'
  BY <1>5, MoveReadStep
<1>6. CASE Sweep
  BY <1>6, SweepStep
<1>7. CASE Tick
  BY <1>7, TickStep
<1>8. QED
  BY <1>1, <1>2, <1>3, <1>4, <1>5, <1>6, <1>7, ReleaseStep, OtherWriterStep DEF Next

\* The inductive invariant holds in every reachable state, for any number of
\* clients, agents, statuses, TTLs and calls in flight.
THEOREM InvariantHolds == Spec => []IInv
BY InitIInv, NextIInv, PTL DEF Spec

\* Columns, calls, snapshots, phase and promises keep their types.
THEOREM TypesHold == Spec => []TypeOK
<1>1. IInv => TypeOK
  BY DEF IInv
<1>2. QED
  BY <1>1, InvariantHolds, PTL

\* A session-scoped lease stands until the deadline its client was told, unless
\* that very lease is explicitly ended: the exclusive claim of task_service.go.
THEOREM LeasesHonored == Spec => []LeaseHonored
<1>1. IInv => LeaseHonored
  BY DEF IInv
<1>2. QED
  BY <1>1, InvariantHolds, PTL

\* A done or cancelled card is never checked out, whatever raced its closing.
THEOREM ClosedCardsUnheld == Spec => []TerminalHoldsNoLease
<1>1. IInv => TerminalHoldsNoLease
  BY DEF IInv
<1>2. QED
  BY <1>1, InvariantHolds, PTL

\* The reaper's guarded write finds the card dead at the moment it commits.
LEMMA ReaperStep ==
    ASSUME IInv, MoveWrite(Reaper), task' # task
    PROVE  /\ ~Live(task) /\ stageBy = "checkout"
           /\ task.gate = None /\ ~task.shipped
           /\ task.holder = None => ~WaitMarkerLive(task)
<1>1. Reaper \in Procs /\ op[Reaper].pc = "write" /\ WriteAdmitted(Reaper)
  BY DEF Procs, MoveWrite
<1>2. ByReaper(op[Reaper])
  BY <1>1, IdleCall DEF IInv, CallShape
<1>3. ReaperGuard(op[Reaper].kind) /\ Reaper \in current
  BY <1>1, <1>2 DEF WriteAdmitted
<1>4. /\ task.gate = None /\ ~task.shipped /\ OnCheckoutStage(task)
      /\ \/ op[Reaper].kind = "expired" /\ Expired(task)
         \/ op[Reaper].kind = "unleased" /\ task.holder = None
  BY <1>2, <1>3 DEF ReaperGuard, ByReaper
<1>5. stageBy = "checkout"
  BY <1>4, ConstantsAssumption
     DEF OnCheckoutStage, IInv, TypeOK, TaskRow, MarkerMeansCheckoutStage
<1>6. CASE op[Reaper].kind = "expired" /\ Expired(task)
  <2>1. task.holder # None /\ task.expires \in Nat /\ now \in Nat /\ task.expires < now
    BY <1>6, ExpiredRow DEF Expired, IInv, TypeOK
  <2>2. QED
    BY <1>4, <1>5, <2>1 DEF Live
<1>7. CASE op[Reaper].kind = "unleased" /\ task.holder = None
  <2>1. ~WaitMarkerLive(task)
    BY <1>3, <1>7 DEF IInv, SnapshotsHold
  <2>2. QED
    BY <1>4, <1>5, <1>7, <2>1 DEF Live
<1>8. QED
  BY <1>4, <1>6, <1>7

\* The reaper takes a card only when nobody is working on it, whatever was
\* committed between its selection and its write.
THEOREM ReaperSafe == Spec => ReaperTakesOnlyDeadWork
<1>1. IInv /\ [Next]_vars =>
        [(MoveWrite(Reaper) /\ task' # task) =>
           /\ ~Live(task) /\ stageBy = "checkout"
           /\ task.gate = None /\ ~task.shipped
           /\ task.holder = None => ~WaitMarkerLive(task)]_vars
  BY ReaperStep
<1>2. QED
  BY <1>1, InvariantHolds, PTL DEF Spec, ReaperTakesOnlyDeadWork

-----------------------------------------------------------------------------
(* What one step may do to the lease columns and to the status.             *)

\* Deadline e may be given to the present holder.
Renews(e) ==
    task.holder # None /\ e > now /\ (task.session # None => task.expires > now)

\* The lease stays with its holder, ends, or is granted anew over none or an
\* expired one.
Kept ==
    /\ task'.generation = task.generation /\ task'.holder = task.holder
    /\ task'.token = task.token /\ task'.session = task.session
    /\ task'.expires = task.expires \/ Renews(task'.expires)
Ended == task'.generation = task.generation /\ task'.holder = None
Granted ==
    /\ Lapsed(task)
    /\ task'.generation = task.generation + 1 /\ task'.holder # None
    /\ task'.expires > now

Fenced == Kept \/ Ended \/ Granted

StatusStands == task'.status = task.status

\* A write that leaves the generation alone and the holder as it was or ended.
LEMMA QuietWrite ==
    ASSUME IInv, NEW t \in TaskRow, Write(t), t.generation = task.generation,
           \/ t.holder = None
           \/ /\ t.holder = task.holder /\ t.token = task.token /\ t.session = task.session
              /\ t.expires = task.expires \/ Renews(t.expires)
    PROVE  Fenced /\ task'.status = t.status
<1>1. /\ task'.status = t.status /\ task'.holder = t.holder /\ task'.token = t.token
      /\ task'.session = t.session /\ task'.generation = t.generation
      /\ task'.expires = t.expires
  BY StoredRow DEF Write
<1>2. QED
  BY <1>1 DEF Fenced, Kept, Ended

\* A step that leaves the row alone is fenced.
LEMMA RowStands ==
    ASSUME IInv, task' = task
    PROVE  Fenced /\ StatusStands
BY DEF Fenced, Kept, StatusStands

\* Only a grant changes holder, token or session, and it takes a generation.
LEMMA AcquireFenced ==
    ASSUME IInv, NEW c \in Clients, NEW scope \in Scopes, NEW ttl \in TTLs,
           AcquireCheckout(c, scope, ttl)
    PROVE  Fenced /\ StatusStands
<1>1. CASE ~Acquires(c, scope)
  BY <1>1, RowStands DEF AcquireCheckout
<1>2. CASE Acquires(c, scope)
  <2> DEFINE t == LeaseTo(c, scope, ttl)
  <2>1. Write(t)
    BY <1>2 DEF AcquireCheckout
  <2>2. /\ task \in TaskRow /\ now \in Nat /\ ttl \in Nat /\ now + ttl \in Nat
        /\ task.generation + 1 \in Nat /\ task.generation \in Nat
        /\ AgentOf[c] \in Agents
        /\ scope.session \in Clients \cup {None} /\ scope.request \in Requests \cup {None}
    BY ConstantsAssumption DEF IInv, TypeOK, TaskRow, Agents, AcquireCheckout, Scopes
  <2>3. CASE IsRetry(c, scope)
    <3> DEFINE e == IF scope.request # None THEN task.expires ELSE now + ttl
               n == IF scope.request # None THEN task.touched ELSE now
    <3>1. t = [task EXCEPT !.expires = e, !.touched = n]
      BY <2>3 DEF LeaseTo
    <3>2. e \in Nat \cup {None} /\ n \in Nat
      BY <2>2 DEF TaskRow
    <3> HIDE DEF e, n
    <3>3. /\ t \in TaskRow /\ t.generation = task.generation /\ t.status = task.status
          /\ t.holder = task.holder /\ t.token = task.token /\ t.session = task.session
          /\ t.expires = e
      BY ZenonT(40), <2>2, <3>1, <3>2 DEF TaskRow
    <3> HIDE DEF t
    <3>4. e = task.expires \/ Renews(e)
      <4>1. task.holder # None /\ task.expires > now
        BY <2>2, <2>3, ConstantsAssumption DEF IsRetry, Agents
      <4>2. now + ttl > now
        BY <2>2, ConstantsAssumption
      <4>3. QED
        BY <4>1, <4>2 DEF e, Renews
    <3>5. QED
      BY <2>1, <3>3, <3>4, QuietWrite DEF StatusStands
  <2>4. CASE ~IsRetry(c, scope)
    <3>1. t = [task EXCEPT !.holder = AgentOf[c], !.token = task.generation + 1,
                           !.expires = now + ttl, !.session = scope.session,
                           !.request = scope.request,
                           !.generation = task.generation + 1, !.touched = now]
      BY <2>4 DEF LeaseTo
    <3>2. /\ t \in TaskRow /\ t.generation = task.generation + 1
          /\ t.status = task.status /\ t.holder = AgentOf[c] /\ t.expires = now + ttl
      BY ZenonT(40), <2>2, <3>1 DEF TaskRow
    <3> HIDE DEF t
    <3>3. /\ task'.generation = task.generation + 1 /\ task'.status = task.status
          /\ task'.holder = AgentOf[c] /\ task'.expires = now + ttl
      BY <2>1, <3>2, StoredRow DEF Write
    <3>4. Lapsed(task) /\ AgentOf[c] # None /\ now + ttl > now
      BY <1>2, <2>2, <2>4, ConstantsAssumption DEF Acquires, Agents
    <3>5. QED
      BY <3>3, <3>4 DEF Fenced, Granted, StatusStands
  <2>5. QED
    BY <2>3, <2>4
<1>3. QED
  BY <1>1, <1>2

\* The lease calls other than a grant and hand_off.
LEMMA LeaseCallFenced ==
    ASSUME IInv, NEW c \in Clients, LeaseCall(c)
    PROVE  Fenced /\ (StatusStands \/ task'.status = "todo")
<1>1. /\ task \in TaskRow /\ now \in Nat /\ task.expires \in Nat \cup {None}
      /\ Released(task) \in TaskRow /\ Released(task).holder = None
      /\ Released(task).status = task.status
      /\ Released(task).generation = task.generation
  BY ReleasedRow DEF IInv, TypeOK, TaskRow
<1>2. CASE CheckoutTask(c) \/ \E target \in Statuses : FinishTask(c, target)
  BY <1>2, RowStands DEF CheckoutTask, FinishTask, Read
<1>3. CASE \E scope \in Scopes, ttl \in TTLs : AcquireCheckout(c, scope, ttl)
  BY <1>3, AcquireFenced
<1>4. CASE ReleaseCheckout(c) \/ SelfReleaseCheckout(c)
  <2> DEFINE t == [Released(task) EXCEPT !.touched = now]
  <2>1. Write(t)
    BY <1>4 DEF ReleaseCheckout, SelfReleaseCheckout
  <2>2. /\ t \in TaskRow /\ t.holder = None /\ t.generation = task.generation
        /\ t.status = task.status
    BY <1>1 DEF TaskRow
  <2> HIDE DEF t
  <2>3. QED
    BY <2>1, <2>2, QuietWrite DEF StatusStands
<1>5. ASSUME NEW ttl \in TTLs, ExtendCheckout(c, ttl)
      PROVE  Fenced /\ StatusStands
  <2> DEFINE t == [task EXCEPT !.expires = now + ttl, !.touched = now]
  <2>1. Write(t)
    BY <1>5 DEF ExtendCheckout
  <2>2. now + ttl \in Nat
    BY <1>1, ConstantsAssumption
  <2>3. /\ t \in TaskRow /\ t.holder = task.holder /\ t.generation = task.generation
        /\ t.status = task.status /\ t.token = task.token /\ t.session = task.session
        /\ t.expires = now + ttl
    BY <2>2 DEF IInv, TypeOK, TaskRow
  <2> HIDE DEF t
  <2>4. Renews(now + ttl)
    BY <1>1, <1>5, ConstantsAssumption DEF ExtendCheckout, Live, Renews
  <2>5. QED
    BY <2>1, <2>3, <2>4, QuietWrite DEF StatusStands
<1>6. CASE ContinueNext(c)
  <2> DEFINE e == IF now + NextTTL > task.expires THEN now + NextTTL ELSE task.expires
             t == [task EXCEPT !.expires = e, !.touched = now, !.marker = None]
  <2>1. Write(t)
    BY <1>6 DEF ContinueNext
  <2>2. e \in Nat \cup {None}
    BY <1>1, ConstantsAssumption
  <2>5. Renews(e)
    <3>1. task.holder # None /\ task.expires > now
      BY <1>6 DEF ContinueNext, Live
    <3>2. now + NextTTL > now
      BY <1>1, ConstantsAssumption
    <3>3. QED
      BY <3>1, <3>2 DEF Renews
  <2> HIDE DEF e
  <2>3. /\ t \in TaskRow /\ t.holder = task.holder /\ t.generation = task.generation
        /\ t.status = task.status /\ t.token = task.token /\ t.session = task.session
        /\ t.expires = e
    <3>1. ASSUME NEW n \in Nat \cup {None}
          PROVE  LET u == [task EXCEPT !.expires = e, !.touched = now, !.marker = n]
                 IN  /\ u \in TaskRow /\ u.holder = task.holder
                     /\ u.generation = task.generation /\ u.status = task.status
                     /\ u.token = task.token /\ u.session = task.session
                     /\ u.expires = e
      BY ZenonT(40), <2>2 DEF IInv, TypeOK, TaskRow
    <3>2. QED
      BY <3>1
  <2> HIDE DEF t
  <2>4. QED
    BY <2>1, <2>3, <2>5, QuietWrite DEF StatusStands
<1>7. CASE WaitFor(c)
  <2> DEFINE t == [Released(task) EXCEPT !.touched = now, !.marker = None]
  <2>1. Write(t)
    BY <1>7 DEF WaitFor
  <2>2. /\ t \in TaskRow /\ t.holder = None /\ t.generation = task.generation
        /\ t.status = task.status
    BY ZenonT(40), ReleaseRow, ReleasedRow DEF IInv, TypeOK, TaskRow
  <2> HIDE DEF t
  <2>3. QED
    BY <2>1, <2>2, QuietWrite DEF StatusStands
<1>8. CASE HandOff(c)
  <2> DEFINE t == [Released(task) EXCEPT !.status = "todo", !.touched = now,
                                         !.marker = None]
  <2>1. Write(t)
    BY <1>8 DEF HandOff
  <2>2. /\ t \in TaskRow /\ t.holder = None /\ t.generation = task.generation
        /\ t.status = "todo"
    BY ZenonT(40), ReleaseRow, ReleasedRow DEF IInv, TypeOK, TaskRow
  <2> HIDE DEF t
  <2>3. QED
    BY <2>1, <2>2, QuietWrite
<1>9. QED
  BY <1>2, <1>3, <1>4, <1>5, <1>6, <1>7, <1>8 DEF LeaseCall

\* Everybody else's writes leave status and lease alone, or end the lease.
LEMMA WriterFenced ==
    ASSUME IInv,
           \/ \E a \in Agents : ExtendCheckoutsOnHeartbeat(a)
           \/ \E a \in Agents, s \in Clients \cup {None}, g \in 1 .. MaxGeneration :
                ForceReleaseCheckout(a, s, g)
           \/ Sweep
           \/ \E isMarker \in Markers : AddComment(isMarker)
           \/ AttachEvidence
           \/ \E author \in GateAuthors : ArmHumanGate(author)
           \/ ClearHumanGate
           \/ \E shipped \in Shipments : ShipTask(shipped)
    PROVE  Fenced /\ StatusStands
<1>1. /\ task \in TaskRow /\ now \in Nat
      /\ Released(task) \in TaskRow /\ Released(task).holder = None
      /\ Released(task).status = task.status
      /\ Released(task).generation = task.generation
  BY ReleasedRow DEF IInv, TypeOK, TaskRow
<1>2. CASE \E a \in Agents : ExtendCheckoutsOnHeartbeat(a)
  <2> DEFINE t == [task EXCEPT !.expires = now + HeartbeatTTL, !.touched = now]
  <2>1. Write(t)
    BY <1>2 DEF ExtendCheckoutsOnHeartbeat
  <2>2. now + HeartbeatTTL \in Nat
    BY <1>1, ConstantsAssumption
  <2>3. /\ t \in TaskRow /\ t.holder = task.holder /\ t.generation = task.generation
        /\ t.status = task.status /\ t.token = task.token /\ t.session = task.session
        /\ t.expires = now + HeartbeatTTL
    BY <2>2 DEF IInv, TypeOK, TaskRow
  <2> HIDE DEF t
  <2>4. Renews(now + HeartbeatTTL)
    BY <1>1, <1>2, ConstantsAssumption DEF ExtendCheckoutsOnHeartbeat, Renews, Agents
  <2>5. QED
    BY <2>1, <2>3, <2>4, QuietWrite DEF StatusStands
<1>3. CASE \/ \E a \in Agents, s \in Clients \cup {None}, g \in 1 .. MaxGeneration :
                ForceReleaseCheckout(a, s, g)
           \/ ReleaseExpiredCheckouts
  <2> DEFINE t == [Released(task) EXCEPT !.touched = now]
  <2>1. Write(t) \/ task' = task
    BY <1>3 DEF ForceReleaseCheckout, ReleaseExpiredCheckouts
  <2>2. /\ t \in TaskRow /\ t.holder = None /\ t.generation = task.generation
        /\ t.status = task.status
    BY <1>1 DEF TaskRow
  <2> HIDE DEF t
  <2>3. QED
    BY <2>1, <2>2, QuietWrite, RowStands DEF StatusStands
<1>4. CASE SweepExpiredLeases \/ SweepUnleasedInProgress
  BY <1>4, RowStands DEF SweepExpiredLeases, SweepUnleasedInProgress
<1>5. ASSUME NEW isMarker \in Markers, AddComment(isMarker)
      PROVE  Fenced /\ StatusStands
  <2> DEFINE n == IF isMarker THEN now ELSE None
             t == [task EXCEPT !.touched = now, !.marker = n]
  <2>1. Write(t)
    BY <1>5 DEF AddComment
  <2>2. n \in Nat \cup {None}
    BY <1>1
  <2> HIDE DEF n
  <2>3. /\ t \in TaskRow /\ t.holder = task.holder /\ t.generation = task.generation
        /\ t.status = task.status /\ t.token = task.token /\ t.session = task.session
        /\ t.expires = task.expires
    BY ZenonT(40), <2>2 DEF IInv, TypeOK, TaskRow
  <2> HIDE DEF t
  <2>4. QED
    BY <2>1, <2>3, QuietWrite DEF StatusStands
<1>6. CASE AttachEvidence
  <2> DEFINE t == [task EXCEPT !.touched = now]
  <2>1. Write(t)
    BY <1>6 DEF AttachEvidence
  <2>2. /\ t \in TaskRow /\ t.holder = task.holder /\ t.generation = task.generation
        /\ t.status = task.status /\ t.token = task.token /\ t.session = task.session
        /\ t.expires = task.expires
    BY DEF IInv, TypeOK, TaskRow
  <2> HIDE DEF t
  <2>3. QED
    BY <2>1, <2>2, QuietWrite DEF StatusStands
<1>7. ASSUME NEW g \in Agents \cup {User, None}, NEW b \in BOOLEAN,
             \/ Write([task EXCEPT !.gate = g, !.touched = now])
             \/ Write([task EXCEPT !.shipped = b, !.touched = now])
      PROVE  Fenced /\ StatusStands
  <2> DEFINE t == [task EXCEPT !.gate = g, !.touched = now]
             u == [task EXCEPT !.shipped = b, !.touched = now]
  <2>1. /\ t \in TaskRow /\ t.holder = task.holder /\ t.generation = task.generation
        /\ t.status = task.status /\ t.token = task.token /\ t.session = task.session
        /\ t.expires = task.expires
    BY ZenonT(40) DEF IInv, TypeOK, TaskRow
  <2>2. /\ u \in TaskRow /\ u.holder = task.holder /\ u.generation = task.generation
        /\ u.status = task.status /\ u.token = task.token /\ u.session = task.session
        /\ u.expires = task.expires
    BY ZenonT(40) DEF IInv, TypeOK, TaskRow
  <2>3. Write(t) \/ Write(u)
    BY <1>7
  <2> HIDE DEF t, u
  <2>4. QED
    BY <2>1, <2>2, <2>3, QuietWrite DEF StatusStands
<1>8. CASE \/ \E author \in GateAuthors : ArmHumanGate(author)
           \/ ClearHumanGate
           \/ \E shipped \in Shipments : ShipTask(shipped)
  BY <1>7, <1>8, ConstantsAssumption DEF ArmHumanGate, ClearHumanGate, ShipTask, Agents
<1>9. QED
  BY <1>2, <1>3, <1>4, <1>5, <1>6, <1>8 DEF Sweep

\* A move keeps the lease or ends it, and closes a gated card only for a person.
LEMMA MoveFenced ==
    ASSUME IInv, NEW p \in Procs, Move(p)
    PROVE  /\ Fenced
           /\ \/ StatusStands
              \/ task.gate = None
              \/ task'.status \notin Terminal
              \/ p = User /\ MoveWrite(p)
<1>1. CASE MoveRead(p) \/ Abandon(p)
  BY <1>1, RowStands DEF MoveRead, Read, Abandon
<1>2. CASE MoveWrite(p) /\ ~WriteAdmitted(p)
  BY <1>2, RowStands DEF MoveWrite
<1>3. CASE MoveWrite(p) /\ WriteAdmitted(p)
  <2>1. op[p].pc = "write" /\ Write(Moved(p)) /\ p \in current
    BY <1>3 DEF MoveWrite, WriteAdmitted
  <2>2. /\ Moved(p) \in TaskRow /\ Moved(p).status = op[p].target
        /\ Moved(p).generation = task.generation
        /\ \/ Moved(p).holder = None
           \/ /\ Moved(p).holder = task.holder /\ Moved(p).token = task.token
              /\ Moved(p).session = task.session /\ Moved(p).expires = task.expires
    BY <2>1, MovedRow
  <2>3. Fenced /\ task'.status = op[p].target
    BY <2>1, <2>2, QuietWrite
  <2>4. (op[p].target \in Terminal /\ op[p].target # task.status) =>
          task.gate = None \/ p = User
    BY <2>1 DEF IInv, SnapshotsHold
  <2>5. QED
    BY <1>3, <2>3, <2>4 DEF StatusStands
<1>4. CASE PostSystemComment(p) \/ (PostReviewerNotAssigned(p) /\ ~UNCHANGED task)
  <2> DEFINE t == [task EXCEPT !.touched = now]
  <2>1. Write(t)
    BY <1>4 DEF PostSystemComment, PostReviewerNotAssigned
  <2>2. /\ t \in TaskRow /\ t.holder = task.holder /\ t.generation = task.generation
        /\ t.status = task.status /\ t.token = task.token /\ t.session = task.session
        /\ t.expires = task.expires
    BY DEF IInv, TypeOK, TaskRow
  <2> HIDE DEF t
  <2>3. QED
    BY <2>1, <2>2, QuietWrite DEF StatusStands
<1>5. CASE UNCHANGED task
  BY <1>5, RowStands
<1>6. QED
  BY <1>1, <1>2, <1>3, <1>4, <1>5 DEF Move

\* Every step is fenced, and closes a gated card only as a person's move.
LEMMA StepFenced ==
    ASSUME IInv, Next
    PROVE  /\ Fenced
           /\ (task.gate # None /\ task'.status # task.status /\ task'.status \in Terminal)
                => MoveWrite(User)
<1>1. CASE \E c \in Clients : LeaseCall(c)
  <2>1. Fenced /\ (StatusStands \/ task'.status = "todo")
    BY <1>1, LeaseCallFenced
  <2>2. QED
    BY <2>1 DEF StatusStands, Terminal
<1>2. CASE \E p \in Procs : Move(p)
  BY <1>2, MoveFenced DEF StatusStands
<1>3. CASE Tick \/ \E p \in Procs \ {Reaper}, target \in Statuses : MoveTask(p, target)
  BY <1>3, RowStands DEF Tick, MoveTask, Read, StatusStands
<1>4. CASE /\ ~(\E c \in Clients : LeaseCall(c)) /\ ~(\E p \in Procs : Move(p)) /\ ~Tick
           /\ ~(\E p \in Procs \ {Reaper}, target \in Statuses : MoveTask(p, target))
  <2>1. Fenced /\ StatusStands
    BY <1>4, WriterFenced DEF Next
  <2>2. QED
    BY <2>1 DEF StatusStands
<1>5. QED
  BY <1>1, <1>2, <1>3, <1>4

\* Generations fence: they only grow, and a lease's holder, token and session
\* never change within one generation.
THEOREM GenerationsFence == Spec => GenerationFences
<1>1. IInv /\ [Next]_vars =>
        [/\ task'.generation >= task.generation
         /\ (task'.holder # None /\ task'.generation = task.generation) =>
              /\ task'.holder = task.holder /\ task'.token = task.token
              /\ task'.session = task.session]_vars
  <2> SUFFICES ASSUME IInv, Next
               PROVE  /\ task'.generation >= task.generation
                      /\ (task'.holder # None /\ task'.generation = task.generation) =>
                           /\ task'.holder = task.holder /\ task'.token = task.token
                           /\ task'.session = task.session
    OBVIOUS
  <2>1. Fenced /\ task.generation \in Nat
    BY StepFenced DEF IInv, TypeOK, TaskRow
  <2>2. QED
    BY <2>1 DEF Fenced, Kept, Ended, Granted
<1>2. QED
  BY <1>1, InvariantHolds, PTL DEF Spec, GenerationFences

\* A card with a raised gate is closed by a person's move only, even when the
\* gate goes up between another actor's policy check and its write.
THEOREM GateHolds == Spec => GatedCardClosedByPerson
<1>1. IInv /\ [Next]_vars =>
        [(task.gate # None /\ task'.status # task.status /\ task'.status \in Terminal)
           => MoveWrite(User)]_vars
  BY StepFenced
<1>2. QED
  BY <1>1, InvariantHolds, PTL DEF Spec, GatedCardClosedByPerson

\* The stage marker the reaper trusts means that a checkout set this status.
THEOREM MarkerHonest == Spec => []MarkerMeansCheckoutStage
<1>1. IInv => MarkerMeansCheckoutStage
  BY DEF IInv
<1>2. QED
  BY <1>1, InvariantHolds, PTL

-----------------------------------------------------------------------------
(* The row implements the abstract lease.                                    *)

\* Only the clock's own step moves the clock.
LEMMA ClockStands ==
    ASSUME Next, ~Tick
    PROVE  now' = now
<1>1. CASE \E c \in Clients : LeaseCall(c)
  BY <1>1 DEF LeaseCall, CheckoutTask, AcquireCheckout, ReleaseCheckout,
     SelfReleaseCheckout, ExtendCheckout, ContinueNext, WaitFor, HandOff, FinishTask, Read
<1>2. CASE \/ \E p \in Procs : Move(p)
           \/ \E p \in Procs \ {Reaper}, target \in Statuses : MoveTask(p, target)
  BY <1>2 DEF Move, MoveRead, PostReviewerNotAssigned, MoveWrite, PostSystemComment,
     Abandon, MoveTask, Read
<1>3. CASE /\ ~(\E c \in Clients : LeaseCall(c)) /\ ~(\E p \in Procs : Move(p))
           /\ ~(\E p \in Procs \ {Reaper}, target \in Statuses : MoveTask(p, target))
  BY <1>3 DEF Next, Sweep, SweepExpiredLeases, ReleaseExpiredCheckouts,
     SweepUnleasedInProgress, ExtendCheckoutsOnHeartbeat, ForceReleaseCheckout,
     AddComment, AttachEvidence, ArmHumanGate, ClearHumanGate, ShipTask
<1>4. QED
  BY <1>1, <1>2, <1>3

\* Every step of the row is a step of the lease, or leaves it alone.
LEMMA LeaseStep ==
    ASSUME IInv, IInv', [Next]_vars
    PROVE  Lease!Next \/ UNCHANGED Lease!vars
<1>1. CASE UNCHANGED vars
  BY <1>1 DEF vars, Lease!vars
<1>2. CASE Tick
  BY <1>2 DEF Tick, Lease!Next, Lease!Tick
<1>3. CASE Next /\ ~Tick
  <2>1. now' = now /\ (Kept \/ Ended \/ Granted)
    BY <1>3, ClockStands, StepFenced DEF Fenced
  <2>2. /\ task \in TaskRow /\ task' \in TaskRow
        /\ task.holder = None <=> task.expires = None
        /\ task'.holder = None <=> task'.expires = None
    BY DEF IInv, TypeOK, LeaseShape
  <2>3. /\ task.holder # None =>
             [agent |-> task.holder, session |-> task.session] \in LeaseOwners
        /\ task'.holder # None =>
             [agent |-> task'.holder, session |-> task'.session] \in LeaseOwners
    BY <2>2 DEF LeaseOwners, TaskRow
  <2>4. CASE Ended
    BY <2>1, <2>2, <2>3, <2>4, OwnersAssumption DEF Ended, Lease!Next, Lease!End, Lease!vars
  <2>5. CASE Kept /\ task'.expires = task.expires
    BY <2>1, <2>5 DEF Kept, Lease!vars
  <2>6. CASE Kept /\ Renews(task'.expires)
    <3>1. /\ task.holder # None /\ task'.holder = task.holder
          /\ task'.session = task.session /\ task'.generation = task.generation
          /\ task'.expires > now /\ (task.session # None => task.expires > now)
      BY <2>6 DEF Kept, Renews
    <3>2. Lease!Renew
      BY <2>1, <2>3, <3>1, OwnersAssumption DEF Lease!Renew, Lease!Live
    <3>3. QED
      BY <3>2 DEF Lease!Next
  <2>7. CASE Granted
    <3>1. /\ task'.holder # None /\ task'.generation = task.generation + 1
          /\ task'.expires > now
      BY <2>7 DEF Granted
    <3>2. ~Lease!Live
      <4>1. CASE task.holder = None
        BY <4>1 DEF Lease!Live
      <4>2. CASE task.holder # None /\ task.expires <= now
        <5>1. task.expires \in Nat /\ now \in Nat
          BY <2>2, <4>2 DEF IInv, TypeOK, TaskRow
        <5>2. QED
          BY <4>2, <5>1 DEF Lease!Live
      <4>3. QED
        BY <2>7, <4>1, <4>2 DEF Granted, Lapsed
    <3>3. Lease!Grant
      BY <2>1, <2>3, <3>1, <3>2 DEF Lease!Grant
    <3>4. QED
      BY <3>3 DEF Lease!Next
  <2>8. QED
    BY <2>1, <2>4, <2>5, <2>6, <2>7 DEF Kept
<1>4. QED
  BY <1>1, <1>2, <1>3

\* The checkout code implements the writer lease: one owner at a time, a new
\* generation for every grant, none over a live lease, and nothing more for a
\* session whose deadline has passed.
THEOREM ImplementsLease == Spec => LeaseSpec
<1>1. Init => Lease!Init
  BY DEF Init, Lease!Init
<1>2. IInv /\ IInv' /\ [Next]_vars => [Lease!Next]_Lease!vars
  BY LeaseStep
<1>3. QED
  BY <1>1, <1>2, InvariantHolds, PTL DEF Spec, LeaseSpec, Lease!Spec
=============================================================================
