---------------------- MODULE RecurringSchedule_proofs ----------------------
(***************************************************************************)
(* Proofs about RecurringSchedule, for any number of replicas, requests,   *)
(* instances and faults and any cron period.                               *)
(***************************************************************************)
EXTENDS RecurringSchedule, SequenceTheorems, FiniteSetTheorems,
        WellFoundedInduction, TLAPS

-----------------------------------------------------------------------------
(* The operators the model is built from.                                   *)

\* The next occurrence is strictly ahead.
LEMMA NextRunAhead ==
    ASSUME NEW t \in Nat
    PROVE  ComputeNextRun(t) \in Nat /\ t < ComputeNextRun(t)
BY RecurringAssumption DEF ComputeNextRun

\* A nonempty set of instances has an oldest one.
LEMMA OldestIn ==
    ASSUME NEW S \in SUBSET Nat, S # {}
    PROVE  Oldest(S) \in S
<1> DEFINE Before == {ss \in Nat \X Nat : ss[1] < ss[2]}
<1>1. IsWellFoundedOn(Before, Nat)
  BY NatLessThanWellFounded DEF OpToRel
<1>2. \E x \in S : \A y \in S : ~ (<<y, x>> \in Before)
  <2> HIDE DEF Before
  <2> QED BY <1>1, WFMin
<1>3. ASSUME NEW x \in S, NEW y \in S, ~ (<<y, x>> \in Before)
      PROVE  x <= y
  BY <1>3
<1>4. \E x \in S : \A y \in S : x <= y
  BY <1>2, <1>3
<1> QED BY <1>4 DEF Oldest

\* Writing one instance keeps the sequence and its length.
LEMMA TaskWritten ==
    ASSUME NEW s \in Seq(Instance), NEW i \in 1..Len(s), NEW x \in Instance
    PROVE  /\ [s EXCEPT ![i] = x] \in Seq(Instance)
           /\ Len([s EXCEPT ![i] = x]) = Len(s)
BY ExceptSeq

LEMMA NotedWritten ==
    ASSUME NEW s \in Seq(Instance), NEW i \in 1..Len(s)
    PROVE  /\ [s EXCEPT ![i].noted = TRUE] \in Seq(Instance)
           /\ Len([s EXCEPT ![i].noted = TRUE]) = Len(s)
<1> DEFINE x == [s[i] EXCEPT !.noted = TRUE]
<1>0. s[i] \in Instance
  BY ElementOfSeq
<1>1. x \in Instance
  BY <1>0 DEF Instance
<1>2. [s EXCEPT ![i].noted = TRUE] = [s EXCEPT ![i] = x]
  OBVIOUS
<1> HIDE DEF x
<1> QED BY <1>1, <1>2, TaskWritten

LEMMA WorkedWritten ==
    ASSUME NEW s \in Seq(Instance), NEW i \in 1..Len(s)
    PROVE  /\ [s EXCEPT ![i].worked = TRUE] \in Seq(Instance)
           /\ Len([s EXCEPT ![i].worked = TRUE]) = Len(s)
<1> DEFINE x == [s[i] EXCEPT !.worked = TRUE]
<1>0. s[i] \in Instance
  BY ElementOfSeq
<1>1. x \in Instance
  BY <1>0 DEF Instance
<1>2. [s EXCEPT ![i].worked = TRUE] = [s EXCEPT ![i] = x]
  OBVIOUS
<1> HIDE DEF x
<1> QED BY <1>1, <1>2, TaskWritten

LEMMA StatusWritten ==
    ASSUME NEW s \in Seq(Instance), NEW i \in 1..Len(s),
           NEW status \in {"open", "done", "cancelled"}
    PROVE  /\ [s EXCEPT ![i].status = status] \in Seq(Instance)
           /\ Len([s EXCEPT ![i].status = status]) = Len(s)
<1> DEFINE x == [s[i] EXCEPT !.status = status]
<1>0. s[i] \in Instance
  BY ElementOfSeq
<1>1. x \in Instance
  BY <1>0 DEF Instance
<1>2. [s EXCEPT ![i].status = status] = [s EXCEPT ![i] = x]
  OBVIOUS
<1> HIDE DEF x
<1> QED BY <1>1, <1>2, TaskWritten

LEMMA TaskAdded ==
    ASSUME NEW s \in Seq(Instance), NEW x \in Instance
    PROVE  Append(s, x) \in Seq(Instance) /\ Len(Append(s, x)) = Len(s) + 1
BY AppendProperties

LEMMA UnreadTyped == Unread \in Local
BY DEF Unread, Fresh, Local, ScheduleRow, Times

LEMMA FreshTyped == ASSUME NEW row \in ScheduleRow PROVE Fresh(row) \in Local
BY DEF Fresh, Local, Times

-----------------------------------------------------------------------------
(* Types and locals.                                                        *)

Base == RecurringTypeOK /\ LocalsKnown

\* A step of p that ends its run keeps what is known of the others.
LEMMA Finished ==
    ASSUME NEW p \in Procs, Finish(p), pc \in [Procs -> Statements],
           loc \in [Procs -> Local]
    PROVE  /\ pc' \in [Procs -> Statements] /\ loc' \in [Procs -> Local]
           /\ pc' = [pc EXCEPT ![p] = IF p \in Replicas THEN "idle" ELSE "answered"]
           /\ loc' = [loc EXCEPT ![p] = Unread]
           /\ Unread.list = {}
BY UnreadTyped DEF Finish, Goto, Statements, Unread, Fresh

LEMMA FindDueBase ==
    ASSUME Base, NEW r, FindDue(r)
    PROVE  Base'
<1> USE DEF Base, FindDue
<1>1. RecurringTypeOK'
  BY FreshTyped DEF RecurringTypeOK, Goto, Statements, Procs
<1>2. LocalsKnown'
  BY DEF RecurringTypeOK, LocalsKnown, Goto, Fresh, Procs
<1> QED BY <1>1, <1>2

LEMMA LookBase ==
    ASSUME Base, NEW r \in Replicas, Look(r)
    PROVE  Base'
<1> USE DEF Base
<1>0. r \in Procs
  BY DEF Procs
<1>1. \A next \in NextRuns : next \in Times
  BY NextRunAhead DEF NextRuns, RecurringTypeOK, Times
<1>2. OpenInstances # {} => Oldest(OpenInstances) \in 1..Len(tasks)
  <2>1. Len(tasks) \in Nat /\ 1..Len(tasks) \subseteq Nat
    BY LenProperties DEF RecurringTypeOK
  <2>2. OpenInstances \in SUBSET (1..Len(tasks))
    BY DEF OpenInstances
  <2> QED BY <2>1, <2>2, OldestIn
<1>3. CASE Exhausted(loc[r].row)
  BY <1>0, <1>3, Finished DEF Look, RecurringTypeOK, LocalsKnown
<1>4. CASE ~Exhausted(loc[r].row)
  <2>1. PICK next \in NextRuns :
          \/ /\ OpenInstances # {} /\ Goto(r, "repeat") /\ UNCHANGED faults
             /\ loc' = [loc EXCEPT ![r] = [@ EXCEPT !.next = next,
                                                    !.task = Oldest(OpenInstances)]]
          \/ /\ Goto(r, "create") /\ faults' \in {faults, faults + 1}
             /\ loc' = [loc EXCEPT ![r].next = next]
    BY <1>4 DEF Look, Fault
  <2>2. loc' \in [Procs -> Local]
    <3>1. /\ loc[r] \in Local
          /\ OpenInstances # {} => Oldest(OpenInstances) \in Nat
      BY <1>0, <1>2 DEF RecurringTypeOK
    <3>2. /\ [loc[r] EXCEPT !.next = next] \in Local
          /\ OpenInstances # {} =>
               [loc[r] EXCEPT !.next = next, !.task = Oldest(OpenInstances)] \in Local
      BY <1>1, <3>1 DEF Local
    <3> QED BY <1>0, <2>1, <3>2 DEF RecurringTypeOK
  <2>0. UNCHANGED <<sched, tasks, now, lost>>
    BY DEF Look
  <2>3. RecurringTypeOK'
    <3>1. pc' \in [Procs -> Statements] /\ faults' \in Nat
      BY <1>0, <2>1 DEF RecurringTypeOK, Goto, Statements
    <3> QED BY <2>0, <2>2, <3>1 DEF RecurringTypeOK
  <2>4. LocalsKnown'
    <3>1. /\ loc'[r].list = loc[r].list
          /\ pc'[r] = "repeat" => loc'[r].task \in 1..Len(tasks)
          /\ pc'[r] \in {"repeat", "create"}
      <4>1. r \in DOMAIN loc /\ r \in DOMAIN pc /\ loc[r] \in Local
        BY <1>0 DEF RecurringTypeOK
      <4>2. pc'[r] = "repeat" => /\ OpenInstances # {}
                                 /\ loc'[r] = [loc[r] EXCEPT !.next = next,
                                                 !.task = Oldest(OpenInstances)]
        BY <2>1, <4>1 DEF Goto
      <4>3. pc'[r] = "create" => loc'[r] = [loc[r] EXCEPT !.next = next]
        BY <2>1, <4>1 DEF Goto
      <4>4. pc'[r] \in {"repeat", "create"}
        BY <2>1, <4>1 DEF Goto
      <4> QED BY <1>2, <4>1, <4>2, <4>3, <4>4 DEF Local
    <3>2. \A p \in Procs \ {r} : loc'[p] = loc[p] /\ pc'[p] = pc[p]
      BY <2>1 DEF RecurringTypeOK, Goto
    <3> QED BY <2>0, <3>1, <3>2 DEF LocalsKnown
  <2> QED BY <2>3, <2>4
<1> QED BY <1>3, <1>4

LEMMA RepeatBase ==
    ASSUME Base, NEW r \in Replicas, RepeatOpenInstance(r)
    PROVE  Base'
<1> USE DEF Base
<1>0. r \in Procs /\ loc[r].task \in 1..Len(tasks)
  BY DEF Procs, RepeatOpenInstance, LocalsKnown
<1>1. tasks' \in Seq(Instance) /\ Len(tasks') = Len(tasks)
  BY <1>0, NotedWritten DEF RepeatOpenInstance, RecurringTypeOK
<1>2. CASE Goto(r, "advance") /\ UNCHANGED <<loc, faults>>
  BY <1>0, <1>1, <1>2 DEF RepeatOpenInstance, RecurringTypeOK, LocalsKnown, Goto, Statements
<1>3. CASE Finish(r) /\ Fault
  BY <1>0, <1>1, <1>3, Finished DEF RepeatOpenInstance, RecurringTypeOK, LocalsKnown, Fault
<1> QED BY <1>2, <1>3 DEF RepeatOpenInstance

\* A guarded write of the row keeps its type, and a trigger time in the past.
LEMMA RowStored ==
    ASSUME sched \in ScheduleRow, NEW row \in ScheduleRow, Stored(row)
    PROVE  /\ sched' \in ScheduleRow
           /\ sched' = sched \/ (~sched.deleted /\ sched' = row)
BY DEF Stored

\* Steps of p that end the run.
LEMMA EndsBase ==
    ASSUME Base, NEW p \in Procs, Finish(p),
           sched' \in ScheduleRow,
           sched'.last = sched.last \/ sched'.last = now,
           tasks' \in Seq(Instance), Len(tasks') = Len(tasks),
           UNCHANGED now, faults' \in Nat, lost' \in Nat
    PROVE  Base'
<1> USE DEF Base
<1>1. sched' \in ScheduleRow /\ (sched'.last = sched.last \/ sched'.last = now)
  OBVIOUS
<1>2. now \in Nat
  BY DEF RecurringTypeOK
<1>3. /\ pc' \in [Procs -> Statements] /\ loc' \in [Procs -> Local]
      /\ pc'[p] = IF p \in Replicas THEN "idle" ELSE "answered"
      /\ loc'[p].list = {}
      /\ \A q \in Procs \ {p} : pc'[q] = pc[q] /\ loc'[q] = loc[q]
  BY Finished DEF RecurringTypeOK
<1>4. RecurringTypeOK'
  BY <1>1, <1>3 DEF RecurringTypeOK
<1>5. LocalsKnown'
  BY <1>1, <1>2, <1>3 DEF LocalsKnown, Procs
<1> QED BY <1>4, <1>5

LEMMA RowWriteBase ==
    ASSUME Base, NEW p \in Procs, NEW row \in ScheduleRow,
           Stored(row) \/ UNCHANGED sched,
           row.last = sched.last \/ row.last = now,
           Finish(p), UNCHANGED <<tasks, now>>, faults' \in Nat, lost' \in Nat
    PROVE  Base'
<1>1. sched' \in ScheduleRow /\ (sched'.last = sched.last \/ sched'.last = now)
  BY RowStored DEF Base, RecurringTypeOK
<1>2. tasks' \in Seq(Instance) /\ Len(tasks') = Len(tasks)
  BY DEF Base, RecurringTypeOK
<1> QED BY <1>1, <1>2, EndsBase

LEMMA AdvanceBase ==
    ASSUME Base, NEW r \in Replicas, AdvanceNextRun(r)
    PROVE  Base'
<1> DEFINE row == [sched EXCEPT !.next = loc[r].next]
<1>1. r \in Procs /\ row \in ScheduleRow /\ row.last = sched.last
  BY DEF Base, RecurringTypeOK, Procs, ScheduleRow, Local
<1>2. Stored(row) /\ Finish(r) /\ UNCHANGED <<tasks, now>> /\ faults' \in Nat /\ lost' \in Nat
  BY DEF AdvanceNextRun, Base, RecurringTypeOK
<1> HIDE DEF row
<1> QED BY <1>1, <1>2, RowWriteBase

LEMMA QuarantineBase ==
    ASSUME Base, NEW r \in Replicas, Quarantine(r)
    PROVE  Base'
<1> DEFINE row == [sched EXCEPT !.active = FALSE]
<1>1. r \in Procs /\ row \in ScheduleRow /\ row.last = sched.last
  BY DEF Base, RecurringTypeOK, Procs, ScheduleRow
<1>2. Stored(row) /\ Finish(r) /\ UNCHANGED <<tasks, now>> /\ faults' \in Nat /\ lost' \in Nat
  BY DEF Quarantine, Base, RecurringTypeOK
<1> HIDE DEF row
<1> QED BY <1>1, <1>2, RowWriteBase

LEMMA UpdateBase ==
    ASSUME Base, NEW c \in Callers, Update(c)
    PROVE  Base'
<1>1. PICK active \in {loc[c].row.active, TRUE, FALSE},
           max \in Limits \cup {loc[c].row.max}, ends \in Ends \cup {loc[c].row.ends},
           next \in {loc[c].row.next, ComputeNextRun(now)} :
        Stored([sched EXCEPT !.active = active, !.max = max, !.ends = ends, !.next = next])
  BY DEF Update
<1> DEFINE row == [sched EXCEPT !.active = active, !.max = max, !.ends = ends, !.next = next]
<1>2. c \in Procs /\ loc[c].row \in ScheduleRow /\ sched \in ScheduleRow /\ now \in Nat
  BY DEF Base, RecurringTypeOK, Procs, Local
<1>3. active \in BOOLEAN /\ max \in Times /\ ends \in Times /\ next \in Times
  BY <1>2, RecurringAssumption, NextRunAhead DEF ScheduleRow, Times
<1>4. row \in ScheduleRow /\ row.last = sched.last
  BY <1>2, <1>3 DEF ScheduleRow
<1>5. Stored(row) /\ Finish(c) /\ UNCHANGED <<tasks, now>> /\ faults' \in Nat /\ lost' \in Nat
  BY <1>1 DEF Update, Base, RecurringTypeOK
<1> HIDE DEF row
<1> QED BY <1>2, <1>4, <1>5, RowWriteBase

\* Steps of p that write the row or an instance and go on to statement st.
LEMMA GoesOnBase ==
    ASSUME Base, NEW p \in Procs, NEW st \in Statements, Goto(p, st),
           sched' \in ScheduleRow,
           sched'.last = sched.last \/ sched'.last = now,
           tasks' \in Seq(Instance), Len(tasks') = Len(tasks),
           UNCHANGED <<loc, now>>, faults' \in Nat, lost' \in Nat,
           st \in {"quarantine", "failed", "reset"} => p \in Replicas,
           st \in {"reset", "supersede", "closing", "count"} =>
             loc[p].task \in 1..Len(tasks),
           st \notin {"repeat", "advance", "look", "update", "answered"}
    PROVE  Base'
<1> USE DEF Base
<1>1. now \in Nat /\ pc' = [pc EXCEPT ![p] = st] /\ pc \in [Procs -> Statements]
  BY DEF RecurringTypeOK, Goto
<1>2. RecurringTypeOK'
  BY <1>1 DEF RecurringTypeOK
<1>3. LocalsKnown'
  BY <1>1 DEF LocalsKnown
<1> QED BY <1>2, <1>3

LEMMA CreateBase ==
    ASSUME Base, NEW p \in Procs, CreateInstance(p)
    PROVE  Base' /\ Len(tasks') = Len(tasks) + 1
<1> USE DEF Base
<1> DEFINE x == [number |-> loc[p].row.count + 1, status |-> "open",
                 worked |-> FALSE, noted |-> FALSE]
<1>1. x \in Instance /\ loc[p] \in Local /\ Len(tasks) \in Nat
  <2>1. loc[p] \in Local /\ loc[p].row.count \in Nat
    BY DEF RecurringTypeOK, Local, ScheduleRow
  <2> QED BY <2>1, LenProperties DEF Instance, RecurringTypeOK
<1>2. tasks' \in Seq(Instance) /\ Len(tasks') = Len(tasks) + 1
  <2>1. tasks' = Append(tasks, x)
    BY DEF CreateInstance
  <2> HIDE DEF x
  <2> QED BY <1>1, <2>1, TaskAdded DEF RecurringTypeOK
<1>3. /\ [loc[p] EXCEPT !.task = Len(tasks) + 1] \in Local
      /\ [loc[p] EXCEPT !.task = Len(tasks) + 1].list = loc[p].list
      /\ [loc[p] EXCEPT !.task = Len(tasks) + 1].task = Len(tasks) + 1
  BY <1>1 DEF Local
<1>4. loc' = [loc EXCEPT ![p] = [loc[p] EXCEPT !.task = Len(tasks) + 1]]
  BY DEF CreateInstance, RecurringTypeOK
<1>5. PICK st \in {"count", "reset", "supersede"} :
        pc' = [pc EXCEPT ![p] = st] /\ (st = "reset" => p \in Replicas)
  BY DEF CreateInstance, Goto, Procs
<1>6. UNCHANGED <<sched, now, faults, lost>>
  BY DEF CreateInstance
<1>7. RecurringTypeOK'
  BY <1>2, <1>3, <1>4, <1>5, <1>6 DEF RecurringTypeOK, Statements
<1>8. LocalsKnown'
  <2>1. /\ pc'[p] = st /\ loc'[p].task = Len(tasks) + 1 /\ loc'[p].list = loc[p].list
        /\ \A q \in Procs \ {p} : pc'[q] = pc[q] /\ loc'[q] = loc[q]
    BY <1>3, <1>4, <1>5 DEF RecurringTypeOK
  <2>2. 1..Len(tasks) \subseteq 1..Len(tasks') /\ Len(tasks) + 1 \in 1..Len(tasks')
    BY <1>1, <1>2
  <2> QED BY <1>5, <1>6, <2>1, <2>2 DEF LocalsKnown
<1> QED BY <1>2, <1>7, <1>8

LEMMA CreateFailsBase ==
    ASSUME Base, NEW p \in Procs, CreateFails(p)
    PROVE  Base'
<1>1. CASE p \in Replicas
  <2>1. /\ Goto(p, "failed") /\ "failed" \in Statements
        /\ UNCHANGED <<sched, tasks, loc, now>> /\ faults' \in Nat /\ lost' \in Nat
        /\ sched \in ScheduleRow /\ tasks \in Seq(Instance)
    BY <1>1 DEF CreateFails, Base, RecurringTypeOK, Statements
  <2> QED BY <1>1, <2>1, GoesOnBase
<1>2. CASE p \notin Replicas
  <2>1. Finish(p) /\ UNCHANGED <<sched, tasks, now>> /\ faults' \in Nat /\ lost' \in Nat
        /\ sched \in ScheduleRow
    BY <1>2 DEF CreateFails, Base, RecurringTypeOK
  <2> QED BY <2>1, RowWriteBase
<1> QED BY <1>1, <1>2

LEMMA RecordFailureBase ==
    ASSUME Base, NEW r \in Replicas, RecordFailure(r)
    PROVE  Base'
<1> DEFINE row == [sched EXCEPT !.fails = @ + 1, !.next = loc[r].next]
<1>0. r \in Procs /\ sched \in ScheduleRow /\ loc[r].next \in Times
  BY DEF Base, RecurringTypeOK, Procs, Local
<1>9. sched.fails + 1 \in Nat
  BY <1>0 DEF ScheduleRow
<1>1. r \in Procs /\ row \in ScheduleRow /\ row.last = sched.last /\ sched \in ScheduleRow
  BY <1>0, <1>9 DEF ScheduleRow
<1>2. /\ Stored(row) \/ UNCHANGED sched
      /\ UNCHANGED <<tasks, now>> /\ faults' \in Nat /\ lost' \in Nat
  BY DEF RecordFailure, Base, RecurringTypeOK, Fault
<1>3. tasks \in Seq(Instance)
  BY DEF Base, RecurringTypeOK
<1> HIDE DEF row
<1>4. CASE Goto(r, "quarantine") /\ UNCHANGED loc
  <2>1. sched' \in ScheduleRow /\ sched'.last = sched.last
    BY <1>1, <1>2, RowStored
  <2> QED BY <1>1, <1>2, <1>3, <1>4, <2>1, GoesOnBase DEF Statements
<1>5. CASE Finish(r)
  BY <1>1, <1>2, <1>5, RowWriteBase
<1> QED BY <1>4, <1>5 DEF RecordFailure

LEMMA ResetBase ==
    ASSUME Base, NEW r \in Replicas, ResetConsecutiveFailures(r)
    PROVE  Base'
<1> DEFINE row == [sched EXCEPT !.fails = 0]
<1>1. r \in Procs /\ row \in ScheduleRow /\ row.last = sched.last /\ sched \in ScheduleRow
  BY DEF Base, RecurringTypeOK, Procs, ScheduleRow
<1>2. /\ Stored(row) \/ UNCHANGED sched
      /\ UNCHANGED <<tasks, loc, now>> /\ faults' \in Nat /\ lost' \in Nat
      /\ Goto(r, "supersede") /\ tasks \in Seq(Instance)
  BY DEF ResetConsecutiveFailures, Base, RecurringTypeOK, Fault
<1>3. loc[r].task \in 1..Len(tasks)
  BY <1>1 DEF ResetConsecutiveFailures, Base, LocalsKnown
<1> HIDE DEF row
<1>4. sched' \in ScheduleRow /\ sched'.last = sched.last
  BY <1>1, <1>2, RowStored
<1> QED BY <1>1, <1>2, <1>3, <1>4, GoesOnBase DEF Statements

\* A list of instances, known to exist, is written to a run's memory.
LEMMA SupersedeBase ==
    ASSUME Base, NEW p \in Procs, Supersede(p)
    PROVE  Base'
<1> USE DEF Base
<1>1. loc[p] \in Local /\ loc[p].list \subseteq 1..Len(tasks) /\ Len(tasks) \in Nat
  BY LenProperties DEF RecurringTypeOK, LocalsKnown
<1>2. PICK list \in SUBSET (1..Len(tasks)) :
        loc' = [loc EXCEPT ![p].list = list] \/ UNCHANGED loc
  BY DEF Supersede, OpenInstances
<1>3. [loc[p] EXCEPT !.list = list] \in Local
  BY <1>1 DEF Local
<1>4. /\ pc' = [pc EXCEPT ![p] = "closing"] /\ UNCHANGED <<sched, tasks, now, lost>>
      /\ faults' \in Nat
  BY DEF Supersede, Goto, Fault, RecurringTypeOK
<1>5. loc' \in [Procs -> Local]
  BY <1>2, <1>3 DEF RecurringTypeOK
<1>6. RecurringTypeOK'
  BY <1>4, <1>5 DEF RecurringTypeOK, Statements
<1>7. loc[p].task \in 1..Len(tasks)
  BY DEF Supersede, LocalsKnown
<1>8. /\ loc'[p].list \subseteq 1..Len(tasks) /\ loc'[p].task = loc[p].task
      /\ pc'[p] = "closing"
      /\ \A q \in Procs \ {p} : pc'[q] = pc[q] /\ loc'[q] = loc[q]
  BY <1>1, <1>2, <1>4 DEF RecurringTypeOK, Local
<1>9. LocalsKnown'
  BY <1>4, <1>7, <1>8 DEF LocalsKnown
<1> QED BY <1>6, <1>9

LEMMA CloseBase ==
    ASSUME Base, NEW p \in Procs, CloseInstance(p)
    PROVE  Base' /\ Len(tasks') = Len(tasks)
<1> USE DEF Base
<1> DEFINE i == Oldest(loc[p].list)
<1>1. /\ loc[p] \in Local /\ loc[p].list \subseteq 1..Len(tasks) /\ Len(tasks) \in Nat
      /\ loc[p].list \in SUBSET Nat /\ loc[p].list # {}
  BY LenProperties DEF RecurringTypeOK, LocalsKnown, CloseInstance
<1>2. i \in 1..Len(tasks)
  BY <1>1, OldestIn
<1>3. ClosesAs(tasks[i]) \in {"done", "cancelled"}
  BY DEF ClosesAs
<1>4. /\ UNCHANGED <<sched, pc, now, lost>> /\ faults' \in Nat
      /\ \/ \E as \in {"done", "cancelled"} : CloseAs(p, i, as)
         \/ loc' = [loc EXCEPT ![p].list = @ \ {i}] /\ UNCHANGED tasks
  BY <1>3 DEF CloseInstance, Fault, RecurringTypeOK
<1> HIDE DEF i
<1>5. tasks' \in Seq(Instance) /\ Len(tasks') = Len(tasks)
  <2>1. \/ tasks' = tasks
        \/ \E as \in {"done", "cancelled"} : tasks' = [tasks EXCEPT ![i].status = as]
    BY <1>4 DEF CloseAs
  <2>2. ASSUME NEW as \in {"done", "cancelled"}, tasks' = [tasks EXCEPT ![i].status = as]
        PROVE  tasks' \in Seq(Instance) /\ Len(tasks') = Len(tasks)
    <3>1. as \in {"open", "done", "cancelled"} /\ tasks \in Seq(Instance)
      BY DEF RecurringTypeOK
    <3> QED BY <1>2, <2>2, <3>1, StatusWritten, ZenonT(40)
  <2> QED BY <2>1, <2>2 DEF RecurringTypeOK
<1>6. PICK w \in BOOLEAN, m \in BOOLEAN :
        loc' = [loc EXCEPT ![p] = [loc[p] EXCEPT !.list = loc[p].list \ {i}, !.worked = w, !.missed = m]]
  <2>0. loc[p].worked \in BOOLEAN /\ loc[p].missed \in BOOLEAN
    BY <1>1 DEF Local
  <2>1. CASE \E as \in {"done", "cancelled"} : CloseAs(p, i, as)
    <3>1. PICK as \in {"done", "cancelled"} : CloseAs(p, i, as)
      BY <2>1
    <3>2. /\ (loc[p].worked \/ as = "done") \in BOOLEAN
          /\ (loc[p].missed \/ as = "cancelled") \in BOOLEAN
      BY <2>0
    <3>3. loc' = [loc EXCEPT ![p] = [loc[p] EXCEPT !.list = loc[p].list \ {i},
                                       !.worked = (loc[p].worked \/ as = "done"),
                                       !.missed = (loc[p].missed \/ as = "cancelled")]]
      BY <3>1, Zenon DEF CloseAs
    <3> QED BY <3>2, <3>3, Zenon
  <2>2. CASE loc' = [loc EXCEPT ![p].list = @ \ {i}]
    <3>1. [loc[p] EXCEPT !.list = loc[p].list \ {i}]
            = [loc[p] EXCEPT !.list = loc[p].list \ {i}, !.worked = loc[p].worked, !.missed = loc[p].missed]
      BY <1>1 DEF Local
    <3>2. loc' = [loc EXCEPT ![p] = [loc[p] EXCEPT !.list = loc[p].list \ {i}]]
      BY <2>2
    <3> QED BY <2>0, <3>1, <3>2
  <2> QED BY <1>4, <2>1, <2>2
<1>7. /\ [loc[p] EXCEPT !.list = loc[p].list \ {i}, !.worked = w, !.missed = m] \in Local
      /\ [loc[p] EXCEPT !.list = loc[p].list \ {i}, !.worked = w, !.missed = m].list \subseteq loc[p].list
      /\ [loc[p] EXCEPT !.list = loc[p].list \ {i}, !.worked = w, !.missed = m].task = loc[p].task
  BY <1>1 DEF Local
<1>8. RecurringTypeOK'
  BY <1>4, <1>5, <1>6, <1>7 DEF RecurringTypeOK
<1>9. /\ loc'[p].list \subseteq 1..Len(tasks) /\ loc'[p].task = loc[p].task
      /\ \A q \in Procs \ {p} : loc'[q] = loc[q]
  BY <1>1, <1>6, <1>7 DEF RecurringTypeOK
<1>10. LocalsKnown'
  BY <1>4, <1>5, <1>9 DEF LocalsKnown
<1> QED BY <1>5, <1>8, <1>10

LEMMA MissedBase ==
    ASSUME Base, NEW p \in Procs, RecordMissedOutcome(p)
    PROVE  Base' /\ Len(tasks') = Len(tasks) /\ UNCHANGED lost /\ sched'.count = sched.count
<1>1. loc[p].task \in 1..Len(tasks) /\ sched \in ScheduleRow /\ tasks \in Seq(Instance)
  BY DEF RecordMissedOutcome, Base, LocalsKnown, RecurringTypeOK
<1>2. tasks' \in Seq(Instance) /\ Len(tasks') = Len(tasks)
  <2>1. tasks' = tasks \/ tasks' = [tasks EXCEPT ![loc[p].task].noted = TRUE]
    BY DEF RecordMissedOutcome
  <2> QED BY <1>1, <2>1, NotedWritten
<1>3. /\ sched' \in ScheduleRow /\ sched'.last = sched.last /\ sched'.count = sched.count
      /\ UNCHANGED <<now, lost>> /\ faults' \in Nat /\ lost' \in Nat
  <2>1. sched' \in ScheduleRow /\ sched'.last = sched.last /\ sched'.count = sched.count
    <3>1. PICK row \in {sched, [sched EXCEPT !.missed = @ + 1], [sched EXCEPT !.missed = 0]} :
             sched' = row
      <4>1. CASE sched' = sched
        BY <4>1
      <4>2. CASE Stored([sched EXCEPT !.missed = @ + 1])
        BY <4>2 DEF Stored
      <4>3. CASE Stored([sched EXCEPT !.missed = IF loc[p].row.missed > 0 THEN 0 ELSE @])
        BY <1>1, <4>3 DEF Stored, ScheduleRow
      <4> QED BY <4>1, <4>2, <4>3 DEF RecordMissedOutcome
    <3> QED BY <1>1, <3>1 DEF ScheduleRow
  <2>2. faults' = faults \/ Fault
    BY DEF RecordMissedOutcome
  <2>3. UNCHANGED <<now, lost>> /\ faults' \in Nat /\ lost' \in Nat
    BY <2>2 DEF RecordMissedOutcome, Fault, Base, RecurringTypeOK
  <2> QED BY <2>1, <2>3
<1>4. CASE p \in Replicas
  <2>1. Goto(p, "count") /\ UNCHANGED loc /\ "count" \in Statements
    BY <1>4 DEF RecordMissedOutcome, Statements
  <2> QED BY <1>1, <1>2, <1>3, <1>4, <2>1, GoesOnBase
<1>5. CASE p \notin Replicas
  <2>1. Finish(p)
    BY <1>5 DEF RecordMissedOutcome
  <2> QED BY <1>1, <1>2, <1>3, <2>1, EndsBase
<1> QED BY <1>4, <1>5

LEMMA IncrementBase ==
    ASSUME Base, NEW p \in Procs, IncrementInstance(p)
    PROVE  /\ Base' /\ UNCHANGED tasks
           /\ sched'.count + lost' = sched.count + lost + 1
<1> DEFINE row == [sched EXCEPT !.count = @ + 1, !.last = now, !.next = NextAfter(p)]
<1>0. /\ sched \in ScheduleRow /\ NextAfter(p) \in Times /\ now \in Times
      /\ sched.count + 1 \in Nat /\ lost \in Nat /\ faults \in Nat
  BY DEF Base, RecurringTypeOK, NextAfter, Local, ScheduleRow, Times
<1>1. row \in ScheduleRow /\ row.last = now /\ row.count = sched.count + 1
  BY <1>0 DEF ScheduleRow
<1>2. \/ Stored(row) /\ lost' = lost + (IF sched.deleted THEN 1 ELSE 0)
      \/ UNCHANGED sched /\ lost' = lost + 1
  BY DEF IncrementInstance
<1>3. /\ UNCHANGED <<tasks, now>> /\ faults' \in Nat
      /\ loc[p].task \in 1..Len(tasks) /\ tasks \in Seq(Instance)
  BY <1>0 DEF IncrementInstance, Base, LocalsKnown, RecurringTypeOK, Fault
<1> HIDE DEF row
<1>4. /\ sched' \in ScheduleRow /\ (sched'.last = sched.last \/ sched'.last = now)
      /\ lost' \in Nat /\ sched'.count + lost' = sched.count + lost + 1
  <2>1. sched.count \in Nat
    BY <1>0 DEF ScheduleRow
  <2> QED BY <1>0, <1>1, <1>2, <2>1 DEF Stored
<1>5. CASE p \in Replicas
  <2>1. Finish(p)
    BY <1>5 DEF IncrementInstance
  <2> QED BY <1>3, <1>4, <2>1, EndsBase
<1>6. CASE p \notin Replicas
  <2>1. Goto(p, "supersede") /\ UNCHANGED loc /\ "supersede" \in Statements
    BY <1>6 DEF IncrementInstance, Statements
  <2> QED BY <1>3, <1>4, <2>1, GoesOnBase
<1> QED BY <1>3, <1>4, <1>5, <1>6

LEMMA ReadBase ==
    ASSUME Base, NEW c \in Callers, TriggerNow(c) \/ UpdateRead(c)
    PROVE  Base'
<1> USE DEF Base, TriggerNow, UpdateRead
<1>1. PICK st \in {"create", "update"} : pc' = [pc EXCEPT ![c] = st]
  BY DEF Goto
<1>2. /\ UNCHANGED <<sched, tasks, now, faults, lost>> /\ c \in Procs
      /\ loc' = [loc EXCEPT ![c] = Fresh(sched)] /\ Fresh(sched) \in Local
  BY FreshTyped DEF RecurringTypeOK, Procs
<1>3. RecurringTypeOK'
  BY <1>1, <1>2 DEF RecurringTypeOK, Statements
<1>4. LocalsKnown'
  BY <1>1, <1>2 DEF RecurringTypeOK, LocalsKnown, Fresh
<1> QED BY <1>3, <1>4

LEMMA BoardBase ==
    ASSUME Base, Board
    PROVE  Base' /\ Len(tasks') = Len(tasks) /\ UNCHANGED <<sched, pc, loc, now, faults, lost>>
<1> USE DEF Base
<1>1. UNCHANGED <<sched, pc, loc, now, faults, lost>>
  BY DEF Board, WorkOn, MoveInstance
<1>2. PICK i \in 1..Len(tasks) : WorkOn(i) \/ MoveInstance(i)
  BY DEF Board
<1>3. CASE WorkOn(i)
  BY <1>1, <1>3, WorkedWritten DEF WorkOn, RecurringTypeOK, LocalsKnown
<1>4. CASE MoveInstance(i)
  <2>1. PICK status \in IF tasks[i].status = "open" THEN {"done"} ELSE Reopened :
          tasks' = [tasks EXCEPT ![i].status = status]
    BY <1>4 DEF MoveInstance
  <2>4. Reopened \subseteq {"open"}
    BY RecurringAssumption
  <2>5. status \in {"done"} \cup Reopened
    BY <2>1
  <2>3. status \in {"open", "done", "cancelled"} /\ tasks \in Seq(Instance)
    BY <2>4, <2>5 DEF RecurringTypeOK
  <2>2. tasks' \in Seq(Instance) /\ Len(tasks') = Len(tasks)
    <3>1. i \in 1..Len(tasks)
      BY <1>2
    <3>2. /\ [tasks EXCEPT ![i].status = status] \in Seq(Instance)
          /\ Len([tasks EXCEPT ![i].status = status]) = Len(tasks)
      BY <2>3, <3>1, StatusWritten, ZenonT(40)
    <3> QED BY <2>1, <3>2
  <2> QED BY <1>1, <2>2 DEF RecurringTypeOK, LocalsKnown
<1> QED BY <1>1, <1>2, <1>3, <1>4

LEMMA DeleteBase ==
    ASSUME Base, Delete
    PROVE  Base' /\ UNCHANGED <<tasks, pc, lost>> /\ sched'.count = sched.count
<1>1. sched' = [sched EXCEPT !.deleted = TRUE] /\ sched \in ScheduleRow
  BY DEF Base, Delete, RecurringTypeOK
<1>2. sched' \in ScheduleRow /\ sched'.last = sched.last /\ sched'.count = sched.count
  BY <1>1 DEF ScheduleRow
<1> QED BY <1>2 DEF Base, Delete, RecurringTypeOK, LocalsKnown

LEMMA AbandonBase ==
    ASSUME Base, NEW p \in Procs, Abandon(p)
    PROVE  Base'
<1>1. /\ Finish(p) /\ UNCHANGED <<sched, tasks, now>> /\ faults' \in Nat /\ lost' \in Nat
      /\ sched \in ScheduleRow /\ tasks \in Seq(Instance)
  BY DEF Abandon, Base, RecurringTypeOK, Fault
<1> QED BY <1>1, EndsBase

LEMMA TickBase ==
    ASSUME Base, Tick
    PROVE  Base' /\ UNCHANGED <<sched, tasks, pc, lost>>
<1>1. /\ now' = now + 1 /\ UNCHANGED <<sched, tasks, pc, loc, faults, lost>> /\ now \in Nat
      /\ sched.last \in Times
  BY DEF Tick, Base, RecurringTypeOK, ScheduleRow
<1> QED BY <1>1 DEF Base, RecurringTypeOK, LocalsKnown, Times

-----------------------------------------------------------------------------
(* Every instance is accounted for.                                         *)

InFlight == {p \in Procs : Uncounted(p)}

LEMMA InFlightFinite == IsFiniteSet(InFlight) /\ Cardinality(InFlight) \in Nat
<1>1. IsFiniteSet(Procs)
  BY RecurringAssumption, FS_Union DEF Procs
<1>2. InFlight \subseteq Procs
  BY DEF InFlight
<1>3. IsFiniteSet(InFlight)
  BY <1>1, <1>2, FS_Subset
<1> QED BY <1>3, FS_CardinalityType

\* The runs in flight after a step of p that goes to statement st.
LEMMA InFlightAfter ==
    ASSUME pc \in [Procs -> Statements], NEW p \in Procs, NEW st,
           pc' = [pc EXCEPT ![p] = st]
    PROVE  InFlight' = IF st \in BeforeCount(p) THEN InFlight \cup {p} ELSE InFlight \ {p}
BY DEF InFlight, Uncounted

\* A step that neither creates, counts nor loses an instance.
LEMMA KeepsAccount ==
    ASSUME RecurringInv, Base', NEW p \in Procs, NEW st, pc' = [pc EXCEPT ![p] = st],
           Uncounted(p) <=> st \in BeforeCount(p),
           Len(tasks') = Len(tasks), sched'.count = sched.count, lost' = lost
    PROVE  InstancesAccounted'
<1>1. InFlight' = InFlight
  BY InFlightAfter DEF InFlight, RecurringInv, RecurringTypeOK
<1> QED BY <1>1 DEF RecurringInv, InstancesAccounted, InFlight

LEMMA CreateAccount ==
    ASSUME RecurringInv, NEW p \in Procs, CreateInstance(p)
    PROVE  RecurringInv'
<1>1. Base' /\ Len(tasks') = Len(tasks) + 1
  BY CreateBase DEF RecurringInv, Base
<1>2. InFlight' = InFlight \cup {p} /\ p \notin InFlight
  <2>1. PICK st \in BeforeCount(p) : pc' = [pc EXCEPT ![p] = st]
    BY DEF CreateInstance, Goto, BeforeCount, Procs
  <2> QED BY <2>1, InFlightAfter DEF CreateInstance, InFlight, Uncounted, BeforeCount,
             RecurringInv, RecurringTypeOK
<1>3. Cardinality(InFlight') = Cardinality(InFlight) + 1
  BY <1>2, InFlightFinite, FS_AddElement
<1>4. UNCHANGED <<sched, lost>> /\ sched.count \in Nat /\ lost \in Nat
  BY DEF CreateInstance, RecurringInv, RecurringTypeOK, ScheduleRow
<1>5. InstancesAccounted'
  BY <1>1, <1>3, <1>4, InFlightFinite, SMTT(30) DEF RecurringInv, InstancesAccounted, InFlight
<1> QED BY <1>1, <1>5 DEF RecurringInv, Base

\* The instance of p leaves the account: counted, or lost.
LEMMA LeavesAccount ==
    ASSUME RecurringInv, Base', NEW p \in Procs, NEW st, pc' = [pc EXCEPT ![p] = st],
           Uncounted(p), st \notin BeforeCount(p),
           Len(tasks') = Len(tasks), sched'.count + lost' = sched.count + lost + 1
    PROVE  InstancesAccounted'
<1>1. InFlight' = InFlight \ {p} /\ p \in InFlight
  BY InFlightAfter DEF InFlight, RecurringInv, RecurringTypeOK
<1>2. Cardinality(InFlight') = Cardinality(InFlight) - 1
  BY <1>1, InFlightFinite, FS_RemoveElement
<1>3. /\ sched.count \in Nat /\ lost \in Nat /\ sched'.count \in Nat /\ lost' \in Nat
  BY DEF RecurringInv, Base, RecurringTypeOK, ScheduleRow
<1>4. Len(tasks) = sched.count + lost + Cardinality(InFlight)
  BY DEF RecurringInv, InstancesAccounted, InFlight
<1> DEFINE n == Cardinality(InFlight)
           k == Cardinality(InFlight')
<1>5. n \in Nat /\ k = n - 1 /\ Len(tasks) = sched.count + lost + n
  BY <1>2, <1>4, InFlightFinite
<1> HIDE DEF n, k
<1>6. Len(tasks') = sched'.count + lost' + k
  <2> DEFINE c == sched'.count
             l == lost'
             a == sched.count
             b == lost
             x == Len(tasks)
             y == Len(tasks')
  <2>1. c \in Nat /\ l \in Nat /\ a \in Nat /\ b \in Nat
    BY <1>3
  <2>2. c + l = a + b + 1 /\ y = x /\ x = a + b + n
    BY <1>5
  <2> HIDE DEF c, l, a, b, x, y
  <2>3. y = c + l + k
    BY <1>5, <2>1, <2>2
  <2> QED BY <2>3 DEF c, l, y
<1> QED BY <1>6 DEF InstancesAccounted, InFlight, k

LEMMA IncrementAccount ==
    ASSUME RecurringInv, NEW p \in Procs, IncrementInstance(p)
    PROVE  RecurringInv'
<1>1. Base' /\ UNCHANGED tasks /\ sched'.count + lost' = sched.count + lost + 1
  BY IncrementBase DEF RecurringInv, Base
<1>2. PICK st \in {"idle", "supersede"} :
        pc' = [pc EXCEPT ![p] = st] /\ st \notin BeforeCount(p)
  <2>1. CASE p \in Replicas
    <3>1. pc' = [pc EXCEPT ![p] = "idle"] /\ "idle" \notin BeforeCount(p)
      BY <2>1 DEF IncrementInstance, Finish, Goto, BeforeCount
    <3> QED BY <3>1
  <2>2. CASE p \notin Replicas
    <3>1. pc' = [pc EXCEPT ![p] = "supersede"] /\ "supersede" \notin BeforeCount(p)
      BY <2>2 DEF IncrementInstance, Goto, BeforeCount, Procs
    <3> QED BY <3>1
  <2> QED BY <2>1, <2>2
<1>3. Uncounted(p)
  BY DEF IncrementInstance, Uncounted, BeforeCount
<1> QED BY <1>1, <1>2, <1>3, LeavesAccount DEF RecurringInv, Base

LEMMA AbandonAccount ==
    ASSUME RecurringInv, NEW p \in Procs, Abandon(p)
    PROVE  RecurringInv'
<1>1. Base' /\ UNCHANGED <<tasks, sched>>
  BY AbandonBase DEF RecurringInv, Base, Abandon
<1>2. PICK st \in {"idle", "answered"} :
        pc' = [pc EXCEPT ![p] = st] /\ st \notin BeforeCount(p)
  <2>1. \A st \in {"idle", "answered"} : st \notin BeforeCount(p)
    BY DEF BeforeCount
  <2> QED BY <2>1 DEF Abandon, Finish, Goto
<1>3. lost' = (IF Uncounted(p) THEN lost + 1 ELSE lost) /\ lost \in Nat /\ sched.count \in Nat
  BY DEF Abandon, RecurringInv, RecurringTypeOK, ScheduleRow
<1>4. CASE Uncounted(p)
  <2>1. Len(tasks') = Len(tasks) /\ sched'.count + lost' = sched.count + lost + 1
    BY <1>1, <1>3, <1>4
  <2> QED BY <1>1, <1>2, <1>4, <2>1, LeavesAccount DEF RecurringInv, Base
<1>5. CASE ~Uncounted(p)
  BY <1>1, <1>2, <1>3, <1>5, KeepsAccount DEF RecurringInv, Base
<1> QED BY <1>4, <1>5

\* The other statements of a run leave the account alone.
LEMMA StatementAccount ==
    ASSUME RecurringInv, NEW p \in Procs,
           \/ p \in Replicas /\ (\/ FindDue(p) \/ Look(p) \/ RepeatOpenInstance(p)
                                 \/ AdvanceNextRun(p) \/ RecordFailure(p) \/ Quarantine(p)
                                 \/ ResetConsecutiveFailures(p))
           \/ p \in Callers /\ (TriggerNow(p) \/ UpdateRead(p) \/ Update(p))
           \/ CreateFails(p) \/ Supersede(p) \/ CloseInstance(p) \/ RecordMissedOutcome(p)
    PROVE  RecurringInv'
<1> USE DEF Finish, Goto, BeforeCount, Uncounted
<1>0. /\ RecurringTypeOK /\ LocalsKnown /\ Base /\ (p \in Replicas <=> p \notin Callers)
      /\ pc \in [Procs -> Statements] /\ p \in Procs
  BY RecurringAssumption DEF RecurringInv, Base, RecurringTypeOK, Procs
<1>1. ASSUME Base', Len(tasks') = Len(tasks), sched'.count = sched.count, lost' = lost,
             \E st : pc' = [pc EXCEPT ![p] = st] /\ (Uncounted(p) <=> st \in BeforeCount(p))
      PROVE  RecurringInv'
  BY <1>1, KeepsAccount DEF RecurringInv, Base
<1>2. CASE p \in Replicas /\ (FindDue(p) \/ Look(p) \/ RepeatOpenInstance(p))
  <2>1. Base' /\ Len(tasks') = Len(tasks)
    BY <1>0, <1>2, FindDueBase, LookBase, RepeatBase, NotedWritten
       DEF FindDue, Look, RepeatOpenInstance, RecurringTypeOK, LocalsKnown
  <2>2. UNCHANGED <<sched, lost>> /\ ~Uncounted(p)
    BY <1>0, <1>2 DEF FindDue, Look, RepeatOpenInstance
  <2>3. PICK st \in {"idle", "look", "repeat", "advance", "create"} : pc' = [pc EXCEPT ![p] = st]
    BY <1>2 DEF FindDue, Look, RepeatOpenInstance
  <2>4. st \notin BeforeCount(p)
    OBVIOUS
  <2> QED BY <1>1, <2>1, <2>2, <2>3, <2>4
<1>3. CASE p \in Replicas /\ (\/ AdvanceNextRun(p) \/ RecordFailure(p) \/ Quarantine(p)
                               \/ ResetConsecutiveFailures(p))
  <2>1. Base' /\ UNCHANGED <<tasks, lost>>
    BY <1>0, <1>3, AdvanceBase, RecordFailureBase, QuarantineBase, ResetBase
       DEF AdvanceNextRun, RecordFailure, Quarantine, ResetConsecutiveFailures
  <2>2. sched'.count = sched.count
    BY <1>3, <1>0 DEF AdvanceNextRun, RecordFailure, Quarantine, ResetConsecutiveFailures,
       Stored, RecurringTypeOK, ScheduleRow
  <2>3. \E st : pc' = [pc EXCEPT ![p] = st] /\ (Uncounted(p) <=> st \in BeforeCount(p))
    BY <1>0, <1>3 DEF AdvanceNextRun, RecordFailure, Quarantine, ResetConsecutiveFailures
  <2> QED BY <1>1, <2>1, <2>2, <2>3
<1>4. CASE p \in Callers /\ (TriggerNow(p) \/ UpdateRead(p) \/ Update(p))
  <2>1. Base' /\ UNCHANGED <<tasks, lost>>
    BY <1>0, <1>4, ReadBase, UpdateBase DEF TriggerNow, UpdateRead, Update
  <2>2. sched'.count = sched.count
    BY <1>4, <1>0 DEF TriggerNow, UpdateRead, Update, Stored, RecurringTypeOK, ScheduleRow
  <2>3. \E st : pc' = [pc EXCEPT ![p] = st] /\ (Uncounted(p) <=> st \in BeforeCount(p))
    BY <1>0, <1>4 DEF TriggerNow, UpdateRead, Update
  <2> QED BY <1>1, <2>1, <2>2, <2>3
<1>5. CASE CreateFails(p) \/ Supersede(p)
  <2>1. Base' /\ UNCHANGED <<sched, tasks, lost>>
    BY <1>0, <1>5, CreateFailsBase, SupersedeBase DEF CreateFails, Supersede
  <2>3. \E st : pc' = [pc EXCEPT ![p] = st] /\ (Uncounted(p) <=> st \in BeforeCount(p))
    BY <1>0, <1>5 DEF CreateFails, Supersede
  <2> QED BY <1>1, <2>1, <2>3
<1>6. CASE CloseInstance(p)
  <2>1. Base' /\ Len(tasks') = Len(tasks) /\ UNCHANGED <<sched, pc, lost>>
    BY <1>0, <1>6, CloseBase DEF CloseInstance
  <2>2. pc' = [pc EXCEPT ![p] = pc[p]]
    BY <1>0, <2>1
  <2> QED BY <1>1, <2>1, <2>2
<1>7. CASE RecordMissedOutcome(p)
  <2>1. Base' /\ Len(tasks') = Len(tasks) /\ UNCHANGED lost /\ sched'.count = sched.count
    BY <1>0, <1>7, MissedBase
  <2>3. \E st : pc' = [pc EXCEPT ![p] = st] /\ (Uncounted(p) <=> st \in BeforeCount(p))
    BY <1>0, <1>7 DEF RecordMissedOutcome
  <2> QED BY <1>1, <2>1, <2>3
<1> QED BY <1>2, <1>3, <1>4, <1>5, <1>6, <1>7

-----------------------------------------------------------------------------
(* The invariant.                                                           *)

LEMMA InitInv == Init => RecurringInv
<1> SUFFICES ASSUME Init PROVE RecurringInv
  OBVIOUS
<1>1. PICK max \in Limits, ends \in Ends, startsAt \in 0..Period :
         sched = [active |-> TRUE, deleted |-> FALSE,
                  next |-> ComputeNextRun(startsAt), last |-> None,
                  count |-> 0, fails |-> 0, missed |-> 0,
                  max |-> max, ends |-> ends]
  BY DEF Init
<1>2. sched \in ScheduleRow
  BY <1>1, NextRunAhead, RecurringAssumption DEF ScheduleRow, Times
<1>3. tasks \in Seq(Instance) /\ Len(tasks) = 0
  BY EmptySeq DEF Init
<1>4. RecurringTypeOK
  BY <1>2, <1>3, UnreadTyped, RecurringAssumption DEF Init, RecurringTypeOK, Statements
<1>5. LocalsKnown
  BY <1>1 DEF Init, LocalsKnown, Unread, Fresh
<1>6. InFlight = {}
  BY DEF Init, InFlight, Uncounted, BeforeCount
<1>7. InstancesAccounted
  <2>1. Cardinality(InFlight) = 0
    BY <1>6, FS_EmptySet
  <2> QED BY <1>1, <1>3, <2>1 DEF Init, InstancesAccounted, InFlight
<1> QED BY <1>4, <1>5, <1>7 DEF RecurringInv

LEMMA NextInv == RecurringInv /\ [Next]_vars => RecurringInv'
<1> SUFFICES ASSUME RecurringInv, [Next]_vars PROVE RecurringInv'
  OBVIOUS
<1>0. Base /\ pc \in [Procs -> Statements]
  BY DEF RecurringInv, Base, RecurringTypeOK
<1>1. ASSUME NEW r \in Replicas, RunDue(r) PROVE RecurringInv'
  <2>1. r \in Procs
    BY DEF Procs
  <2> QED BY <1>1, <2>1, StatementAccount, CreateAccount, IncrementAccount DEF RunDue
<1>2. ASSUME NEW c \in Callers, Request(c) PROVE RecurringInv'
  <2>1. c \in Procs
    BY DEF Procs
  <2> QED BY <1>2, <2>1, StatementAccount, CreateAccount, IncrementAccount DEF Request
<1>3. ASSUME NEW p \in Procs, Abandon(p) PROVE RecurringInv'
  BY <1>3, AbandonAccount
<1>4. CASE Board
  BY <1>0, <1>4, BoardBase DEF RecurringInv, Base, InstancesAccounted, Uncounted
<1>5. CASE Delete
  BY <1>0, <1>5, DeleteBase DEF RecurringInv, Base, InstancesAccounted, Uncounted
<1>6. CASE Tick
  BY <1>0, <1>6, TickBase DEF RecurringInv, Base, InstancesAccounted, Uncounted
<1>7. CASE UNCHANGED vars
  BY <1>7 DEF vars, RecurringInv, RecurringTypeOK, LocalsKnown, InstancesAccounted, Uncounted
<1> QED BY <1>1, <1>2, <1>3, <1>4, <1>5, <1>6, <1>7 DEF Next

\* The row, the runs in flight and the instances agree: what a run remembers
\* exists, and every instance is counted, about to be, or was lost by a
\* failure, for any number of replicas and requests.
THEOREM RecurringInvariant == Spec => []RecurringInv
BY InitInv, NextInv, PTL DEF Spec

-----------------------------------------------------------------------------
(* How a schedule can be stranded.                                          *)

\* A step that keeps the columns FindDue reads strands nothing.
LEMMA SameColumns ==
    ASSUME now' = now, ~Stranded, Stranded',
           /\ sched'.active = sched.active /\ sched'.deleted = sched.deleted
           /\ sched'.next = sched.next /\ sched'.last = sched.last
    PROVE  FALSE
BY DEF Stranded

\* A run that writes the occurrence it computed, still ahead, strands nothing.
LEMMA AheadIsNotStranded ==
    ASSUME RecurringInv, NEW r \in Replicas, UNCHANGED now, Stranded',
           sched'.next = loc[r].next, pc[r] \in {"advance", "failed", "count"},
           pc'[r] # pc[r]
    PROVE  WriteBack
BY DEF Stranded, WriteBack

LEMMA RunStrands ==
    ASSUME RecurringInv, NEW r \in Replicas, RunDue(r), ~Stranded, Stranded'
    PROVE  WriteBack
<1>0. sched \in ScheduleRow /\ r \in Procs /\ pc \in [Procs -> Statements] /\ now' = now
  BY DEF RecurringInv, RecurringTypeOK, Procs, RunDue, FindDue, Look, RepeatOpenInstance,
     AdvanceNextRun, CreateInstance, CreateFails, RecordFailure, Quarantine,
     ResetConsecutiveFailures, Supersede, CloseInstance, RecordMissedOutcome, IncrementInstance
<1>1. sched' # sched
  BY <1>0, SameColumns
<1>2. CASE AdvanceNextRun(r)
  <2>1. sched'.next = loc[r].next
    BY <1>0, <1>1, <1>2 DEF AdvanceNextRun, Stored, ScheduleRow
  <2> QED BY <1>0, <1>2, <2>1, AheadIsNotStranded DEF AdvanceNextRun, Finish, Goto
<1>3. CASE RecordFailure(r)
  <2>1. sched'.next = loc[r].next
    BY <1>0, <1>1, <1>3 DEF RecordFailure, Stored, ScheduleRow
  <2>2. pc[r] = "failed" /\ pc'[r] # "failed"
    BY <1>0, <1>3 DEF RecordFailure, Finish, Goto
  <2> QED BY <1>0, <2>1, <2>2, AheadIsNotStranded
<1>4. CASE IncrementInstance(r)
  <2>1. sched'.next = loc[r].next
    BY <1>0, <1>1, <1>4 DEF IncrementInstance, Stored, ScheduleRow, NextAfter
  <2>2. pc[r] = "count" /\ pc'[r] # "count"
    BY <1>0, <1>4 DEF IncrementInstance, Finish, Goto
  <2> QED BY <1>0, <2>1, <2>2, AheadIsNotStranded
<1>5. CASE Quarantine(r)
  BY <1>0, <1>1, <1>5 DEF Quarantine, Stored, ScheduleRow, Stranded
<1>6. CASE ResetConsecutiveFailures(r)
  BY <1>0, <1>1, <1>6, SameColumns DEF ResetConsecutiveFailures, Stored, ScheduleRow
<1>7. CASE RecordMissedOutcome(r)
  BY <1>0, <1>1, <1>7, SameColumns DEF RecordMissedOutcome, Stored, ScheduleRow
<1> QED BY <1>1, <1>2, <1>3, <1>4, <1>5, <1>6, <1>7
      DEF RunDue, FindDue, Look, RepeatOpenInstance, CreateInstance, CreateFails,
          Supersede, CloseInstance

LEMMA RequestStrands ==
    ASSUME RecurringInv, NEW c \in Callers, Request(c), ~Stranded, Stranded'
    PROVE  WriteBack
<1>0. sched \in ScheduleRow /\ c \in Procs /\ pc \in [Procs -> Statements] /\ now' = now
  BY DEF RecurringInv, RecurringTypeOK, Procs, Request, TriggerNow, CreateInstance, CreateFails,
     IncrementInstance, Supersede, CloseInstance, RecordMissedOutcome, UpdateRead, Update
<1>1. sched' # sched
  BY <1>0, SameColumns
<1>2. CASE IncrementInstance(c) \/ Update(c)
  <2>1. pc[c] \in {"count", "update"} /\ pc'[c] # pc[c]
    BY <1>0, <1>2 DEF IncrementInstance, Update, Finish, Goto
  <2> QED BY <2>1 DEF WriteBack
<1>3. CASE RecordMissedOutcome(c)
  BY <1>0, <1>1, <1>3, SameColumns DEF RecordMissedOutcome, Stored, ScheduleRow
<1> QED BY <1>1, <1>2, <1>3
      DEF Request, TriggerNow, CreateInstance, CreateFails, Supersede, CloseInstance, UpdateRead

LEMMA TickStrandsNothing ==
    ASSUME RecurringInv, Tick, Stranded'
    PROVE  Stranded
<1>1. now \in Nat /\ now' = now + 1 /\ UNCHANGED sched /\ sched \in ScheduleRow
  BY DEF RecurringInv, RecurringTypeOK, Tick
<1>2. sched.next \in Nat /\ sched.last \in Nat /\ sched.last <= now /\ sched.next <= sched.last
  BY <1>1 DEF Stranded, ScheduleRow, Times, RecurringInv, LocalsKnown
<1> QED BY <1>1, <1>2 DEF Stranded

LEMMA StepStrands == RecurringInv /\ [Next]_vars => (~Stranded /\ Stranded' => WriteBack)
<1> SUFFICES ASSUME RecurringInv, [Next]_vars, ~Stranded, Stranded' PROVE WriteBack
  OBVIOUS
<1>1. CASE Board \/ \E p \in Procs : Abandon(p)
  BY <1>1, SameColumns DEF Board, WorkOn, MoveInstance, Abandon
<1>2. CASE Delete
  BY <1>2 DEF Delete, Stranded, RecurringInv, RecurringTypeOK, ScheduleRow
<1>3. CASE UNCHANGED vars
  BY <1>3, SameColumns DEF vars
<1> QED BY <1>1, <1>2, <1>3, RunStrands, RequestStrands, TickStrandsNothing DEF Next

\* The scheduler silences a schedule only by a run that outlasts the
\* occurrence it scheduled; otherwise only a trigger or an edit that writes
\* next_run_at back can.
THEOREM StrandedByWriteBack == Spec => StrandedOnlyByWriteBack
<1>1. RecurringInv /\ [Next]_vars => [~Stranded /\ Stranded' => WriteBack]_vars
  BY StepStrands
<1> QED BY <1>1, RecurringInvariant, PTL DEF Spec, StrandedOnlyByWriteBack
=============================================================================
