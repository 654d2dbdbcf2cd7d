------------------------- MODULE RecurringSchedule -------------------------
(***************************************************************************)
(* One recurring schedule: the scheduler of each API replica, manual       *)
(* triggers and edits over one recurring_schedules row and the task        *)
(* instances it creates.                                                   *)
(*                                                                         *)
(* A run works on the row it read: FindDue commits, and so drops its row   *)
(* locks, before the schedules it returned are run, and every statement    *)
(* after it is a transaction of its own.  Each statement is therefore one  *)
(* step, and any step may be the last: the run's 30 s context expires, the *)
(* process dies or a statement fails.                                      *)
(*                                                                         *)
(* Time is counted in ticks with a cron occurrence every Period of them.   *)
(* An instance is named by the order of creation.  What is said in a       *)
(* comment does not matter here except that a comment of any author counts *)
(* as work when the instance is superseded.                                *)
(***************************************************************************)
EXTENDS Integers, Sequences, FiniteSets

CONSTANTS
    Replicas,   \* API processes, each with its scheduler loop
    Callers,    \* requests, each one TriggerNow or one Update
    Period,     \* ticks between two cron occurrences
    Limits,     \* max_instances values, None for no limit
    Ends,       \* ends_at values, None for no end
    Statuses,   \* which of done and cancelled the project has a status for
    Reopened,   \* {"open"} if closed instances are reopened, {} if not
    BrokenCron, \* whether computeNextRun may fail at run time
    MaxConsecutiveFailures, MaxConsecutiveMissed,
    MaxFaults,  \* bound on failed statements and abandoned runs
    MaxTime,    \* bound on the clock
    None

ASSUME RecurringAssumption ==
    /\ Period \in Nat \ {0}
    /\ None \notin Nat
    /\ Limits \subseteq Nat \cup {None} /\ Ends \subseteq Nat \cup {None}
    /\ Statuses \subseteq {"done", "cancelled"}
    /\ Reopened \subseteq {"open"}
    /\ BrokenCron \in BOOLEAN
    /\ MaxConsecutiveFailures \in Nat /\ MaxConsecutiveMissed \in Nat
    /\ MaxFaults \in Nat /\ MaxTime \in Nat
    /\ Replicas \cap Callers = {}
    /\ IsFiniteSet(Replicas) /\ IsFiniteSet(Callers)

VARIABLES
    sched,  \* the recurring_schedules row
    tasks,  \* the instances, in order of creation
    pc,     \* the statement each run or request executes next
    loc,    \* what it has read so far
    now,
    faults,
    lost    \* history: instances whose count was never written

vars == <<sched, tasks, pc, loc, now, faults, lost>>

Procs == Replicas \cup Callers
Times == Nat \cup {None}

\* The columns of the row that runs read or write.
ScheduleRow ==
    [active : BOOLEAN, deleted : BOOLEAN, next : Times, last : Times,
     count : Nat, fails : Nat, missed : Nat, max : Times, ends : Times]

\* An instance: whether someone worked on it, and whether the scheduler has
\* commented on it.
Instance ==
    [number : Nat, status : {"open", "done", "cancelled"},
     worked : BOOLEAN, noted : BOOLEAN]

\* What a run holds between statements.
Local ==
    [row : ScheduleRow, next : Times, task : Nat, list : SUBSET Nat,
     worked : BOOLEAN, missed : BOOLEAN]

Statements == {"idle", "look", "repeat", "advance", "create", "failed",
               "quarantine", "reset", "supersede", "closing", "count",
               "update", "answered"}

\* computeNextRun: the first occurrence strictly after t.
ComputeNextRun(t) == t + Period - (t % Period)

NextRuns == {ComputeNextRun(now)} \cup (IF BrokenCron THEN {None} ELSE {})

\* FindDue's condition.
Due(row) ==
    /\ row.active /\ ~row.deleted
    /\ row.next # None /\ row.next <= now
    /\ row.last # None => row.last < row.next

\* A run skips the schedule: past its end or at its limit.
Exhausted(row) ==
    \/ row.ends # None /\ now > row.ends
    \/ row.max # None /\ row.count >= row.max

OpenInstances == {i \in 1..Len(tasks) : tasks[i].status = "open"}

Oldest(S) == CHOOSE i \in S : \A j \in S : i <= j

\* SQL updates carry WHERE deleted_at IS NULL.
Stored(row) == sched' = IF sched.deleted THEN sched ELSE row

Goto(p, next) == pc' = [pc EXCEPT ![p] = next]

\* What a run that reads row knows before it has done anything.
Fresh(row) == [row |-> row, next |-> None, task |-> 0, list |-> {},
               worked |-> FALSE, missed |-> FALSE]

\* Nothing is known between two runs.
Unread == Fresh([active |-> FALSE, deleted |-> FALSE, next |-> None, last |-> None,
                 count |-> 0, fails |-> 0, missed |-> 0, max |-> None, ends |-> None])

\* The run ends: a scheduler waits for its next tick, a request is answered.
Finish(p) ==
    /\ Goto(p, IF p \in Replicas THEN "idle" ELSE "answered")
    /\ loc' = [loc EXCEPT ![p] = Unread]

\* The statements between an instance's creation and its count.
BeforeCount(p) ==
    IF p \in Callers THEN {"count"} ELSE {"reset", "supersede", "closing", "count"}

Uncounted(p) == pc[p] \in BeforeCount(p)

Fault == faults < MaxFaults /\ faults' = faults + 1

-----------------------------------------------------------------------------
\* Create: the first occurrence is after starts_at, which may be in the past.
Init ==
    /\ \E max \in Limits, ends \in Ends, startsAt \in 0..Period :
         sched = [active |-> TRUE, deleted |-> FALSE,
                  next |-> ComputeNextRun(startsAt), last |-> None,
                  count |-> 0, fails |-> 0, missed |-> 0,
                  max |-> max, ends |-> ends]
    /\ tasks = <<>>
    /\ pc = [p \in Procs |-> "idle"]
    /\ loc = [p \in Procs |-> Unread]
    /\ now = Period
    /\ faults = 0
    /\ lost = 0

\* RunDue selects the row; its lock ends with the select.
FindDue(r) ==
    /\ r \in Replicas /\ pc[r] = "idle"
    /\ Due(sched)
    /\ Goto(r, "look")
    /\ loc' = [loc EXCEPT ![r] = Fresh(sched)]
    /\ UNCHANGED <<sched, tasks, now, faults, lost>>

\* The head of runOneSchedule: limits on the row as read, the next
\* occurrence after now, and an open instance to repeat onto.
Look(r) ==
    /\ pc[r] = "look"
    /\ UNCHANGED <<sched, tasks, now, lost>>
    /\ IF Exhausted(loc[r].row)
       THEN Finish(r) /\ UNCHANGED faults
       ELSE \E next \in NextRuns :
              \/ /\ OpenInstances # {}
                 /\ Goto(r, "repeat")
                 /\ loc' = [loc EXCEPT ![r] = [@ EXCEPT !.next = next,
                                                        !.task = Oldest(OpenInstances)]]
                 /\ UNCHANGED faults
              \/ /\ OpenInstances = {}
                 /\ Goto(r, "create")
                 /\ loc' = [loc EXCEPT ![r].next = next]
                 /\ UNCHANGED faults
              \/ /\ Fault                \* the lookup failed: create anyway
                 /\ Goto(r, "create")
                 /\ loc' = [loc EXCEPT ![r].next = next]

\* RepeatOpenInstance: a comment on the open instance, then its updated_at;
\* the second statement failing ends the run without advancing the row.
RepeatOpenInstance(r) ==
    /\ pc[r] = "repeat"
    /\ tasks' = [tasks EXCEPT ![loc[r].task].noted = TRUE]
    /\ \/ Goto(r, "advance") /\ UNCHANGED <<loc, faults>>
       \/ Finish(r) /\ Fault
    /\ UNCHANGED <<sched, now, lost>>

\* Mutant: the repeat path counts an instance it did not create.
AdvanceCounting(r) ==
    /\ pc[r] = "advance"
    /\ Stored([sched EXCEPT !.next = loc[r].next, !.count = @ + 1])
    /\ Finish(r)
    /\ UNCHANGED <<tasks, now, faults, lost>>

\* Mutant: the repeat path leaves next_run_at where it is.
AdvanceForgotten(r) ==
    /\ pc[r] = "advance"
    /\ Finish(r)
    /\ UNCHANGED <<sched, tasks, now, faults, lost>>

AdvanceNextRun(r) ==
    /\ pc[r] = "advance"
    /\ Stored([sched EXCEPT !.next = loc[r].next])
    /\ Finish(r)
    /\ UNCHANGED <<tasks, now, faults, lost>>

\* createInstance, numbered by the count that was read.
CreateInstance(p) ==
    /\ pc[p] = "create"
    /\ tasks' = Append(tasks, [number |-> loc[p].row.count + 1, status |-> "open",
                               worked |-> FALSE, noted |-> FALSE])
    /\ loc' = [loc EXCEPT ![p].task = Len(tasks) + 1]
    /\ Goto(p, IF p \in Callers THEN "count"
               ELSE IF loc[p].row.fails > 0 THEN "reset" ELSE "supersede")
    /\ UNCHANGED <<sched, now, faults, lost>>

\* createInstance fails: a template, a missing status, a refused insert.
CreateFails(p) ==
    /\ pc[p] = "create"
    /\ IF p \in Replicas THEN Goto(p, "failed") /\ UNCHANGED loc ELSE Finish(p)
    /\ UNCHANGED <<sched, tasks, now, faults, lost>>

\* RecordFailure; the threshold is tested on the count that was read.
RecordFailure(r) ==
    /\ pc[r] = "failed"
    /\ \/ /\ Stored([sched EXCEPT !.fails = @ + 1, !.next = loc[r].next])
          /\ UNCHANGED faults
       \/ UNCHANGED sched /\ Fault
    /\ IF loc[r].row.fails + 1 >= MaxConsecutiveFailures
       THEN Goto(r, "quarantine") /\ UNCHANGED loc ELSE Finish(r)
    /\ UNCHANGED <<tasks, now, lost>>

Quarantine(r) ==
    /\ pc[r] = "quarantine"
    /\ Stored([sched EXCEPT !.active = FALSE])
    /\ Finish(r)
    /\ UNCHANGED <<tasks, now, faults, lost>>

ResetConsecutiveFailures(r) ==
    /\ pc[r] = "reset"
    /\ \/ Stored([sched EXCEPT !.fails = 0]) /\ UNCHANGED faults
       \/ UNCHANGED sched /\ Fault
    /\ Goto(r, "supersede")
    /\ UNCHANGED <<tasks, loc, now, lost>>

\* SupersedeRecurringInstances lists the other open instances; it closes
\* none when the list cannot be read or the project has no done status.
Supersede(p) ==
    /\ pc[p] = "supersede"
    /\ \/ /\ loc' = [loc EXCEPT ![p].list = IF "done" \in Statuses
                                            THEN OpenInstances \ {loc[p].task}
                                            ELSE {}]
          /\ UNCHANGED faults
       \/ UNCHANGED loc /\ Fault
    /\ Goto(p, "closing")
    /\ UNCHANGED <<sched, tasks, now, lost>>

\* instanceHadRealWork: any single comment counts.
HadRealWork(t) == t.worked \/ t.noted

\* The status a superseded instance is moved to.
ClosesAs(t) ==
    IF HadRealWork(t) \/ "cancelled" \notin Statuses THEN "done" ELSE "cancelled"

\* Instance i leaves p's list, closed and tallied.
CloseAs(p, i, as) ==
    /\ tasks' = [tasks EXCEPT ![i].status = as]
    /\ loc' = [loc EXCEPT ![p] = [@ EXCEPT !.list = loc[p].list \ {i},
                                           !.worked = loc[p].worked \/ as = "done",
                                           !.missed = loc[p].missed \/ as = "cancelled"]]

\* One MoveTask of the supersede pass, over an instance listed as open: done
\* when its evidence cannot be read, passed over when the move is refused.
CloseInstance(p) ==
    /\ pc[p] = "closing" /\ loc[p].list # {}
    /\ LET i == Oldest(loc[p].list) IN
         \/ CloseAs(p, i, ClosesAs(tasks[i])) /\ UNCHANGED faults
         \/ CloseAs(p, i, "done") /\ Fault
         \/ loc' = [loc EXCEPT ![p].list = @ \ {i}] /\ UNCHANGED tasks /\ Fault
    /\ UNCHANGED <<sched, pc, now, lost>>

\* recordMissedOutcome, with its alert on the new instance.
RecordMissedOutcome(p) ==
    /\ pc[p] = "closing" /\ loc[p].list = {}
    /\ IF p \in Replicas THEN Goto(p, "count") /\ UNCHANGED loc ELSE Finish(p)
    /\ \/ /\ loc[p].worked
          /\ Stored([sched EXCEPT !.missed = IF loc[p].row.missed > 0 THEN 0 ELSE @])
          /\ UNCHANGED <<tasks, faults>>
       \/ /\ ~loc[p].worked /\ loc[p].missed
          /\ Stored([sched EXCEPT !.missed = @ + 1])
          /\ \/ /\ tasks' = IF ~sched.deleted /\ sched.missed + 1 >= MaxConsecutiveMissed
                            THEN [tasks EXCEPT ![loc[p].task].noted = TRUE] ELSE tasks
                /\ UNCHANGED faults
             \/ UNCHANGED tasks /\ Fault   \* the alert is not posted
       \/ /\ ~loc[p].worked /\ ~loc[p].missed
          /\ UNCHANGED <<sched, tasks, faults>>
       \/ /\ Fault
          /\ UNCHANGED <<sched, tasks>>
    /\ UNCHANGED <<now, lost>>

\* Mutant: a scheduled run writes back the occurrence it served.
NextAfterAsRead(p) == loc[p].row.next

\* The next_run_at IncrementInstance writes: a scheduled run's own, and the
\* one a trigger read at its start.
NextAfter(p) == IF p \in Replicas THEN loc[p].next ELSE loc[p].row.next

\* IncrementInstance.
IncrementInstance(p) ==
    /\ pc[p] = "count"
    /\ \/ /\ Stored([sched EXCEPT !.count = @ + 1, !.last = now,
                                  !.next = NextAfter(p)])
          /\ lost' = lost + (IF sched.deleted THEN 1 ELSE 0)
          /\ UNCHANGED faults
       \/ /\ UNCHANGED sched /\ lost' = lost + 1 /\ Fault
    /\ IF p \in Replicas THEN Finish(p) ELSE Goto(p, "supersede") /\ UNCHANGED loc
    /\ UNCHANGED <<tasks, now>>

-----------------------------------------------------------------------------
\* TriggerNow reads the row; it goes on with createInstance whatever the
\* limits, the end or the switch.
TriggerNow(c) ==
    /\ c \in Callers /\ pc[c] = "idle" /\ ~sched.deleted
    /\ Goto(c, "create")
    /\ loc' = [loc EXCEPT ![c] = Fresh(sched)]
    /\ UNCHANGED <<sched, tasks, now, faults, lost>>

\* Update reads the row it will write back.
UpdateRead(c) ==
    /\ c \in Callers /\ pc[c] = "idle" /\ ~sched.deleted
    /\ Goto(c, "update")
    /\ loc' = [loc EXCEPT ![c] = Fresh(sched)]
    /\ UNCHANGED <<sched, tasks, now, faults, lost>>

\* Every editable column is written, next_run_at as it was read unless the
\* cron or the time zone changed.
Update(c) ==
    /\ pc[c] = "update"
    /\ \E active \in {loc[c].row.active, TRUE, FALSE},
          max \in Limits \cup {loc[c].row.max}, ends \in Ends \cup {loc[c].row.ends},
          next \in {loc[c].row.next, ComputeNextRun(now)} :
         Stored([sched EXCEPT !.active = active, !.max = max, !.ends = ends,
                              !.next = next])
    /\ Finish(c)
    /\ UNCHANGED <<tasks, now, faults, lost>>

Delete ==
    /\ ~sched.deleted
    /\ sched' = [sched EXCEPT !.deleted = TRUE]
    /\ UNCHANGED <<tasks, pc, loc, now, faults, lost>>

\* The people and agents on the board: work on an instance, move it.
WorkOn(i) ==
    /\ i \in OpenInstances
    /\ tasks' = [tasks EXCEPT ![i].worked = TRUE]
    /\ UNCHANGED <<sched, pc, loc, now, faults, lost>>

\* An instance is closed, or reopened.
MoveInstance(i) ==
    /\ i \in 1..Len(tasks)
    /\ \E status \in IF tasks[i].status = "open" THEN {"done"} ELSE Reopened :
         tasks' = [tasks EXCEPT ![i].status = status]
    /\ UNCHANGED <<sched, pc, loc, now, faults, lost>>

\* The run's context expires or its process dies between two statements.
Abandon(p) ==
    /\ pc[p] \notin {"idle", "answered"}
    /\ Fault
    /\ Finish(p)
    /\ lost' = lost + (IF Uncounted(p) THEN 1 ELSE 0)
    /\ UNCHANGED <<sched, tasks, now>>

Tick ==
    /\ now < MaxTime
    /\ now' = now + 1
    /\ UNCHANGED <<sched, tasks, pc, loc, faults, lost>>

\* The statements of a scheduled run.
RunDue(r) ==
    \/ FindDue(r) \/ Look(r) \/ RepeatOpenInstance(r) \/ AdvanceNextRun(r)
    \/ CreateInstance(r) \/ CreateFails(r) \/ RecordFailure(r) \/ Quarantine(r)
    \/ ResetConsecutiveFailures(r) \/ Supersede(r) \/ CloseInstance(r)
    \/ RecordMissedOutcome(r) \/ IncrementInstance(r)

Request(c) ==
    \/ TriggerNow(c) \/ CreateInstance(c) \/ CreateFails(c) \/ IncrementInstance(c)
    \/ Supersede(c) \/ CloseInstance(c) \/ RecordMissedOutcome(c)
    \/ UpdateRead(c) \/ Update(c)

Board ==
    \/ \E i \in 1..Len(tasks) : WorkOn(i)
    \/ \E i \in 1..Len(tasks) : MoveInstance(i)

Next ==
    \/ \E r \in Replicas : RunDue(r)
    \/ \E c \in Callers : Request(c)
    \/ \E p \in Procs : Abandon(p)
    \/ Board
    \/ Delete
    \/ Tick

Spec == Init /\ [][Next]_vars

\* The ticker of every replica goes on, and a started run executes its
\* statements.
FairSpec == Spec /\ \A r \in Replicas : WF_vars(RunDue(r))

-----------------------------------------------------------------------------
RecurringTypeOK ==
    /\ sched \in ScheduleRow
    /\ tasks \in Seq(Instance)
    /\ pc \in [Procs -> Statements]
    /\ loc \in [Procs -> Local]
    /\ now \in Nat /\ faults \in Nat /\ lost \in Nat

\* Nothing a run remembers is ahead of the row or the clock: instances it
\* names exist, and the last trigger is in the past.
LocalsKnown ==
    /\ sched.last # None => sched.last <= now
    /\ \A p \in Procs :
         /\ pc[p] \in {"repeat", "advance", "reset", "supersede", "closing", "count"} =>
              loc[p].task \in 1..Len(tasks)
         /\ loc[p].list \subseteq 1..Len(tasks)
         /\ pc[p] \in {"look", "repeat", "advance", "failed", "quarantine", "reset"} =>
              p \in Replicas
         /\ pc[p] \in {"update", "answered"} => p \in Callers

\* instance_count is backed by instances: every instance is counted, about
\* to be counted, or its count was lost with the run that created it.
InstancesAccounted ==
    Len(tasks) = sched.count + lost + Cardinality({p \in Procs : Uncounted(p)})

RecurringInv == RecurringTypeOK /\ LocalsKnown /\ InstancesAccounted

\* An active schedule whose time has come and that FindDue will not select,
\* now or at any later tick: only another write of the row can revive it.
Stranded ==
    /\ sched.active /\ ~sched.deleted
    /\ sched.next # None /\ sched.next <= now
    /\ sched.last # None /\ sched.next <= sched.last

\* Writes that put an occurrence already triggered back into the row.
WriteBack ==
    \/ \E c \in Callers : pc[c] \in {"count", "update"} /\ pc'[c] # pc[c]
    \/ \E r \in Replicas :
         /\ pc[r] \in {"advance", "failed", "count"} /\ pc'[r] # pc[r]
         /\ loc[r].next # None /\ loc[r].next <= now

\* FindDue refuses an occurrence at or before last_triggered_at, so a wrong
\* pair of columns silences a schedule for good.  The scheduler itself never
\* writes such a pair, whatever the number of replicas, however late it runs
\* and wherever it fails, except by a run that outlasts the very occurrence
\* it scheduled; the only others are a trigger and an edit that write back
\* the next_run_at they read.
StrandedOnlyByWriteBack == [][~Stranded /\ Stranded' => WriteBack]_vars

\* A due schedule does not stay due: a run creates an instance or repeats
\* onto the open one or records the failure, and advances the row, even when
\* statements fail and runs are abandoned on the way.
DueIsServed == (Due(sched) /\ ~Exhausted(sched)) ~> ~(Due(sched) /\ ~Exhausted(sched))

\* TriggerNow's contract: it creates an instance "without changing
\* next_run_at (don't disrupt the regular schedule)".
NeverStranded == ~Stranded

\* SupersedeRecurringInstances' contract: "a rollover can neither manufacture
\* a false done on a zero-work instance ...".
NoFalseDone ==
    [][\A p \in Procs, i \in 1..Len(tasks) :
         /\ i \in loc[p].list /\ i \notin loc'[p].list
         /\ tasks[i].status = "open" /\ tasks'[i].status = "done"
         => tasks[i].worked]_vars
=============================================================================
