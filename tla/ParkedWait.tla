---------------------------- MODULE ParkedWait ----------------------------
(* A card parked in backlog behind a registered wait, and the two that may  *)
(* wake it: the release of the wait, one transaction under row locks        *)
(* (parked_wait.go), and the automatic transition after a blocker resolved, *)
(* which reads without locks and relies on the card's version and           *)
(* updated_at (auto_transition.go).  Every other writer of the card, its    *)
(* edges and its blockers is the environment, serialised by the row locks.  *)
EXTENDS Naturals

CONSTANTS Agents,      \* holders of the lease and callers of a release
          Blockers,    \* cards that may block this one
          Waits,       \* registration ids
          ReleaseIds,  \* release ids, chosen by the caller
          Requests,    \* release calls under way
          Evals,       \* automatic evaluations under way
          None,
          MaxVersion   \* bound of the card's version

\* What the row of a released wait keeps of its release.
Receipt == [release : ReleaseIds, actor : Agents, version : Nat]

\* A parked_waits row: on is the blocker a wait for a dependency names, holder the lease
\* it was registered under, comment the WAIT it was registered for.
Reasons == {"dependency", "pipeline", "date"}
WaitRow == [reason : Reasons, on : Blockers \cup {None}, mode : {"absent", "owned"}, version : Nat,
            holder : Agents \cup {None}, comment : Nat, receipt : Receipt \cup {None}]

ASSUME ParkedAssumption ==
    /\ MaxVersion \in Nat
    /\ None \notin Agents \cup Requests \cup Receipt \cup WaitRow

VARIABLES card,      \* the tasks row
          edges,     \* its task_dependencies rows of type blocks
          blocker,   \* what each blocker is to its edge
          waits,     \* the parked_waits rows of the card
          outside,   \* what a release asks of others: pipeline, clock, assignee
          locked,    \* the release that holds the card's row lock, if any
          tx,        \* release transactions
          answers,   \* successful answers given to release calls
          eval       \* automatic evaluations

vars == <<card, edges, blocker, waits, outside, locked, tx, answers, eval>>

Categories == {"backlog", "todo", "other"}

\* The park labels a wait of this reason may remove; "external" stands for the labels
\* of a date or a pipeline.  Any other label of this kind holds the card.
Permits(reason) == IF reason = "dependency" THEN {"dependency"} ELSE {"external"}
Marks == {"none", "dependency", "external"}

Idle == [pc |-> "idle"]

---------------------------------------------------------------------------
(* The card.  held: a human gate, a hold label or any other refusal of     *)
(* parkedSnapshot that is not a park label; edited: the version of the     *)
(* last write that set updated_at; wait: the owner's latest WAIT comment.  *)

Init ==
    /\ card = [category |-> "backlog", held |-> FALSE, mark |-> "dependency", lease |-> None,
               live |-> FALSE, version |-> 1, edited |-> 1, wait |-> 0]
    /\ edges = Blockers
    /\ blocker = [b \in Blockers |-> "open"]
    /\ waits = [w \in Waits |-> None]
    /\ outside = [pipeline |-> FALSE, date |-> FALSE, assignee |-> TRUE]
    /\ locked = None
    /\ tx = [t \in Requests |-> Idle]
    /\ answers = {}
    /\ eval = [e \in Evals |-> Idle]

Open(w) == waits[w] # None /\ waits[w].receipt = None

\* The blockers whose edge still holds the card; a deleted blocker does not count as done.
Holding == {b \in edges : blocker[b] # "done"}

\* parkedSnapshot: the plan is of this version of the card, and nothing holds it.
ParkedSnapshot(p, a) ==
    /\ p.version = card.version
    /\ ~card.held
    /\ card.mark \in {"none"} \cup Permits(p.reason)
    /\ p.mode = "absent" => card.lease = None
    /\ p.mode = "owned"  => p.holder = a /\ card.lease = a /\ card.live

\* The row locks other transactions meet: on the card, on its blockers, on the assignee.
CardFree == locked = None /\ card.version < MaxVersion
BlockersFree == \A t \in Requests : tx[t].pc \notin {"read", "assignee", "verify", "commit"}
AssigneeFree == \A t \in Requests : tx[t].pc \notin {"verify", "commit"}

---------------------------------------------------------------------------
(* Registering a wait: one transaction under the card's row lock.  It does  *)
(* not advance the version.  The same registration sent again is answered   *)
(* with the stored result and changes nothing.                              *)

RegisterParkedWait(w, a, reason, on, mode) ==
    /\ locked = None
    /\ waits[w] = None
    /\ LET p == [reason |-> reason, on |-> on, mode |-> mode, version |-> card.version,
                 holder |-> IF mode = "owned" THEN a ELSE None, comment |-> card.wait, receipt |-> None]
       IN  /\ ParkedSnapshot(p, a)
           /\ waits' = [waits EXCEPT ![w] = p]
    /\ card.category = "backlog"
    /\ card.wait > 0
    /\ \A v \in Waits : waits[v] # None => waits[v].comment # card.wait
    /\ IF reason = "dependency" THEN on \in edges ELSE on = None
    /\ UNCHANGED <<card, edges, blocker, outside, locked, tx, answers, eval>>

---------------------------------------------------------------------------
(* Releasing it: ReleaseParkedWaitVerified, statement by statement.  Any    *)
(* refusal, error or crash rolls everything back (Rollback).                *)

\* The retry of a release that committed: answered from the receipt, for the same body
\* and the same actor.
ReplayRelease(w, a, r) ==
    /\ locked = None
    /\ waits[w] # None /\ waits[w].receipt # None
    /\ waits[w].receipt.release = r /\ waits[w].receipt.actor = a
    /\ answers' = answers \cup {[wait |-> w, release |-> r, actor |-> a, version |-> waits[w].receipt.version]}
    /\ UNCHANGED <<card, edges, blocker, waits, outside, locked, tx, eval>>

\* The card and the registration are locked and the snapshot is checked.
BeginRelease(t, w, a, r) ==
    /\ tx[t] = Idle
    /\ locked = None
    /\ Open(w)
    /\ ParkedSnapshot(waits[w], a)
    /\ card.category = "backlog"
    /\ locked' = t
    /\ tx' = [tx EXCEPT ![t] = [pc |-> "select", wait |-> w, actor |-> a, release |-> r, seen |-> {}]]
    /\ UNCHANGED <<card, edges, blocker, waits, outside, answers, eval>>

\* The locking SELECT starts: what it sees is of this moment, however long it waits.
SelectBlockers(t) ==
    /\ tx[t].pc = "select"
    /\ tx' = [tx EXCEPT ![t].pc = "lock", ![t].seen = Holding]
    /\ UNCHANGED <<card, edges, blocker, waits, outside, locked, answers, eval>>

\* Every edge and every blocker is share-locked.
LockBlockers(t) ==
    /\ tx[t].pc = "lock"
    /\ tx' = [tx EXCEPT ![t].pc = "read"]
    /\ UNCHANGED <<card, edges, blocker, waits, outside, locked, answers, eval>>

\* Mutant of ReadBlockers: the categories are joined to the locking SELECT.
ReadJoinedBlockers(t) ==
    /\ tx[t].pc = "read"
    /\ tx' = [tx EXCEPT ![t].pc = "assignee"]
    /\ UNCHANGED <<card, edges, blocker, waits, outside, locked, answers, eval>>

\* A fresh statement reads the categories of the blockers.
ReadBlockers(t) ==
    /\ tx[t].pc = "read"
    /\ tx' = [tx EXCEPT ![t].pc = "assignee", ![t].seen = Holding]
    /\ UNCHANGED <<card, edges, blocker, waits, outside, locked, answers, eval>>

\* No blocker holds the card; the assignee is alive, not paused and granted, and stays so.
LockAssignee(t) ==
    /\ tx[t].pc = "assignee"
    /\ tx[t].seen = {}
    /\ outside.assignee
    /\ tx' = [tx EXCEPT ![t].pc = "verify"]
    /\ UNCHANGED <<card, edges, blocker, waits, outside, locked, answers, eval>>

\* The provider is asked, for a pipeline; the clock goes on meanwhile.
Verify(t) ==
    /\ tx[t].pc = "verify"
    /\ waits[tx[t].wait].reason = "pipeline" => outside.pipeline
    /\ tx' = [tx EXCEPT ![t].pc = "commit"]
    /\ UNCHANGED <<card, edges, blocker, waits, outside, locked, answers, eval>>

\* The snapshot and the condition once more, then the wake, the receipt and the commit.
CommitRelease(t) ==
    /\ tx[t].pc = "commit"
    /\ card.version < MaxVersion
    /\ LET w == tx[t].wait
           p == waits[w]
           v == card.version + 1
       IN  /\ ParkedSnapshot(p, tx[t].actor)
           /\ p.reason = "dependency" => p.on \in edges
           /\ p.reason = "date" => outside.date
           /\ card' = [card EXCEPT !.category = "todo", !.mark = "none", !.version = v, !.edited = v,
                                   !.lease = IF p.mode = "owned" THEN None ELSE @,
                                   !.live = IF p.mode = "owned" THEN FALSE ELSE @]
           /\ waits' = [waits EXCEPT ![w].receipt =
                          [release |-> tx[t].release, actor |-> tx[t].actor, version |-> v]]
           /\ answers' = answers \cup {[wait |-> w, release |-> tx[t].release, actor |-> tx[t].actor, version |-> v]}
    /\ locked' = None
    /\ tx' = [tx EXCEPT ![t] = Idle]
    /\ UNCHANGED <<edges, blocker, outside, eval>>

Rollback(t) ==
    /\ tx[t] # Idle
    /\ locked' = None
    /\ tx' = [tx EXCEPT ![t] = Idle]
    /\ UNCHANGED <<card, edges, blocker, waits, outside, answers, eval>>

---------------------------------------------------------------------------
(* The automatic transition: the candidate is evaluated twice, then moved.  *)
(* No lock is held between the reads.                                       *)

\* dependencyTransitionCandidate reads the card: parked for its dependencies and not held.
\* The second reading must find what the first found.
ReadCandidate(e) ==
    /\ card.category = "backlog" /\ ~card.held /\ card.mark = "dependency"
    /\ \/ /\ eval[e] = Idle
          /\ eval' = [eval EXCEPT ![e] = [pc |-> "edges", round |-> 1, edited |-> card.edited,
                                          left |-> {}, version |-> 0]]
       \/ /\ eval[e].pc = "again"
          /\ eval[e].edited = card.edited
          /\ eval' = [eval EXCEPT ![e].pc = "edges", ![e].round = 2]
    /\ UNCHANGED <<card, edges, blocker, waits, outside, locked, tx, answers>>

\* It lists the edges; a card without one is no candidate.
ReadEdges(e) ==
    /\ eval[e].pc = "edges"
    /\ edges # {}
    /\ eval' = [eval EXCEPT ![e].pc = "blockers", ![e].left = edges]
    /\ UNCHANGED <<card, edges, blocker, waits, outside, locked, tx, answers>>

\* It reads the blockers one by one, and each must have released its edge.
ReadBlocker(e, b) ==
    /\ eval[e].pc = "blockers"
    /\ b \in eval[e].left
    /\ blocker[b] = "done"
    /\ eval' = [eval EXCEPT ![e].left = @ \ {b},
                            ![e].pc = IF eval[e].left # {b} THEN "blockers"
                                      ELSE IF eval[e].round = 1 THEN "again" ELSE "move"]
    /\ UNCHANGED <<card, edges, blocker, waits, outside, locked, tx, answers>>

\* Mutant of MoveTask: no expected updated_at.
MoveUnexpected(e) ==
    /\ eval[e].pc = "move"
    /\ card.category = "backlog"
    /\ eval' = [eval EXCEPT ![e].pc = "write", ![e].version = card.version]
    /\ UNCHANGED <<card, edges, blocker, waits, outside, locked, tx, answers>>

\* MoveTask reads the card, and the version its write will expect.
MoveTask(e) ==
    /\ eval[e].pc = "move"
    /\ card.category = "backlog"
    /\ card.edited = eval[e].edited
    /\ eval' = [eval EXCEPT ![e].pc = "write", ![e].version = card.version]
    /\ UNCHANGED <<card, edges, blocker, waits, outside, locked, tx, answers>>

\* Mutant of UpdateTransition: the registrations are not read.
UpdateOverWait(e) ==
    /\ eval[e].pc = "write"
    /\ CardFree
    /\ card.version = eval[e].version
    /\ card' = [card EXCEPT !.category = "todo", !.version = @ + 1, !.edited = card.version + 1]
    /\ eval' = [eval EXCEPT ![e] = Idle]
    /\ UNCHANGED <<edges, blocker, waits, outside, locked, tx, answers>>

\* UpdateTransition with DisallowParkedWait: the registrations are read under the card's lock.
UpdateTransition(e) ==
    /\ eval[e].pc = "write"
    /\ CardFree
    /\ \A w \in Waits : ~Open(w)
    /\ card.version = eval[e].version
    /\ card' = [card EXCEPT !.category = "todo", !.version = @ + 1, !.edited = card.version + 1]
    /\ eval' = [eval EXCEPT ![e] = Idle]
    /\ UNCHANGED <<edges, blocker, waits, outside, locked, tx, answers>>

\* Not a candidate any more, a conflict, a gate of MoveTask or an error: nothing is written.
GiveUp(e) ==
    /\ eval[e] # Idle
    /\ eval' = [eval EXCEPT ![e] = Idle]
    /\ UNCHANGED <<card, edges, blocker, waits, outside, locked, tx, answers>>

---------------------------------------------------------------------------
(* The other writers.  A write of the row, of a comment or of an edge       *)
(* advances the version; only a write of the row sets updated_at.           *)

\* A move or an edit by hand, a gate armed or disarmed.
WriteCard(category, held, mark) ==
    /\ CardFree
    /\ card' = [card EXCEPT !.category = category, !.held = held, !.mark = mark,
                            !.version = @ + 1, !.edited = card.version + 1]
    /\ UNCHANGED <<edges, blocker, waits, outside, locked, tx, answers, eval>>

\* The commit of product done with a receipt refuses a gated or a waiting card.
CommitProductDone ==
    /\ CardFree
    /\ ~card.held
    /\ \A w \in Waits : ~Open(w)
    /\ card' = [card EXCEPT !.category = "other", !.lease = None, !.live = FALSE,
                            !.version = @ + 1, !.edited = card.version + 1]
    /\ UNCHANGED <<edges, blocker, waits, outside, locked, tx, answers, eval>>

\* A checkout, a renewal, or (None) a release of the checkout.
WriteLease(a) ==
    /\ CardFree
    /\ card' = [card EXCEPT !.lease = a, !.live = (a # None),
                            !.version = @ + 1, !.edited = card.version + 1]
    /\ UNCHANGED <<edges, blocker, waits, outside, locked, tx, answers, eval>>

\* Time passes the deadline of the lease: nothing is written.
LeaseLapses ==
    /\ card.live
    /\ card' = [card EXCEPT !.live = FALSE]
    /\ UNCHANGED <<edges, blocker, waits, outside, locked, tx, answers, eval>>

\* A comment; with n = 1 it is a WAIT of the owner.
Comment(n) ==
    /\ CardFree
    /\ card' = [card EXCEPT !.wait = @ + n, !.version = @ + 1]
    /\ UNCHANGED <<edges, blocker, waits, outside, locked, tx, answers, eval>>

\* An edge is added, deleted or its condition changed: the trigger advances the version of
\* the card, under its row lock.
WriteEdges(es) ==
    /\ CardFree
    /\ edges' = es
    /\ card' = [card EXCEPT !.version = @ + 1]
    /\ UNCHANGED <<blocker, waits, outside, locked, tx, answers, eval>>

\* A blocker is finished, reopened or deleted: the card is not written.
WriteBlocker(b, s) ==
    /\ b \in edges => BlockersFree
    /\ blocker[b] # s /\ blocker[b] # "deleted"
    /\ blocker' = [blocker EXCEPT ![b] = s]
    /\ UNCHANGED <<card, edges, waits, outside, locked, tx, answers, eval>>

\* The pipeline ends or is retried, the date comes, the assignee is paused or resumed.
Outside ==
    /\ \/ outside' = [outside EXCEPT !.pipeline = ~@]
       \/ ~outside.date /\ outside' = [outside EXCEPT !.date = TRUE]
       \/ AssigneeFree /\ outside' = [outside EXCEPT !.assignee = ~@]
    /\ UNCHANGED <<card, edges, blocker, waits, locked, tx, answers, eval>>

ReleaseStep(t) ==
    \/ \E w \in Waits, a \in Agents, r \in ReleaseIds : BeginRelease(t, w, a, r)
    \/ SelectBlockers(t) \/ LockBlockers(t) \/ ReadBlockers(t)
    \/ LockAssignee(t) \/ Verify(t) \/ CommitRelease(t) \/ Rollback(t)

EvalStep(e) ==
    \/ ReadCandidate(e) \/ ReadEdges(e)
    \/ \E b \in Blockers : ReadBlocker(e, b)
    \/ MoveTask(e) \/ UpdateTransition(e) \/ GiveUp(e)

Environment ==
    \/ \E c \in Categories, h \in BOOLEAN, m \in Marks : WriteCard(c, h, m)
    \/ CommitProductDone
    \/ \E a \in Agents \cup {None} : WriteLease(a)
    \/ LeaseLapses
    \/ \E n \in {0, 1} : Comment(n)
    \/ \E es \in SUBSET Blockers : WriteEdges(es)
    \/ \E b \in Blockers, s \in {"open", "done", "deleted"} : WriteBlocker(b, s)
    \/ Outside

Next ==
    \/ \E w \in Waits, a \in Agents, reason \in Reasons, on \in Blockers \cup {None},
          mode \in {"absent", "owned"} : RegisterParkedWait(w, a, reason, on, mode)
    \/ \E w \in Waits, a \in Agents, r \in ReleaseIds : ReplayRelease(w, a, r)
    \/ \E t \in Requests : ReleaseStep(t)
    \/ \E e \in Evals : EvalStep(e)
    \/ Environment

Spec == Init /\ [][Next]_vars

---------------------------------------------------------------------------
(* Properties. *)

Card == [category : Categories, held : BOOLEAN, mark : Marks, lease : Agents \cup {None},
         live : BOOLEAN, version : Nat, edited : Nat, wait : Nat]
Release == [pc : {"select", "lock", "read", "assignee", "verify", "commit"}, wait : Waits,
            actor : Agents, release : ReleaseIds, seen : SUBSET Blockers]
Eval == [pc : {"edges", "blockers", "again", "move", "write"}, round : {1, 2}, edited : Nat,
         left : SUBSET Blockers, version : Nat]

\* Type correctness of the card, the registrations and the two kinds of process.
ParkedTypeOK ==
    /\ card \in Card
    /\ edges \in SUBSET Blockers
    /\ blocker \in [Blockers -> {"open", "done", "deleted"}]
    /\ waits \in [Waits -> WaitRow \cup {None}]
    /\ outside \in [pipeline : BOOLEAN, date : BOOLEAN, assignee : BOOLEAN]
    /\ locked \in Requests \cup {None}
    /\ tx \in [Requests -> Release \cup {Idle}]
    /\ answers \in SUBSET [wait : Waits, release : ReleaseIds, actor : Agents, version : Nat]
    /\ eval \in [Evals -> Eval \cup {Idle}]

\* The version stands for the whole snapshot: while an unreleased wait carries the card's
\* version, the card is as the owner parked it - in backlog, not held, with no other park
\* label, its lease as registered and the named edge in place (parked_wait.go:46: "All
\* task/lease/gate/comment/edge writers serialize here and advance task.version").
SnapshotUnchanged ==
    \A w \in Waits :
        (Open(w) /\ waits[w].version = card.version) =>
            /\ card.category = "backlog" /\ ~card.held
            /\ card.mark \in {"none"} \cup Permits(waits[w].reason)
            /\ card.lease = waits[w].holder
            /\ waits[w].reason = "dependency" => waits[w].on \in edges

\* A release under way holds the card's row lock, and therefore the version it was begun at.
LockHeld ==
    \A t \in Requests :
        /\ (tx[t] # Idle) <=> (locked = t)
        /\ tx[t] # Idle => Open(tx[t].wait) /\ waits[tx[t].wait].version = card.version

\* What it has checked of others stays true behind its share locks.
ChecksHold ==
    \A t \in Requests :
        /\ (tx[t].pc = "assignee" /\ tx[t].seen = {}) => Holding = {}
        /\ tx[t].pc \in {"verify", "commit"} => Holding = {} /\ outside.assignee

\* Versions a wait or an evaluation has noted are past or present; while updated_at is the
\* one an evaluation read, the card is still a candidate.
CandidateHolds ==
    /\ card.edited <= card.version
    /\ \A w \in Waits : waits[w] # None => waits[w].version <= card.version
    /\ \A e \in Evals : eval[e] # Idle =>
           /\ eval[e].edited <= card.edited
           /\ eval[e].edited = card.edited =>
                  card.category = "backlog" /\ ~card.held /\ card.mark = "dependency"
           /\ eval[e].pc = "write" =>
                  /\ eval[e].version <= card.version
                  /\ eval[e].version = card.version => eval[e].edited = card.edited

\* A wait wakes a card only when nothing holds it at the very moment of the commit: every
\* blocker has released its edge, the assignee is fit, no gate is armed, nobody else holds
\* the lease - whatever was reopened, paused or lapsed while the transaction waited for
\* locks and for the provider.
WakesOnlyFreed ==
    [][\A w \in Waits : (Open(w) /\ ~Open(w)') =>
            /\ Holding = {} /\ outside.assignee
            /\ card.category = "backlog" /\ ~card.held
            /\ waits[w].version = card.version
            /\ card.lease # None => card.live /\ card'.lease = None]_vars

\* Whoever is told a release succeeded is told what was committed: the answer is the
\* receipt of that registration, its release id, its actor and its version.
AnswersAreReceipts ==
    \A x \in answers :
        /\ waits[x.wait] # None
        /\ waits[x.wait].receipt = [release |-> x.release, actor |-> x.actor, version |-> x.version]

\* The inductive invariant: the locks of a release protect what it has checked, and the
\* version and updated_at noted by the others reveal every write that matters to them.
ParkedInv ==
    /\ ParkedTypeOK
    /\ SnapshotUnchanged
    /\ LockHeld
    /\ ChecksHold
    /\ CandidateHolds
    /\ AnswersAreReceipts

\* "Automatic moves must leave registered WAITs to their atomic consumer"
\* (task_mutation.go:50), and a card that was gated, moved or re-labelled after it was
\* evaluated: an automatic move finds no unreleased registration and the card parked for
\* its dependencies and not held.
AutomaticHonoursCard ==
    [][\A e \in Evals : (eval[e].pc = "write" /\ card' # card /\ eval'[e] = Idle) =>
            /\ \A w \in Waits : ~Open(w)
            /\ card.category = "backlog" /\ ~card.held /\ card.mark = "dependency"]_vars

\* "a changed snapshot requires a fresh, proven owner WAIT" (docs/parked-wait-api.md:41):
\* when the fresh WAIT has been released, the card has no registration left to refuse its
\* automatic moves and its product done.
FreshWaitSuffices ==
    \A w \in Waits :
        (waits[w] # None /\ waits[w].receipt # None /\ waits[w].comment = card.wait)
            => \A v \in Waits : ~Open(v)

\* An open registration whose version the card has left behind: ParkedSnapshot will refuse it.
Stale(w) == Open(w) /\ waits[w].version < card.version

\* Why it does not: a registration that has once gone stale is open and stale for ever, and
\* with it every automatic move and every product done of its card is refused.
StaleWaitStays == \A w \in Waits : [](Stale(w) => []Stale(w))

===========================================================================
