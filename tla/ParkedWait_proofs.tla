------------------------- MODULE ParkedWait_proofs -------------------------
(* Proofs about ParkedWait, for every set of callers, blockers,             *)
(* registrations and evaluations and every bound of the version.            *)
EXTENDS ParkedWait, TLAPS

\* The initial card satisfies the invariant.
LEMMA InitInv == Init => ParkedInv
<1> SUFFICES ASSUME Init PROVE ParkedInv
    OBVIOUS
<1>1. ParkedTypeOK
    BY DEF Init, ParkedTypeOK, Card, Categories, Marks, Idle
<1> QED
    BY <1>1, ParkedAssumption DEF Init, ParkedInv, SnapshotUnchanged, LockHeld, ChecksHold, CandidateHolds,
       AnswersAreReceipts, Open, Idle

\* A step of a release that writes nothing but its own progress keeps the invariant, if
\* what it claims to have checked is true.
LEMMA TxStepInv ==
    ASSUME ParkedInv, NEW t \in Requests, tx[t] # Idle, NEW x \in Release,
           tx' = [tx EXCEPT ![t] = x], x.wait = tx[t].wait,
           UNCHANGED <<card, edges, blocker, waits, outside, locked, answers, eval>>,
           x.pc = "assignee" /\ x.seen = {} => Holding = {},
           x.pc \in {"verify", "commit"} => Holding = {} /\ outside.assignee
    PROVE  ParkedInv'
<1>0. x # Idle
    BY DEF Release, Idle
<1>1. ParkedTypeOK'
    BY DEF ParkedInv, ParkedTypeOK
<1>2. SnapshotUnchanged' /\ CandidateHolds' /\ AnswersAreReceipts'
    BY DEF ParkedInv, SnapshotUnchanged, CandidateHolds, AnswersAreReceipts, Open
<1>3. \A s \in Requests : tx'[s] = IF s = t THEN x ELSE tx[s]
    BY DEF ParkedInv, ParkedTypeOK
<1>4. LockHeld'
    BY <1>0, <1>3 DEF ParkedInv, LockHeld, Open
<1>5. ChecksHold'
    BY <1>3 DEF ParkedInv, ChecksHold, Holding
<1> QED
    BY <1>1, <1>2, <1>4, <1>5 DEF ParkedInv

\* A step of an evaluation that writes nothing but its own notes keeps the invariant, if
\* the notes are true.
LEMMA EvalStepInv ==
    ASSUME ParkedInv, NEW e \in Evals, NEW x \in Eval \cup {Idle},
           eval' = [eval EXCEPT ![e] = x],
           UNCHANGED <<card, edges, blocker, waits, outside, locked, tx, answers>>,
           x # Idle => /\ x.edited <= card.edited
                       /\ x.edited = card.edited =>
                              card.category = "backlog" /\ ~card.held /\ card.mark = "dependency"
                       /\ x.pc = "write" =>
                              /\ x.version <= card.version
                              /\ x.version = card.version => x.edited = card.edited
    PROVE  ParkedInv'
<1>1. ParkedTypeOK'
    BY DEF ParkedInv, ParkedTypeOK
<1>2. SnapshotUnchanged' /\ LockHeld' /\ ChecksHold' /\ AnswersAreReceipts'
    BY DEF ParkedInv, SnapshotUnchanged, LockHeld, ChecksHold, AnswersAreReceipts, Open, Holding
<1>3. \A f \in Evals : eval'[f] = IF f = e THEN x ELSE eval[f]
    BY DEF ParkedInv, ParkedTypeOK
<1>4. CandidateHolds'
    BY <1>3 DEF ParkedInv, CandidateHolds
<1> QED
    BY <1>1, <1>2, <1>4 DEF ParkedInv

\* A write of the unlocked card advances the version, and sets updated_at when it changes
\* what an evaluation looks at: it keeps the invariant, with the edges and with an
\* evaluation that ends in the same transaction.
LEMMA CardWriteInv ==
    ASSUME ParkedInv, locked = None, card' \in Card, edges' \in SUBSET Blockers,
           card'.version = card.version + 1,
           \/ card'.edited = card.version + 1
           \/ /\ card'.edited = card.edited /\ card'.category = card.category
              /\ card'.held = card.held /\ card'.mark = card.mark,
           UNCHANGED <<blocker, waits, outside, locked, tx, answers>>,
           eval' \in [Evals -> Eval \cup {Idle}],
           \A e \in Evals : eval'[e] \in {eval[e], Idle}
    PROVE  ParkedInv'
<1> USE DEF ParkedInv
<1>0. /\ card.version \in Nat /\ card.edited \in Nat /\ card.edited <= card.version
      /\ card'.version \in Nat /\ card'.edited \in Nat
    BY DEF ParkedTypeOK, CandidateHolds, Card
<1>1. ParkedTypeOK'
    BY DEF ParkedTypeOK
<1>2. \A w \in Waits : waits[w] # None => waits[w].version \in Nat /\ waits[w].version < card'.version
    BY <1>0 DEF CandidateHolds, ParkedTypeOK, WaitRow
<1>3. SnapshotUnchanged'
    BY <1>0, <1>2 DEF SnapshotUnchanged, Open
<1>4. \A t \in Requests : tx[t] = Idle
    BY ParkedAssumption DEF LockHeld
<1>5. LockHeld' /\ ChecksHold'
    BY <1>4 DEF LockHeld, ChecksHold, Idle
<1>6. \A e \in Evals : eval[e] # Idle => eval[e].edited \in Nat /\ eval[e].version \in Nat
    BY DEF ParkedTypeOK, Eval
<1>7. CandidateHolds'
  <2>1. card'.edited <= card'.version
      BY <1>0
  <2>2. \A w \in Waits : waits'[w] # None => waits'[w].version <= card'.version
      BY <1>0, <1>2
  <2>3. ASSUME NEW e \in Evals, eval'[e] # Idle
        PROVE  /\ eval'[e].edited <= card'.edited
               /\ eval'[e].edited = card'.edited =>
                      card'.category = "backlog" /\ ~card'.held /\ card'.mark = "dependency"
               /\ eval'[e].pc = "write" =>
                      /\ eval'[e].version <= card'.version
                      /\ eval'[e].version = card'.version => eval'[e].edited = card'.edited
    <3>1. eval'[e] = eval[e] /\ eval[e] # Idle
        BY <2>3
    <3>2. /\ eval[e].edited <= card.edited
          /\ eval[e].edited = card.edited =>
                 card.category = "backlog" /\ ~card.held /\ card.mark = "dependency"
          /\ eval[e].pc = "write" => eval[e].version <= card.version
        BY <3>1 DEF CandidateHolds
    <3> QED
        BY <1>0, <1>6, <3>1, <3>2
  <2> QED
      BY <2>1, <2>2, <2>3 DEF CandidateHolds
<1>8. AnswersAreReceipts'
    BY DEF AnswersAreReceipts
<1> QED
    BY <1>1, <1>3, <1>5, <1>7, <1>8

\* The steps of a release between its locks and its commit: the locking select, the locks,
\* the fresh reading of the categories, the assignee and the provider.
LEMMA ReleaseProgressInv ==
    ASSUME ParkedInv, NEW t \in Requests,
           \/ SelectBlockers(t) \/ LockBlockers(t) \/ ReadBlockers(t) \/ LockAssignee(t) \/ Verify(t)
    PROVE  ParkedInv'
<1>1. tx[t] # Idle => tx[t] \in Release
    BY DEF ParkedInv, ParkedTypeOK
<1>2. Holding \in SUBSET Blockers
    BY DEF ParkedInv, ParkedTypeOK, Holding
<1>3. CASE SelectBlockers(t)
  <2> DEFINE x == [tx[t] EXCEPT !.pc = "lock", !.seen = Holding]
  <2>1. tx[t] # Idle
      BY <1>3 DEF SelectBlockers, Idle
  <2>2. x \in Release /\ x.wait = tx[t].wait /\ x.pc = "lock"
      BY <1>1, <1>2, <2>1 DEF Release
  <2>3. tx' = [tx EXCEPT ![t] = x] /\ UNCHANGED <<card, edges, blocker, waits, outside, locked, answers, eval>>
      BY <1>3 DEF SelectBlockers, ParkedInv, ParkedTypeOK
  <2> HIDE DEF x
  <2> QED
      BY <2>1, <2>2, <2>3, TxStepInv
<1>4. CASE LockBlockers(t)
  <2> DEFINE x == [tx[t] EXCEPT !.pc = "read"]
  <2>1. tx[t] # Idle
      BY <1>4 DEF LockBlockers, Idle
  <2>2. x \in Release /\ x.wait = tx[t].wait /\ x.pc = "read"
      BY <1>1, <2>1 DEF Release
  <2>3. tx' = [tx EXCEPT ![t] = x] /\ UNCHANGED <<card, edges, blocker, waits, outside, locked, answers, eval>>
      BY <1>4 DEF LockBlockers, ParkedInv, ParkedTypeOK
  <2> HIDE DEF x
  <2> QED
      BY <2>1, <2>2, <2>3, TxStepInv
<1>5. CASE ReadBlockers(t)
  <2> DEFINE x == [tx[t] EXCEPT !.pc = "assignee", !.seen = Holding]
  <2>1. tx[t] # Idle
      BY <1>5 DEF ReadBlockers, Idle
  <2>2. x \in Release /\ x.wait = tx[t].wait /\ x.pc = "assignee" /\ x.seen = Holding
      BY <1>1, <1>2, <2>1 DEF Release
  <2>3. tx' = [tx EXCEPT ![t] = x] /\ UNCHANGED <<card, edges, blocker, waits, outside, locked, answers, eval>>
      BY <1>5 DEF ReadBlockers, ParkedInv, ParkedTypeOK
  <2> HIDE DEF x
  <2> QED
      BY <2>1, <2>2, <2>3, TxStepInv
<1>6. CASE LockAssignee(t)
  <2> DEFINE x == [tx[t] EXCEPT !.pc = "verify"]
  <2>1. tx[t] # Idle /\ Holding = {} /\ outside.assignee
      BY <1>6 DEF LockAssignee, Idle, ParkedInv, ChecksHold
  <2>2. x \in Release /\ x.wait = tx[t].wait /\ x.pc = "verify"
      BY <1>1, <2>1 DEF Release
  <2>3. tx' = [tx EXCEPT ![t] = x] /\ UNCHANGED <<card, edges, blocker, waits, outside, locked, answers, eval>>
      BY <1>6 DEF LockAssignee, ParkedInv, ParkedTypeOK
  <2> HIDE DEF x
  <2> QED
      BY <2>1, <2>2, <2>3, TxStepInv
<1>7. CASE Verify(t)
  <2> DEFINE x == [tx[t] EXCEPT !.pc = "commit"]
  <2>1. tx[t] # Idle /\ Holding = {} /\ outside.assignee
      BY <1>7 DEF Verify, Idle, ParkedInv, ChecksHold
  <2>2. x \in Release /\ x.wait = tx[t].wait /\ x.pc = "commit"
      BY <1>1, <2>1 DEF Release
  <2>3. tx' = [tx EXCEPT ![t] = x] /\ UNCHANGED <<card, edges, blocker, waits, outside, locked, answers, eval>>
      BY <1>7 DEF Verify, ParkedInv, ParkedTypeOK
  <2> HIDE DEF x
  <2> QED
      BY <2>1, <2>2, <2>3, TxStepInv
<1> QED
    BY <1>3, <1>4, <1>5, <1>6, <1>7

\* The steps of an evaluation up to the write: each notes what it has just read.
LEMMA EvaluationInv ==
    ASSUME ParkedInv, NEW e \in Evals,
           \/ ReadCandidate(e) \/ ReadEdges(e) \/ MoveTask(e) \/ GiveUp(e)
           \/ \E b \in Blockers : ReadBlocker(e, b)
    PROVE  ParkedInv'
<1> DEFINE Candidate == card.category = "backlog" /\ ~card.held /\ card.mark = "dependency"
           Others == UNCHANGED <<card, edges, blocker, waits, outside, locked, tx, answers>>
<1>1. eval[e] # Idle => /\ eval[e] \in Eval
                        /\ eval[e].edited <= card.edited
                        /\ eval[e].edited = card.edited => Candidate
    BY DEF ParkedInv, ParkedTypeOK, CandidateHolds
<1>2. card.edited \in Nat /\ card.version \in Nat /\ edges \in SUBSET Blockers
    BY DEF ParkedInv, ParkedTypeOK, Card
<1>3. CASE GiveUp(e)
    BY <1>3, EvalStepInv DEF GiveUp
<1>4. CASE ReadCandidate(e) /\ eval[e] = Idle
  <2> DEFINE x == [pc |-> "edges", round |-> 1, edited |-> card.edited, left |-> {}, version |-> 0]
  <2>1. x \in Eval /\ x.edited = card.edited /\ x.pc = "edges"
      BY <1>2 DEF Eval
  <2>2. eval' = [eval EXCEPT ![e] = x] /\ Others /\ Candidate
      BY <1>4 DEF ReadCandidate, Idle
  <2> HIDE DEF x
  <2>3. x.edited <= card.edited
      BY <1>2, <2>1
  <2> QED
      BY <2>1, <2>2, <2>3, EvalStepInv
<1>5. CASE ReadCandidate(e) /\ eval[e] # Idle
  <2> DEFINE x == [eval[e] EXCEPT !.pc = "edges", !.round = 2]
  <2>1. x \in Eval /\ x.edited = eval[e].edited /\ x.pc = "edges"
      BY <1>1, <1>5 DEF Eval
  <2>2. eval' = [eval EXCEPT ![e] = x] /\ Others
      BY <1>5 DEF ReadCandidate, ParkedInv, ParkedTypeOK
  <2> HIDE DEF x
  <2> QED
      BY <1>1, <1>5, <2>1, <2>2, EvalStepInv
<1>6. CASE ReadEdges(e)
  <2> DEFINE x == [eval[e] EXCEPT !.pc = "blockers", !.left = edges]
  <2>0. eval[e] # Idle
      BY <1>6 DEF ReadEdges, Idle
  <2>1. x \in Eval /\ x.edited = eval[e].edited /\ x.pc = "blockers"
      BY <1>1, <1>2, <2>0 DEF Eval
  <2>2. eval' = [eval EXCEPT ![e] = x] /\ Others
      BY <1>6 DEF ReadEdges, ParkedInv, ParkedTypeOK
  <2> HIDE DEF x
  <2> QED
      BY <1>1, <2>0, <2>1, <2>2, EvalStepInv
<1>7. CASE MoveTask(e)
  <2> DEFINE x == [eval[e] EXCEPT !.pc = "write", !.version = card.version]
  <2>0. eval[e] # Idle /\ card.edited = eval[e].edited
      BY <1>7 DEF MoveTask, Idle
  <2>1. x \in Eval /\ x.edited = eval[e].edited /\ x.version = card.version
      BY <1>1, <1>2, <2>0 DEF Eval
  <2>2. eval' = [eval EXCEPT ![e] = x] /\ Others
      BY <1>7 DEF MoveTask, ParkedInv, ParkedTypeOK
  <2> HIDE DEF x
  <2>3. Candidate /\ x.edited <= card.edited /\ x.version <= card.version
      BY <1>1, <1>2, <2>0, <2>1
  <2> QED
      BY <2>0, <2>1, <2>2, <2>3, EvalStepInv
<1>8. ASSUME NEW b \in Blockers, ReadBlocker(e, b)
      PROVE  ParkedInv'
  <2> DEFINE k == IF eval[e].left # {b} THEN "blockers" ELSE IF eval[e].round = 1 THEN "again" ELSE "move"
             x == [eval[e] EXCEPT !.left = @ \ {b}, !.pc = k]
  <2>0. eval[e] # Idle
      BY <1>8 DEF ReadBlocker, Idle
  <2>1. x \in Eval /\ x.edited = eval[e].edited /\ x.pc # "write"
      BY <1>1, <2>0 DEF Eval
  <2>2. eval' = [eval EXCEPT ![e] = x] /\ Others
      BY <1>8 DEF ReadBlocker, ParkedInv, ParkedTypeOK
  <2> HIDE DEF x
  <2> QED
      BY <1>1, <2>0, <2>1, <2>2, EvalStepInv
<1> QED
    BY <1>3, <1>4, <1>5, <1>6, <1>7, <1>8

\* Whoever writes the card without a wait of its own takes the unlocked row and advances
\* its version.
LEMMA CardWritersInv ==
    ASSUME ParkedInv,
           \/ \E e \in Evals : UpdateTransition(e)
           \/ \E c \in Categories, h \in BOOLEAN, m \in Marks : WriteCard(c, h, m)
           \/ CommitProductDone
           \/ \E a \in Agents \cup {None} : WriteLease(a)
           \/ \E n \in {0, 1} : Comment(n)
           \/ \E es \in SUBSET Blockers : WriteEdges(es)
    PROVE  ParkedInv'
<1>1. card \in Card /\ card.version + 1 \in Nat /\ card.wait + 0 \in Nat /\ card.wait + 1 \in Nat
    BY DEF ParkedInv, ParkedTypeOK, Card
<1>2. eval \in [Evals -> Eval \cup {Idle}] /\ edges \in SUBSET Blockers
    BY DEF ParkedInv, ParkedTypeOK
<1>3. ASSUME NEW e \in Evals, UpdateTransition(e) PROVE ParkedInv'
  <2>1. /\ card' \in Card /\ card'.version = card.version + 1 /\ card'.edited = card.version + 1
        /\ locked = None /\ edges' \in SUBSET Blockers
        /\ UNCHANGED <<blocker, waits, outside, locked, tx, answers>>
      BY <1>1, <1>2, <1>3 DEF UpdateTransition, CardFree, Card, Categories
  <2>2. eval' \in [Evals -> Eval \cup {Idle}] /\ \A f \in Evals : eval'[f] \in {eval[f], Idle}
      BY <1>2, <1>3 DEF UpdateTransition
  <2> QED
      BY <2>1, <2>2, CardWriteInv
<1>4. ASSUME NEW c \in Categories, NEW h \in BOOLEAN, NEW m \in Marks, WriteCard(c, h, m) PROVE ParkedInv'
  <2>1. /\ card' \in Card /\ card'.version = card.version + 1 /\ card'.edited = card.version + 1
        /\ locked = None /\ edges' \in SUBSET Blockers
        /\ UNCHANGED <<blocker, waits, outside, locked, tx, answers, eval>>
      BY <1>1, <1>2, <1>4 DEF WriteCard, CardFree, Card
  <2> QED
      BY <1>2, <2>1, CardWriteInv
<1>5. ASSUME CommitProductDone PROVE ParkedInv'
  <2>1. /\ card' \in Card /\ card'.version = card.version + 1 /\ card'.edited = card.version + 1
        /\ locked = None /\ edges' \in SUBSET Blockers
        /\ UNCHANGED <<blocker, waits, outside, locked, tx, answers, eval>>
      BY <1>1, <1>2, <1>5 DEF CommitProductDone, CardFree, Card, Categories
  <2> QED
      BY <1>2, <2>1, CardWriteInv
<1>6. ASSUME NEW a \in Agents \cup {None}, WriteLease(a) PROVE ParkedInv'
  <2>1. /\ card' \in Card /\ card'.version = card.version + 1 /\ card'.edited = card.version + 1
        /\ locked = None /\ edges' \in SUBSET Blockers
        /\ UNCHANGED <<blocker, waits, outside, locked, tx, answers, eval>>
      BY <1>1, <1>2, <1>6 DEF WriteLease, CardFree, Card
  <2> QED
      BY <1>2, <2>1, CardWriteInv
<1>7. ASSUME NEW n \in {0, 1}, Comment(n) PROVE ParkedInv'
  <2>1. /\ card' \in Card /\ card'.version = card.version + 1 /\ card'.edited = card.edited
        /\ card'.category = card.category /\ card'.held = card.held /\ card'.mark = card.mark
        /\ locked = None /\ edges' \in SUBSET Blockers
        /\ UNCHANGED <<blocker, waits, outside, locked, tx, answers, eval>>
      BY <1>1, <1>2, <1>7 DEF Comment, CardFree, Card
  <2> QED
      BY <1>2, <2>1, CardWriteInv
<1>8. ASSUME NEW es \in SUBSET Blockers, WriteEdges(es) PROVE ParkedInv'
  <2>1. /\ card' \in Card /\ card'.version = card.version + 1 /\ card'.edited = card.edited
        /\ card'.category = card.category /\ card'.held = card.held /\ card'.mark = card.mark
        /\ locked = None /\ edges' \in SUBSET Blockers
        /\ UNCHANGED <<blocker, waits, outside, locked, tx, answers, eval>>
      BY <1>1, <1>2, <1>8 DEF WriteEdges, CardFree, Card
  <2> QED
      BY <1>2, <2>1, CardWriteInv
<1> QED
    BY <1>3, <1>4, <1>5, <1>6, <1>7, <1>8

\* A registration is of the card as it stands.
LEMMA RegisterInv ==
    ASSUME ParkedInv, NEW w \in Waits, NEW a \in Agents, NEW reason \in Reasons,
           NEW on \in Blockers \cup {None}, NEW mode \in {"absent", "owned"},
           RegisterParkedWait(w, a, reason, on, mode)
    PROVE  ParkedInv'
<1> DEFINE p == [reason |-> reason, on |-> on, mode |-> mode, version |-> card.version,
                 holder |-> IF mode = "owned" THEN a ELSE None, comment |-> card.wait, receipt |-> None]
<1> USE DEF ParkedInv
<1>1. /\ waits' = [waits EXCEPT ![w] = p] /\ waits[w] = None /\ ParkedSnapshot(p, a)
      /\ card.category = "backlog" /\ (reason = "dependency" => on \in edges)
      /\ locked = None
      /\ UNCHANGED <<card, edges, blocker, outside, locked, tx, answers, eval>>
    BY DEF RegisterParkedWait
<1>2. p \in WaitRow /\ p.receipt = None /\ p.version = card.version
    BY DEF WaitRow, ParkedTypeOK, Card
<1>3. \A v \in Waits : waits'[v] = IF v = w THEN p ELSE waits[v]
    BY <1>1 DEF ParkedTypeOK
<1>4. ParkedTypeOK'
    BY <1>1, <1>2 DEF ParkedTypeOK
<1>5. p.reason = reason /\ p.on = on /\ p.mode = mode /\ p.holder = IF mode = "owned" THEN a ELSE None
    OBVIOUS
<1>6. ~card.held /\ card.mark \in {"none"} \cup Permits(reason) /\ card.lease = p.holder
    BY <1>1, <1>5 DEF ParkedSnapshot
<1> HIDE DEF p
<1>7. SnapshotUnchanged'
    BY <1>1, <1>3, <1>5, <1>6 DEF SnapshotUnchanged, Open
<1>8. \A t \in Requests : tx[t] = Idle
    BY <1>1, ParkedAssumption DEF LockHeld
<1>9. LockHeld' /\ ChecksHold'
    BY <1>1, <1>8 DEF LockHeld, ChecksHold, Idle
<1>10. CandidateHolds'
  <2>1. card.version \in Nat
      BY DEF ParkedTypeOK, Card
  <2>2. \A v \in Waits : waits'[v] # None => waits'[v].version <= card.version
      BY <1>2, <1>3, <2>1 DEF CandidateHolds
  <2> QED
      BY <1>1, <2>2 DEF CandidateHolds
<1>11. AnswersAreReceipts'
    BY <1>1, <1>3 DEF AnswersAreReceipts, ParkedTypeOK
<1> QED
    BY <1>4, <1>7, <1>9, <1>10, <1>11

\* The replay of a release answers from the receipt.
LEMMA ReplayInv ==
    ASSUME ParkedInv, NEW w \in Waits, NEW a \in Agents, NEW r \in ReleaseIds, ReplayRelease(w, a, r)
    PROVE  ParkedInv'
<1> USE DEF ParkedInv
<1> DEFINE x == [wait |-> w, release |-> r, actor |-> a, version |-> waits[w].receipt.version]
<1>1. /\ answers' = answers \cup {x} /\ waits[w] # None /\ waits[w].receipt # None
      /\ waits[w].receipt.release = r /\ waits[w].receipt.actor = a
      /\ UNCHANGED <<card, edges, blocker, waits, outside, locked, tx, eval>>
    BY DEF ReplayRelease
<1>2. waits[w].receipt \in Receipt
    BY <1>1 DEF ParkedTypeOK, WaitRow
<1>3. x \in [wait : Waits, release : ReleaseIds, actor : Agents, version : Nat]
    BY <1>2 DEF Receipt
<1>4. waits[x.wait] # None /\ waits[x.wait].receipt = [release |-> x.release, actor |-> x.actor, version |-> x.version]
    BY <1>1, <1>2 DEF Receipt
<1> HIDE DEF x
<1>5. ParkedTypeOK'
    BY <1>1, <1>3 DEF ParkedTypeOK
<1>6. SnapshotUnchanged' /\ LockHeld' /\ ChecksHold' /\ CandidateHolds'
    BY <1>1 DEF SnapshotUnchanged, LockHeld, ChecksHold, CandidateHolds, Open, Holding
<1>7. AnswersAreReceipts'
    BY <1>1, <1>4 DEF AnswersAreReceipts
<1> QED
    BY <1>5, <1>6, <1>7

\* A release begins when nobody holds the card, and then holds it.
LEMMA BeginInv ==
    ASSUME ParkedInv, NEW t \in Requests, NEW w \in Waits, NEW a \in Agents, NEW r \in ReleaseIds,
           BeginRelease(t, w, a, r)
    PROVE  ParkedInv'
<1> USE DEF ParkedInv
<1> DEFINE x == [pc |-> "select", wait |-> w, actor |-> a, release |-> r, seen |-> {}]
<1>1. /\ tx' = [tx EXCEPT ![t] = x] /\ locked = None /\ locked' = t
      /\ Open(w) /\ waits[w].version = card.version
      /\ UNCHANGED <<card, edges, blocker, waits, outside, answers, eval>>
    BY DEF BeginRelease, ParkedSnapshot
<1>2. x \in Release /\ x # Idle /\ x.wait = w /\ x.pc = "select"
    BY DEF Release, Idle
<1> HIDE DEF x
<1>3. \A s \in Requests : tx[s] = Idle
    BY <1>1, ParkedAssumption DEF LockHeld
<1>4. \A s \in Requests : tx'[s] = IF s = t THEN x ELSE Idle
    BY <1>1, <1>3 DEF ParkedTypeOK
<1>5. ParkedTypeOK'
    BY <1>1, <1>2 DEF ParkedTypeOK
<1>6. SnapshotUnchanged' /\ CandidateHolds' /\ AnswersAreReceipts'
    BY <1>1 DEF SnapshotUnchanged, CandidateHolds, AnswersAreReceipts, Open
<1>7. LockHeld'
    BY <1>1, <1>2, <1>4 DEF LockHeld, Open
<1>8. ChecksHold'
    BY <1>2, <1>4 DEF ChecksHold, Idle
<1> QED
    BY <1>5, <1>6, <1>7, <1>8

\* A release that fails leaves the card free and nothing else changed.
LEMMA RollbackInv ==
    ASSUME ParkedInv, NEW t \in Requests, Rollback(t)
    PROVE  ParkedInv'
<1> USE DEF ParkedInv
<1>1. /\ tx' = [tx EXCEPT ![t] = Idle] /\ locked' = None /\ tx[t] # Idle
      /\ UNCHANGED <<card, edges, blocker, waits, outside, answers, eval>>
    BY DEF Rollback
<1>2. \A s \in Requests : tx'[s] = Idle
    BY <1>1 DEF LockHeld, ParkedTypeOK
<1>3. ParkedTypeOK'
    BY <1>1 DEF ParkedTypeOK
<1>4. SnapshotUnchanged' /\ CandidateHolds' /\ AnswersAreReceipts'
    BY <1>1 DEF SnapshotUnchanged, CandidateHolds, AnswersAreReceipts, Open
<1>5. LockHeld' /\ ChecksHold'
    BY <1>1, <1>2, ParkedAssumption DEF LockHeld, ChecksHold, Idle
<1> QED
    BY <1>3, <1>4, <1>5

\* The commit of a release: the wake, the receipt and the answer in one step.
LEMMA CommitInv ==
    ASSUME ParkedInv, NEW t \in Requests, CommitRelease(t)
    PROVE  ParkedInv'
<1> USE DEF ParkedInv
<1> DEFINE w == tx[t].wait
           v == card.version + 1
           c == [release |-> tx[t].release, actor |-> tx[t].actor, version |-> v]
           x == [wait |-> w, release |-> tx[t].release, actor |-> tx[t].actor, version |-> v]
<1>1. /\ card' = [card EXCEPT !.category = "todo", !.mark = "none", !.version = v, !.edited = v,
                              !.lease = IF waits[w].mode = "owned" THEN None ELSE @,
                              !.live = IF waits[w].mode = "owned" THEN FALSE ELSE @]
      /\ waits' = [waits EXCEPT ![w].receipt = c]
      /\ answers' = answers \cup {x}
      /\ locked' = None /\ tx' = [tx EXCEPT ![t] = Idle] /\ tx[t] # Idle
      /\ UNCHANGED <<edges, blocker, outside, eval>>
    BY DEF CommitRelease, Idle
<1>2. tx[t] \in Release /\ w \in Waits /\ tx[t].release \in ReleaseIds /\ tx[t].actor \in Agents
    BY <1>1 DEF ParkedTypeOK, Release
<1>3. card.version \in Nat /\ card.edited \in Nat /\ card.edited <= card.version /\ v \in Nat /\ card.version < v
    BY DEF ParkedTypeOK, Card, CandidateHolds
<1>4. card' \in Card /\ card'.version = v /\ card'.edited = v
    BY <1>1, <1>3 DEF ParkedTypeOK, Card, Categories, Marks
<1>5. c \in Receipt /\ x \in [wait : Waits, release : ReleaseIds, actor : Agents, version : Nat]
    BY <1>2, <1>3 DEF Receipt
<1>6. Open(w) /\ waits[w] \in WaitRow
    BY <1>1, <1>2 DEF LockHeld, Open, ParkedTypeOK
<1>7. waits' \in [Waits -> WaitRow \cup {None}]
  <2>1. [waits[w] EXCEPT !.receipt = c] \in WaitRow
      BY <1>5, <1>6 DEF WaitRow
  <2>2. waits' = [waits EXCEPT ![w] = [waits[w] EXCEPT !.receipt = c]]
      BY <1>1, <1>2 DEF ParkedTypeOK
  <2> QED
      BY <2>1, <2>2 DEF ParkedTypeOK
<1>8. waits'[w] # None /\ waits'[w].receipt = c /\ waits'[w].version = waits[w].version /\ c # None
  <2>1. c # None
      BY <1>5, ParkedAssumption
  <2>2. waits'[w] = [waits[w] EXCEPT !.receipt = c]
      BY <1>1, <1>2 DEF ParkedTypeOK
  <2>3. waits'[w].receipt = c /\ waits'[w].version = waits[w].version
      BY <1>6, <2>2 DEF WaitRow
  <2>4. waits'[w] # None
      BY <1>5, <1>6, <2>2, ParkedAssumption DEF WaitRow
  <2> QED
      BY <2>1, <2>3, <2>4
<1>9. \A u \in Waits : u # w => waits'[u] = waits[u]
    BY <1>1 DEF ParkedTypeOK
<1> HIDE DEF c, x, w, v
<1>10. ParkedTypeOK'
    BY <1>1, <1>4, <1>5, <1>7 DEF ParkedTypeOK
<1>11. Open(w) /\ waits[w].version = card.version /\ \A u \in Waits : Open(u)' => Open(u) /\ waits'[u] = waits[u]
    BY <1>1, <1>2, <1>6, <1>8, <1>9 DEF Open, LockHeld, w
<1>12. \A u \in Waits : waits[u] # None => waits[u].version \in Nat /\ waits[u].version < v
    BY <1>3 DEF CandidateHolds, ParkedTypeOK, WaitRow
<1>13. SnapshotUnchanged'
    BY <1>3, <1>4, <1>11, <1>12 DEF SnapshotUnchanged, Open
<1>14. \A s \in Requests : tx'[s] = Idle
    BY <1>1 DEF LockHeld, ParkedTypeOK
<1>15. LockHeld' /\ ChecksHold'
    BY <1>1, <1>14, ParkedAssumption DEF LockHeld, ChecksHold, Idle
<1>16. CandidateHolds'
  <2>1. \A u \in Waits : waits'[u] # None => waits'[u].version <= card'.version
      BY <1>2, <1>3, <1>4, <1>6, <1>8, <1>9, <1>12 DEF Open
  <2>2. \A e \in Evals : eval[e] # Idle => eval[e].edited \in Nat /\ eval[e].version \in Nat
      BY DEF ParkedTypeOK, Eval
  <2>3. ASSUME NEW e \in Evals, eval[e] # Idle
        PROVE  /\ eval[e].edited < card'.edited
               /\ eval[e].pc = "write" => eval[e].version < card'.version
      BY <1>3, <1>4, <2>2, <2>3 DEF CandidateHolds
  <2> QED
      BY <1>1, <1>3, <1>4, <2>1, <2>2, <2>3 DEF CandidateHolds
<1>17. AnswersAreReceipts'
  <2>1. ASSUME NEW y \in answers PROVE y.wait \in Waits /\ y.wait # w
    <3>1. y \in [wait : Waits, release : ReleaseIds, actor : Agents, version : Nat]
        BY DEF ParkedTypeOK
    <3> DEFINE z == [release |-> y.release, actor |-> y.actor, version |-> y.version]
    <3>2. z \in Receipt /\ y.wait \in Waits
        BY <3>1 DEF Receipt
    <3>3. waits[y.wait].receipt = z
        BY DEF AnswersAreReceipts
    <3> HIDE DEF z
    <3> QED
        BY <1>6, <3>2, <3>3, ParkedAssumption DEF Open
  <2>2. x.wait = w /\ [release |-> x.release, actor |-> x.actor, version |-> x.version] = c
      BY DEF x, c
  <2> QED
      BY <1>1, <1>8, <1>9, <2>1, <2>2 DEF AnswersAreReceipts
<1> QED
    BY <1>10, <1>13, <1>15, <1>16, <1>17

\* Time, the blockers and the rest of the world change only what no release holds.
LEMMA WorldInv ==
    ASSUME ParkedInv,
           \/ LeaseLapses \/ Outside
           \/ \E b \in Blockers, s \in {"open", "done", "deleted"} : WriteBlocker(b, s)
    PROVE  ParkedInv'
<1> USE DEF ParkedInv
<1>1. CASE LeaseLapses
  <2>1. /\ card' \in Card /\ card'.version = card.version /\ card'.edited = card.edited
        /\ card'.category = card.category /\ card'.held = card.held /\ card'.mark = card.mark
        /\ card'.lease = card.lease
      BY <1>1 DEF LeaseLapses, ParkedTypeOK, Card
  <2>2. UNCHANGED <<edges, blocker, waits, outside, locked, tx, answers, eval>>
      BY <1>1 DEF LeaseLapses
  <2>3. ParkedTypeOK'
      BY <2>1, <2>2 DEF ParkedTypeOK
  <2>4. SnapshotUnchanged' /\ LockHeld' /\ ChecksHold' /\ CandidateHolds' /\ AnswersAreReceipts'
      BY <2>1, <2>2 DEF SnapshotUnchanged, LockHeld, ChecksHold, CandidateHolds, AnswersAreReceipts, Open, Holding
  <2> QED
      BY <2>3, <2>4
<1>2. CASE Outside
  <2>1. UNCHANGED <<card, edges, blocker, waits, locked, tx, answers, eval>>
      BY <1>2 DEF Outside
  <2>2. outside' \in [pipeline : BOOLEAN, date : BOOLEAN, assignee : BOOLEAN]
      BY <1>2 DEF Outside, ParkedTypeOK
  <2>3. outside'.assignee = outside.assignee \/ AssigneeFree
      BY <1>2 DEF Outside, ParkedTypeOK
  <2>4. ParkedTypeOK'
      BY <2>1, <2>2 DEF ParkedTypeOK
  <2>5. ChecksHold'
      BY <2>1, <2>3 DEF ChecksHold, Holding, AssigneeFree
  <2>6. SnapshotUnchanged' /\ LockHeld' /\ CandidateHolds' /\ AnswersAreReceipts'
      BY <2>1 DEF SnapshotUnchanged, LockHeld, CandidateHolds, AnswersAreReceipts, Open
  <2> QED
      BY <2>4, <2>5, <2>6
<1>3. ASSUME NEW b \in Blockers, NEW s \in {"open", "done", "deleted"}, WriteBlocker(b, s) PROVE ParkedInv'
  <2>1. blocker' = [blocker EXCEPT ![b] = s] /\ UNCHANGED <<card, edges, waits, outside, locked, tx, answers, eval>>
      BY <1>3 DEF WriteBlocker
  <2>2. ParkedTypeOK'
      BY <2>1 DEF ParkedTypeOK
  <2>3. b \notin edges => Holding' = Holding
      BY <2>1 DEF Holding, ParkedTypeOK
  <2>4. b \notin edges \/ BlockersFree
      BY <1>3 DEF WriteBlocker
  <2>5. ChecksHold'
      BY <2>1, <2>3, <2>4 DEF ChecksHold, BlockersFree
  <2>6. SnapshotUnchanged' /\ LockHeld' /\ CandidateHolds' /\ AnswersAreReceipts'
      BY <2>1 DEF SnapshotUnchanged, LockHeld, CandidateHolds, AnswersAreReceipts, Open
  <2> QED
      BY <2>2, <2>5, <2>6
<1> QED
    BY <1>1, <1>2, <1>3

\* Every step keeps the invariant.
LEMMA NextInv == ParkedInv /\ [Next]_vars => ParkedInv'
<1> SUFFICES ASSUME ParkedInv, [Next]_vars PROVE ParkedInv'
    OBVIOUS
<1>1. CASE UNCHANGED vars
    BY <1>1 DEF vars, ParkedInv, ParkedTypeOK, SnapshotUnchanged, LockHeld, ChecksHold, CandidateHolds,
       AnswersAreReceipts, Open, Holding
<1>2. ASSUME NEW w \in Waits, NEW a \in Agents, NEW reason \in Reasons, NEW on \in Blockers \cup {None},
             NEW mode \in {"absent", "owned"}, RegisterParkedWait(w, a, reason, on, mode)
      PROVE  ParkedInv'
    BY <1>2, RegisterInv
<1>3. ASSUME NEW w \in Waits, NEW a \in Agents, NEW r \in ReleaseIds, ReplayRelease(w, a, r)
      PROVE  ParkedInv'
    BY <1>3, ReplayInv
<1>4. ASSUME NEW t \in Requests, ReleaseStep(t) PROVE ParkedInv'
    BY <1>4, BeginInv, ReleaseProgressInv, CommitInv, RollbackInv DEF ReleaseStep
<1>5. ASSUME NEW e \in Evals, EvalStep(e) PROVE ParkedInv'
    BY <1>5, EvaluationInv, CardWritersInv DEF EvalStep
<1>6. CASE Environment
    BY <1>6, CardWritersInv, WorldInv DEF Environment
<1> QED
    BY <1>1, <1>2, <1>3, <1>4, <1>5, <1>6 DEF Next

\* In every behaviour a release under way is protected by its locks, and the version and
\* updated_at noted by registrations and evaluations reveal every write they depend on.
THEOREM ParkedInvariant == Spec => []ParkedInv
    BY InitInv, NextInv, PTL DEF Spec

\* While an unreleased wait carries the card's version, the card is as the owner parked it.
THEOREM SnapshotTheorem == Spec => []SnapshotUnchanged
<1>1. ParkedInv => SnapshotUnchanged
    BY DEF ParkedInv
<1> QED
    BY <1>1, ParkedInvariant, PTL

\* Every successful answer to a release call, first or repeated, is the stored receipt.
THEOREM AnswersTheorem == Spec => []AnswersAreReceipts
<1>1. ParkedInv => AnswersAreReceipts
    BY DEF ParkedInv
<1> QED
    BY <1>1, ParkedInvariant, PTL

\* Only a registration and the commit of a release write the registrations.
LEMMA WaitsWriters ==
    ASSUME [Next]_vars, waits' # waits
    PROVE  \/ \E t \in Requests : CommitRelease(t)
           \/ \E w \in Waits : waits[w] = None /\ \E p : waits' = [waits EXCEPT ![w] = p]
<1>1. ASSUME NEW w \in Waits, NEW a \in Agents, NEW reason \in Reasons, NEW on \in Blockers \cup {None},
             NEW mode \in {"absent", "owned"}, RegisterParkedWait(w, a, reason, on, mode)
      PROVE  waits[w] = None /\ \E p : waits' = [waits EXCEPT ![w] = p]
    BY <1>1 DEF RegisterParkedWait
<1>2. ASSUME NEW t \in Requests, ReleaseStep(t) PROVE CommitRelease(t)
    BY <1>2 DEF ReleaseStep, BeginRelease, SelectBlockers, LockBlockers, ReadBlockers, LockAssignee, Verify, Rollback
<1>3. ASSUME NEW e \in Evals, EvalStep(e) PROVE FALSE
    BY <1>3 DEF EvalStep, ReadCandidate, ReadEdges, ReadBlocker, MoveTask, UpdateTransition, GiveUp
<1>4. CASE Environment
    BY <1>4 DEF Environment, WriteCard, CommitProductDone, WriteLease, LeaseLapses, Comment, WriteEdges,
       WriteBlocker, Outside
<1>5. \A w \in Waits, a \in Agents, r \in ReleaseIds : ~ReplayRelease(w, a, r)
    BY DEF ReplayRelease
<1>6. waits # waits' => ~UNCHANGED vars
    BY DEF vars
<1> QED
    BY <1>1, <1>2, <1>3, <1>4, <1>5, <1>6 DEF Next

\* A wait wakes its card only when nothing holds the card at the moment of the commit.
THEOREM ReleaseWakesOnlyFreed == Spec => WakesOnlyFreed
<1> DEFINE Freed(w) == /\ Holding = {} /\ outside.assignee
                       /\ card.category = "backlog" /\ ~card.held
                       /\ waits[w].version = card.version
                       /\ card.lease # None => card.live /\ card'.lease = None
<1>1. ASSUME ParkedInv, [Next]_vars, NEW w \in Waits, Open(w), ~Open(w)' PROVE Freed(w)
  <2>1. waits' # waits
      BY <1>1 DEF Open
  <2>2. ~\E u \in Waits : waits[u] = None /\ \E p : waits' = [waits EXCEPT ![u] = p]
    <3>1. ASSUME NEW u \in Waits, waits[u] = None, NEW p, waits' = [waits EXCEPT ![u] = p] PROVE FALSE
      <4>1. u # w /\ waits'[w] = waits[w]
          BY <1>1, <3>1 DEF Open, ParkedInv, ParkedTypeOK
      <4> QED
          BY <1>1, <4>1 DEF Open
    <3> QED
        BY <3>1
  <2>3. PICK t \in Requests : CommitRelease(t)
      BY <1>1, <2>1, <2>2, WaitsWriters
  <2>4. tx[t] # Idle /\ tx[t].pc = "commit"
      BY <2>3 DEF CommitRelease, Idle
  <2>5. Holding = {} /\ outside.assignee
      BY <1>1, <2>4 DEF ParkedInv, ChecksHold
  <2>6. tx[t].wait \in Waits /\ tx[t].wait = w
    <3>1. tx[t].wait \in Waits
        BY <1>1, <2>4 DEF ParkedInv, ParkedTypeOK, Release
    <3>2. tx[t].wait # w => waits'[w] = waits[w]
        BY <1>1, <2>3, <3>1 DEF CommitRelease, ParkedInv, ParkedTypeOK
    <3> QED
        BY <1>1, <3>1, <3>2 DEF Open
  <2>7. waits[w].version = card.version /\ ParkedSnapshot(waits[w], tx[t].actor)
      BY <1>1, <2>3, <2>4, <2>6 DEF CommitRelease, ParkedSnapshot
  <2>8. card.category = "backlog" /\ ~card.held
      BY <1>1, <2>7 DEF ParkedInv, SnapshotUnchanged
  <2>9. waits[w].mode \in {"absent", "owned"}
      BY <1>1, ParkedAssumption DEF ParkedInv, ParkedTypeOK, WaitRow, Open
  <2>10. card.lease # None => waits[w].mode = "owned" /\ card.live
      BY <2>7, <2>9 DEF ParkedSnapshot
  <2>11. waits[w].mode = "owned" => card'.lease = None
      BY <1>1, <2>3, <2>6 DEF CommitRelease, ParkedInv, ParkedTypeOK, Card
  <2> QED
      BY <2>5, <2>7, <2>8, <2>10, <2>11
<1>2. ParkedInv /\ [Next]_vars => [\A w \in Waits : (Open(w) /\ ~Open(w)') => Freed(w)]_vars
    BY <1>1
<1> QED
    BY <1>2, ParkedInvariant, PTL DEF Spec, WakesOnlyFreed

\* An automatic move finds no unreleased registration and the card as it was evaluated.
THEOREM AutomaticTheorem == Spec => AutomaticHonoursCard
<1> DEFINE Honoured == /\ \A w \in Waits : ~Open(w)
                       /\ card.category = "backlog" /\ ~card.held /\ card.mark = "dependency"
<1>1. ASSUME ParkedInv, [Next]_vars, NEW e \in Evals, eval[e].pc = "write", card' # card, eval'[e] = Idle
      PROVE  Honoured
  <2>1. eval[e] # Idle /\ eval' # eval
      BY <1>1 DEF Idle
  <2>2. \E f \in Evals : UpdateTransition(f)
    <3>1. ASSUME NEW f \in Evals, EvalStep(f) PROVE UpdateTransition(f)
        BY <1>1, <3>1 DEF EvalStep, ReadCandidate, ReadEdges, ReadBlocker, MoveTask, GiveUp
    <3>2. ASSUME NEW t \in Requests, ReleaseStep(t) PROVE FALSE
        BY <2>1, <3>2 DEF ReleaseStep, BeginRelease, SelectBlockers, LockBlockers, ReadBlockers, LockAssignee,
           Verify, CommitRelease, Rollback
    <3>3. ~Environment
        BY <2>1 DEF Environment, WriteCard, CommitProductDone, WriteLease, LeaseLapses, Comment, WriteEdges,
           WriteBlocker, Outside
    <3>4. \A w \in Waits, a \in Agents, r \in ReleaseIds : ~ReplayRelease(w, a, r)
        BY <2>1 DEF ReplayRelease
    <3>5. \A w \in Waits, a \in Agents, reason \in Reasons, on \in Blockers \cup {None},
              mode \in {"absent", "owned"} : ~RegisterParkedWait(w, a, reason, on, mode)
        BY <2>1 DEF RegisterParkedWait
    <3>6. ~UNCHANGED vars
        BY <2>1 DEF vars
    <3> QED
        BY <1>1, <3>1, <3>2, <3>3, <3>4, <3>5, <3>6 DEF Next
  <2>3. PICK f \in Evals : UpdateTransition(f)
      BY <2>2
  <2>4. eval[f] # Idle /\ eval[f].pc = "write" /\ eval[f].version = card.version /\ \A w \in Waits : ~Open(w)
      BY <2>3 DEF UpdateTransition, Idle
  <2>5. eval[f].edited = card.edited
      BY <1>1, <2>4 DEF ParkedInv, CandidateHolds
  <2> QED
      BY <1>1, <2>4, <2>5 DEF ParkedInv, CandidateHolds
<1>2. ParkedInv /\ [Next]_vars =>
          [\A e \in Evals : (eval[e].pc = "write" /\ card' # card /\ eval'[e] = Idle) => Honoured]_vars
    BY <1>1
<1> QED
    BY <1>2, ParkedInvariant, PTL DEF Spec, AutomaticHonoursCard

---------------------------------------------------------------------------
(* A registration that has gone stale.                                     *)

\* No writer of the card takes its version back.
LEMMA VersionNeverFalls ==
    ASSUME ParkedInv, [Next]_vars
    PROVE  card'.version \in Nat /\ card'.version >= card.version
<1>t. card \in Card /\ card.version \in Nat
    BY DEF ParkedInv, ParkedTypeOK, Card
<1>1. ASSUME NEW t \in Requests, ReleaseStep(t)
      PROVE  card'.version \in {card.version, card.version + 1}
    BY <1>1, <1>t DEF ReleaseStep, BeginRelease, SelectBlockers, LockBlockers, ReadBlockers, LockAssignee,
       Verify, CommitRelease, Rollback, Card
<1>2. ASSUME NEW e \in Evals, EvalStep(e) PROVE card'.version \in {card.version, card.version + 1}
    BY <1>2, <1>t DEF EvalStep, ReadCandidate, ReadEdges, ReadBlocker, MoveTask, UpdateTransition, GiveUp, Card
<1>3. ASSUME Environment PROVE card'.version \in {card.version, card.version + 1}
  <2>1. ASSUME NEW c \in Categories, NEW h \in BOOLEAN, NEW m \in Marks, WriteCard(c, h, m)
        PROVE  card'.version = card.version + 1
      BY <2>1, <1>t DEF WriteCard, Card
  <2>2. ASSUME NEW a \in Agents \cup {None}, WriteLease(a) PROVE card'.version = card.version + 1
      BY <2>2, <1>t DEF WriteLease, Card
  <2>3. CommitProductDone => card'.version = card.version + 1
      BY <1>t DEF CommitProductDone, Card
  <2>4. LeaseLapses => card'.version = card.version
      BY <1>t DEF LeaseLapses, Card
  <2>5. ASSUME NEW n \in {0, 1}, Comment(n) PROVE card'.version = card.version + 1
      BY <2>5, <1>t DEF Comment, Card
  <2>6. ASSUME NEW es \in SUBSET Blockers, WriteEdges(es) PROVE card'.version = card.version + 1
      BY <2>6, <1>t DEF WriteEdges, Card
  <2>7. ASSUME NEW b \in Blockers, NEW s \in {"open", "done", "deleted"}, WriteBlocker(b, s)
        PROVE  card'.version = card.version
      BY <2>7 DEF WriteBlocker
  <2>8. Outside => card'.version = card.version
      BY DEF Outside
  <2> QED
      BY <1>3, <2>1, <2>2, <2>3, <2>4, <2>5, <2>6, <2>7, <2>8 DEF Environment
<1>4. ASSUME NEW w \in Waits, NEW a \in Agents, NEW r \in ReleaseIds, ReplayRelease(w, a, r)
      PROVE  card'.version = card.version
    BY <1>4 DEF ReplayRelease
<1>5. ASSUME NEW w \in Waits, NEW a \in Agents, NEW reason \in Reasons, NEW on \in Blockers \cup {None},
             NEW mode \in {"absent", "owned"}, RegisterParkedWait(w, a, reason, on, mode)
      PROVE  card'.version = card.version
    BY <1>5 DEF RegisterParkedWait
<1>6. UNCHANGED vars => card'.version = card.version
    BY DEF vars
<1>7. card'.version \in {card.version, card.version + 1}
  <2>1. Next => card'.version \in {card.version, card.version + 1}
      BY <1>1, <1>2, <1>3, <1>4, <1>5 DEF Next
  <2> QED
      BY <1>6, <2>1
<1> QED
    BY <1>7, <1>t

\* The commit of a release closes a registration of the card's own version only.
LEMMA StepKeepsStale ==
    ASSUME ParkedInv, [Next]_vars, NEW w \in Waits, Stale(w)
    PROVE  Stale(w)'
<1>w. Open(w) /\ waits[w].version \in Nat /\ card.version \in Nat /\ waits[w].version < card.version
    BY DEF Stale, Open, ParkedInv, ParkedTypeOK, Card, WaitRow
<1>1. waits'[w] = waits[w]
  <2>1. ASSUME NEW u \in Waits, waits[u] = None, NEW p, waits' = [waits EXCEPT ![u] = p]
        PROVE  waits'[w] = waits[w]
      BY <1>w, <2>1 DEF Open, ParkedInv, ParkedTypeOK
  <2>2. ASSUME NEW t \in Requests, CommitRelease(t) PROVE waits'[w] = waits[w]
    <3>1. tx[t] # Idle
        BY <2>2 DEF CommitRelease, Idle
    <3>2. tx[t].wait \in Waits /\ waits[tx[t].wait].version = card.version
        BY <3>1 DEF ParkedInv, ParkedTypeOK, LockHeld, Release
    <3>3. tx[t].wait # w
        BY <1>w, <3>2
    <3> QED
        BY <2>2, <3>2, <3>3 DEF CommitRelease, ParkedInv, ParkedTypeOK
  <2> QED
      BY <2>1, <2>2, WaitsWriters
<1>2. card'.version \in Nat /\ card'.version >= card.version
    BY VersionNeverFalls
<1> QED
    BY <1>w, <1>1, <1>2 DEF Stale, Open

\* Nobody closes a stale registration: no release, whoever sends it, and no write of the card.
THEOREM StaleStays == Spec => StaleWaitStays
<1>1. ASSUME NEW w \in Waits PROVE Spec => [](Stale(w) => []Stale(w))
  <2>1. ParkedInv /\ [Next]_vars /\ Stale(w) => Stale(w)'
      BY StepKeepsStale
  <2> QED
      BY <2>1, ParkedInvariant, PTL DEF Spec
<1> QED
    BY <1>1 DEF StaleWaitStays
===========================================================================
