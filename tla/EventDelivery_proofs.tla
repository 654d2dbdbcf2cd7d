------------------------ MODULE EventDelivery_proofs ------------------------
(***************************************************************************)
(* No committed transition is lost and deliveries start in order, for any  *)
(* number of transitions, posts and API instances.                         *)
(***************************************************************************)
EXTENDS EventDelivery, TLAPS

LEMMA RemoveAtFacts ==
    ASSUME NEW S, NEW s \in Seq(S), NEW i \in 1 .. Len(s)
    PROVE  /\ RemoveAt(s, i) \in Seq(S)
           /\ Len(RemoveAt(s, i)) = Len(s) - 1
           /\ \A j \in 1 .. Len(s) - 1 : RemoveAt(s, i)[j] = IF j < i THEN s[j] ELSE s[j + 1]
<1>1. SubSeq(s, 1, i - 1) \in Seq(S) /\ Len(SubSeq(s, 1, i - 1)) = i - 1
    OBVIOUS
<1>2. SubSeq(s, i + 1, Len(s)) \in Seq(S) /\ Len(SubSeq(s, i + 1, Len(s))) = Len(s) - i
    OBVIOUS
<1>3. \A j \in 1 .. i - 1 : SubSeq(s, 1, i - 1)[j] = s[j]
    OBVIOUS
<1>4. \A j \in 1 .. Len(s) - i : SubSeq(s, i + 1, Len(s))[j] = s[i + j]
    OBVIOUS
<1> DEFINE a == SubSeq(s, 1, i - 1)
           b == SubSeq(s, i + 1, Len(s))
<1>5. RemoveAt(s, i) = a \o b
    BY DEF RemoveAt
<1> HIDE DEF a, b
<1>6. /\ a \o b \in Seq(S) /\ Len(a \o b) = Len(a) + Len(b)
      /\ \A j \in 1 .. Len(a) + Len(b) : (a \o b)[j] = IF j <= Len(a) THEN a[j] ELSE b[j - Len(a)]
  <2>1. a \in Seq(S) /\ b \in Seq(S)
      BY <1>1, <1>2 DEF a, b
  <2> QED
      BY <2>1
<1>7. /\ Len(a) = i - 1 /\ Len(b) = Len(s) - i
      /\ \A j \in 1 .. i - 1 : a[j] = s[j]
      /\ \A j \in 1 .. Len(s) - i : b[j] = s[i + j]
    BY <1>1, <1>2, <1>3, <1>4 DEF a, b
<1>8. Len(s) \in Nat /\ i \in Nat /\ i <= Len(s)
    OBVIOUS
<1>9. \A j \in 1 .. Len(s) - 1 : (a \o b)[j] = IF j < i THEN s[j] ELSE s[j + 1]
  <2> SUFFICES ASSUME NEW j \in 1 .. Len(s) - 1
               PROVE  (a \o b)[j] = IF j < i THEN s[j] ELSE s[j + 1]
      OBVIOUS
  <2>1. CASE j < i
      BY <2>1, <1>6, <1>7, <1>8
  <2>2. CASE ~(j < i)
    <3>1. j - (i - 1) \in 1 .. Len(s) - i /\ i + (j - (i - 1)) = j + 1
        BY <2>2, <1>8
    <3>2. (a \o b)[j] = b[j - (i - 1)]
        BY <2>2, <1>6, <1>7, <1>8, SMTT(30)
    <3> QED
        BY <2>2, <3>1, <3>2, <1>7
  <2> QED
      BY <2>1, <2>2
<1> QED
    BY <1>5, <1>6, <1>7, <1>8, <1>9

LEMMA InitDelivery == Init => DeliveryInv /\ StartedInOrder
<1> SUFFICES ASSUME Init PROVE DeliveryInv /\ StartedInOrder
    OBVIOUS
<1>1. TypeOK
    BY DEF Init, TypeOK, Idle, Events
<1>2. OnePlace /\ RowsLocked
    BY DEF Init, OnePlace, RowsLocked, Queued, Idle
<1>3. AckedIsStored /\ NothingLost
    BY DEF Init, AckedIsStored, NothingLost, Committed, Queued, Idle
<1>4. QueueInOrder /\ StartedInOrder
    BY DEF Init, QueueInOrder, StartedInOrder, Committed, Queued, Idle
<1> QED
    BY <1>1, <1>2, <1>3, <1>4 DEF DeliveryInv

-----------------------------------------------------------------------------
(* What the queue operations do to the set and the order of the queue. *)

\* No value is in the queue twice, and rows that were never taken are in order.
Ordered(q, taken) ==
    /\ \A i, j \in DOMAIN q : q[i] = q[j] => i = j
    /\ \A i, j \in DOMAIN q : q[i] \notin taken /\ q[j] \notin taken /\ q[i] < q[j] => i < j

Elems(q) == {q[i] : i \in DOMAIN q}

LEMMA RemoveOrdered ==
    ASSUME NEW S, NEW taken, NEW q \in Seq(S), NEW k \in DOMAIN q, Ordered(q, taken),
           NEW p, p = RemoveAt(q, k)
    PROVE  p \in Seq(S) /\ Ordered(p, taken) /\ Elems(p) = Elems(q) \ {q[k]}
<1> DEFINE at(j) == IF j < k THEN j ELSE j + 1
<1>1. DOMAIN q = 1 .. Len(q) /\ Len(q) \in Nat /\ k \in 1 .. Len(q)
    OBVIOUS
<1>2. /\ p \in Seq(S) /\ Len(p) = Len(q) - 1
      /\ \A j \in 1 .. Len(q) - 1 : p[j] = q[at(j)]
    BY <1>1, RemoveAtFacts
<1>3. DOMAIN p = 1 .. Len(q) - 1
    BY <1>2
<1>4. \A j \in DOMAIN p : at(j) \in DOMAIN q /\ at(j) # k /\ p[j] = q[at(j)]
    BY <1>1, <1>2, <1>3
<1>5. \A i, j \in DOMAIN p : (at(i) = at(j) => i = j) /\ (at(i) < at(j) => i < j)
    BY <1>1, <1>3
<1>6. \A i \in DOMAIN q : i # k => \E j \in DOMAIN p : at(j) = i
  <2> SUFFICES ASSUME NEW i \in DOMAIN q, i # k PROVE \E j \in DOMAIN p : at(j) = i
      OBVIOUS
  <2>1. CASE i < k
      BY <2>1, <1>1, <1>3
  <2>2. CASE i > k
    <3>1. i - 1 \in DOMAIN p /\ at(i - 1) = i
        BY <2>2, <1>1, <1>3
    <3> QED
        BY <3>1
  <2> QED
      BY <2>1, <2>2, <1>1
<1> HIDE DEF at
<1>7. Ordered(p, taken)
    BY <1>4, <1>5 DEF Ordered
<1>8. {p[i] : i \in DOMAIN p} = {q[i] : i \in DOMAIN q} \ {q[k]}
  <2>1. ASSUME NEW j \in DOMAIN p PROVE p[j] \in {q[i] : i \in DOMAIN q} \ {q[k]}
      BY <1>4 DEF Ordered
  <2>2. ASSUME NEW i \in DOMAIN q, q[i] # q[k] PROVE q[i] \in {p[j] : j \in DOMAIN p}
      BY <2>2, <1>4, <1>6
  <2> QED
      BY <2>1, <2>2
<1> QED
    BY <1>2, <1>7, <1>8 DEF Elems

\* A row that may be appended: a new one, or one that was taken before.
MayFollow(e, q, taken) == \A i \in DOMAIN q : q[i] # e /\ (e \in taken \/ q[i] < e)
IsAppend(p, q, e) == p = Append(q, e)

LEMMA AppendOrdered ==
    ASSUME NEW taken, NEW q \in Seq(Commits), NEW e \in Commits, Ordered(q, taken),
           MayFollow(e, q, taken), NEW p, IsAppend(p, q, e)
    PROVE  p \in Seq(Commits) /\ Ordered(p, taken) /\ Elems(p) = Elems(q) \cup {e}
<1> DEFINE n == Len(q) + 1
<1>0. p = Append(q, e) /\ \A i \in DOMAIN q : q[i] # e /\ (e \in taken \/ q[i] < e)
    BY DEF MayFollow, IsAppend
<1>1. DOMAIN q = 1 .. Len(q) /\ Len(q) \in Nat
    OBVIOUS
<1>2. /\ p \in Seq(Commits) /\ DOMAIN p = 1 .. n /\ p[n] = e
      /\ \A j \in DOMAIN q : p[j] = q[j]
    BY <1>0
<1>3. \A j \in DOMAIN q : q[j] \in Commits
    OBVIOUS
<1>4. \A i \in DOMAIN p : i \in DOMAIN q \/ i = n
    BY <1>1, <1>2
<1>5. Ordered(p, taken)
  <2>1. ASSUME NEW i \in DOMAIN p, NEW j \in DOMAIN p, p[i] = p[j] PROVE i = j
      BY <2>1, <1>0, <1>2, <1>4 DEF Ordered
  <2>2. ASSUME NEW i \in DOMAIN p, NEW j \in DOMAIN p,
               p[i] \notin taken, p[j] \notin taken, p[i] < p[j]
        PROVE  i < j
    <3>1. CASE i \in DOMAIN q /\ j \in DOMAIN q
        BY <2>2, <3>1, <1>2 DEF Ordered
    <3>2. CASE i \in DOMAIN q /\ j = n
        BY <3>2, <1>1
    <3>3. CASE i = n
      <4>1. \A m \in DOMAIN q : q[m] < e
          BY <2>2, <3>3, <1>0, <1>2
      <4>2. j = n \/ (j \in DOMAIN q /\ p[j] = q[j])
          BY <1>2, <1>4
      <4>3. e \in Nat /\ \A m \in DOMAIN q : q[m] \in Nat
          BY <1>3 DEF Commits
      <4>4. CASE j = n
          BY <2>2, <3>3, <4>3, <4>4, <1>2
      <4>5. CASE j \in DOMAIN q /\ p[j] = q[j]
        <5>1. q[j] < e /\ e < q[j]
            BY <2>2, <3>3, <4>1, <4>5, <1>2
        <5> QED
            BY <5>1, <4>3, <4>5
      <4> QED
          BY <4>2, <4>4, <4>5
    <3> QED
        BY <3>1, <3>2, <3>3, <1>4
  <2> QED
      BY <2>1, <2>2 DEF Ordered
<1>6. {p[i] : i \in DOMAIN p} = {q[i] : i \in DOMAIN q} \cup {e}
    BY <1>1, <1>2, <1>4
<1> QED
    BY <1>2, <1>5, <1>6 DEF Elems

-----------------------------------------------------------------------------
(* The parts of the invariant a step does not touch.                        *)

\* A step that leaves the outbox alone keeps what is said of it alone.
LEMMA OutboxUntouched ==
    ASSUME DeliveryInv, StartedInOrder, UNCHANGED outbox
    PROVE  OnePlace' /\ RowsLocked' /\ QueueInOrder' /\ StartedInOrder'
    BY DEF outbox, DeliveryInv, OnePlace, RowsLocked, QueueInOrder, StartedInOrder,
           Committed, Queued, Idle

\* What a publish does to JetStream, stored or not.
LEMMA MaybeStoreFacts ==
    ASSUME TypeOK, AckedIsStored, NEW e \in Events, NEW kept \in BOOLEAN, MaybeStore(e, kept)
    PROVE  /\ stored' \subseteq Events /\ recent' \subseteq Events /\ unacked' \in [Events -> Nat]
           /\ stored \subseteq stored' /\ recent' \subseteq stored'
           /\ kept => e \in stored'
           /\ \A x \in Events : unacked'[x] > 0 => x \in stored'
<1>1. CASE kept
  <2>1. unacked' \in [Events -> Nat]
      BY <1>1 DEF MaybeStore, Store, TypeOK
  <2> QED
      BY <1>1, <2>1 DEF MaybeStore, Store, TypeOK, AckedIsStored
<1>2. CASE ~kept
    BY <1>2 DEF MaybeStore, broker, TypeOK, AckedIsStored
<1> QED
    BY <1>1, <1>2

LEMMA ForgetInv ==
    ASSUME NEW e \in Commits, DeliveryInv, StartedInOrder, Forget(e)
    PROVE  DeliveryInv' /\ StartedInOrder'
<1> USE DEF Forget, DeliveryInv
<1>1. TypeOK'
    BY DEF TypeOK, outbox
<1>2. AckedIsStored' /\ NothingLost'
    BY DEF AckedIsStored, NothingLost, outbox, Committed, Queued
<1> QED
    BY <1>1, <1>2, OutboxUntouched

LEMMA PublishInv ==
    ASSUME NEW p \in Posts, DeliveryInv, StartedInOrder, Publish(p)
    PROVE  DeliveryInv' /\ StartedInOrder'
<1> USE DEF Publish, broker, DeliveryInv
<1>1. TypeOK'
    BY DeliveryAssumption DEF TypeOK, outbox, Events
<1>2. AckedIsStored'
    BY DEF AckedIsStored, outbox
<1>3. NothingLost'
    BY DEF NothingLost, outbox, Committed, Queued, TypeOK
<1> QED
    BY <1>1, <1>2, <1>3, OutboxUntouched

LEMMA PublishEventInv ==
    ASSUME NEW p \in Posts, NEW kept \in BOOLEAN, NEW told \in BOOLEAN,
           DeliveryInv, StartedInOrder, PublishEvent(p, kept, told)
    PROVE  DeliveryInv' /\ StartedInOrder'
<1> USE DEF PublishEvent, DeliveryInv
<1>s. /\ stored' \subseteq Events /\ recent' \subseteq Events /\ unacked' \in [Events -> Nat]
      /\ stored \subseteq stored' /\ recent' \subseteq stored' /\ (kept => p \in stored')
      /\ \A x \in Events : unacked'[x] > 0 => x \in stored'
    BY MaybeStoreFacts DEF Events
<1>1. TypeOK'
    BY <1>s DEF TypeOK, outbox
<1>2. AckedIsStored'
    BY <1>s DEF AckedIsStored, outbox
<1>3. NothingLost'
    BY <1>s DEF NothingLost, outbox, Committed, Queued, TypeOK
<1> QED
    BY <1>1, <1>2, <1>3, OutboxUntouched

LEMMA CreateInlineInv ==
    ASSUME NEW p \in Posts, NEW written \in BOOLEAN, DeliveryInv, StartedInOrder, CreateInline(p, written)
    PROVE  DeliveryInv' /\ StartedInOrder'
<1> USE DEF CreateInline, broker, DeliveryInv
<1>1. TypeOK'
    BY DeliveryAssumption DEF TypeOK, outbox, Events
<1>2. AckedIsStored'
    BY DEF AckedIsStored, outbox
<1>3. NothingLost'
    BY DEF NothingLost, outbox, Committed, Queued, TypeOK
<1> QED
    BY <1>1, <1>2, <1>3, OutboxUntouched

LEMMA CreateFallbackInv ==
    ASSUME NEW p \in Posts, NEW written \in BOOLEAN, DeliveryInv, StartedInOrder, CreateFallback(p, written)
    PROVE  DeliveryInv' /\ StartedInOrder'
<1> USE DEF CreateFallback, broker, DeliveryInv
<1>1. TypeOK'
    BY DeliveryAssumption DEF TypeOK, outbox, Events
<1>2. AckedIsStored'
    BY DEF AckedIsStored, outbox
<1>3. NothingLost'
    BY DEF NothingLost, outbox, Committed, Queued, TypeOK
<1> QED
    BY <1>1, <1>2, <1>3, OutboxUntouched

LEMMA PublishDiesInv ==
    ASSUME NEW p \in Posts, DeliveryInv, StartedInOrder, PublishDies(p)
    PROVE  DeliveryInv' /\ StartedInOrder'
<1> USE DEF PublishDies, broker, DeliveryInv
<1>1. TypeOK'
    BY DeliveryAssumption DEF TypeOK, outbox, Events
<1>2. AckedIsStored'
    BY DEF AckedIsStored, outbox
<1>3. NothingLost'
    BY DEF NothingLost, outbox, Committed, Queued, TypeOK
<1> QED
    BY <1>1, <1>2, <1>3, OutboxUntouched

LEMMA ProcessPGWriterMessageInv ==
    ASSUME NEW e \in Events, NEW written \in BOOLEAN, NEW acked \in BOOLEAN,
           DeliveryInv, StartedInOrder, ProcessPGWriterMessage(e, written, acked)
    PROVE  DeliveryInv' /\ StartedInOrder'
<1> USE DEF ProcessPGWriterMessage, broker, DeliveryInv
<1>1. TypeOK'
    BY DeliveryAssumption DEF TypeOK, outbox, Events
<1>2. AckedIsStored'
    BY DEF AckedIsStored, outbox
<1>3. NothingLost'
    BY DEF NothingLost, outbox, Committed, Queued, TypeOK
<1> QED
    BY <1>1, <1>2, <1>3, OutboxUntouched

LEMMA ExpireInv ==
    ASSUME NEW e \in Expiring, DeliveryInv, StartedInOrder, Expire(e)
    PROVE  DeliveryInv' /\ StartedInOrder'
<1> USE DEF Expire, broker, DeliveryInv
<1>1. TypeOK'
    BY DeliveryAssumption DEF TypeOK, outbox, Events
<1>2. AckedIsStored'
    BY DEF AckedIsStored, outbox
<1>3. NothingLost'
    BY DEF NothingLost, outbox, Committed, Queued, TypeOK
<1> QED
    BY <1>1, <1>2, <1>3, OutboxUntouched

LEMMA DeleteExpiredInv ==
    ASSUME DeliveryInv, StartedInOrder, DeleteExpired
    PROVE  DeliveryInv' /\ StartedInOrder'
<1> USE DEF DeleteExpired, broker, DeliveryInv
<1>1. TypeOK'
    BY DeliveryAssumption DEF TypeOK, outbox, Events
<1>2. AckedIsStored'
    BY DEF AckedIsStored, outbox
<1>3. NothingLost'
    BY DEF NothingLost, outbox, Committed, Queued, TypeOK
<1> QED
    BY <1>1, <1>2, <1>3, OutboxUntouched

-----------------------------------------------------------------------------
(* The transaction of a worker.                                             *)

Stages == [pc : {"idle", "publish", "ack", "retry"}, event : Commits \cup {None}]

\* A worker whose row stays where it is goes on to another stage, or rolls back.
LEMMA WorkerMoves ==
    ASSUME NEW w \in Workers, DeliveryInv, StartedInOrder, worker[w] # Idle,
           NEW to \in Stages, to = Idle \/ (to.event = worker[w].event /\ to.pc # "idle"),
           worker' = [worker EXCEPT ![w] = to],
           UNCHANGED <<ready, waiting, delivered, begun>>
    PROVE  /\ worker' \in [Workers -> Stages]
           /\ OnePlace' /\ RowsLocked' /\ QueueInOrder' /\ StartedInOrder'
<1> USE DEF DeliveryInv
<1>1. worker \in [Workers -> Stages]
    BY DEF TypeOK, Stages
<1>2. worker' \in [Workers -> Stages] /\ worker'[w] = to
      /\ \A v \in Workers \ {w} : worker'[v] = worker[v]
    BY <1>1
<1>3. worker[w].event \in Queued /\ worker[w].event \in begun
    BY DEF RowsLocked, QueueInOrder
<1>4. to.pc = "idle" <=> to = Idle
    BY DEF Idle
<1>5. RowsLocked'
  <2> SUFFICES ASSUME NEW v \in Workers
               PROVE  /\ worker'[v].pc = "idle" <=> worker'[v] = Idle
                      /\ worker'[v] # Idle => worker'[v].event \in Queued
                      /\ \A u \in Workers \ {v} :
                           worker'[u] # Idle => worker'[u].event # worker'[v].event
      BY DEF RowsLocked, Queued, Idle
  <2>1. (worker'[v].pc = "idle" <=> worker'[v] = Idle) /\ (worker'[v] # Idle => worker'[v].event \in Queued)
      BY <1>2, <1>3, <1>4 DEF RowsLocked
  <2>2. ASSUME NEW u \in Workers \ {v}, worker'[u] # Idle
        PROVE  worker'[u].event # worker'[v].event
    <3>1. worker[u] # Idle /\ worker'[u].event = worker[u].event
        BY <2>2, <1>2
    <3>2. CASE worker'[v] # Idle
        BY <2>2, <3>1, <3>2, <1>2 DEF RowsLocked
    <3>3. CASE worker'[v] = Idle
      <4>1. worker[u].event \in Commits
          BY <3>1, <1>1 DEF RowsLocked, Queued, TypeOK
      <4> QED
          BY <3>1, <3>3, <4>1, DeliveryAssumption DEF Idle, Events
    <3> QED
        BY <3>2, <3>3
  <2> QED
      BY <2>1, <2>2
<1>6. OnePlace' /\ StartedInOrder'
    BY DEF OnePlace, StartedInOrder, Queued
<1>7. QueueInOrder'
  <2>1. \A v \in Workers : worker'[v] # Idle => worker'[v].event \in begun
      BY <1>2, <1>3 DEF QueueInOrder
  <2> QED
      BY <2>1 DEF QueueInOrder, Committed, Queued, Idle
<1> QED
    BY <1>2, <1>5, <1>6, <1>7

LEMMA PublishCommittedInv ==
    ASSUME NEW w \in Workers, DeliveryInv, StartedInOrder, PublishCommitted(w)
    PROVE  DeliveryInv' /\ StartedInOrder'
<1> USE DEF PublishCommitted, DeliveryInv
<1> DEFINE to == [worker[w] EXCEPT !.pc = "ack"]
<1>1. worker[w] \in Stages /\ worker[w] # Idle /\ worker[w].event \in Commits
    BY DEF TypeOK, Stages, Idle, RowsLocked, Queued
<1>2. to \in Stages /\ to.event = worker[w].event /\ to.pc = "ack"
    BY <1>1 DEF Stages
<1>s. /\ stored' \subseteq Events /\ recent' \subseteq Events /\ unacked' \in [Events -> Nat]
      /\ stored \subseteq stored' /\ recent' \subseteq stored' /\ worker[w].event \in stored'
      /\ \A x \in Events : unacked'[x] > 0 => x \in stored'
  <2>1. MaybeStore(worker[w].event, TRUE) /\ worker[w].event \in Events
      BY <1>1 DEF MaybeStore, Events
  <2> QED
      BY <2>1, MaybeStoreFacts
<1> HIDE DEF to
<1>3. worker' = [worker EXCEPT ![w] = to] /\ UNCHANGED <<ready, waiting, delivered, begun, post, feed, expired>>
    BY DEF to
<1>4. /\ worker' \in [Workers -> Stages]
      /\ OnePlace' /\ RowsLocked' /\ QueueInOrder' /\ StartedInOrder'
    BY <1>1, <1>2, <1>3, WorkerMoves
<1>5. TypeOK'
    BY <1>s, <1>3, <1>4 DEF TypeOK, Stages
<1>6. AckedIsStored'
    BY <1>s, <1>2, <1>3 DEF AckedIsStored, TypeOK
<1>7. NothingLost'
    BY <1>s, <1>3 DEF NothingLost, Committed, Queued
<1> QED
    BY <1>4, <1>5, <1>6, <1>7

LEMMA PublishFailsInv ==
    ASSUME NEW w \in Workers, NEW kept \in BOOLEAN, DeliveryInv, StartedInOrder, PublishFails(w, kept)
    PROVE  DeliveryInv' /\ StartedInOrder'
<1> USE DEF PublishFails, DeliveryInv
<1> DEFINE to == [worker[w] EXCEPT !.pc = "retry"]
<1>1. worker[w] \in Stages /\ worker[w] # Idle /\ worker[w].event \in Commits
    BY DEF TypeOK, Stages, Idle, RowsLocked, Queued
<1>2. to \in Stages /\ to.event = worker[w].event /\ to.pc = "retry"
    BY <1>1 DEF Stages
<1>s. /\ stored' \subseteq Events /\ recent' \subseteq Events /\ unacked' \in [Events -> Nat]
      /\ stored \subseteq stored' /\ recent' \subseteq stored'
      /\ \A x \in Events : unacked'[x] > 0 => x \in stored'
    BY <1>1, MaybeStoreFacts DEF Events
<1> HIDE DEF to
<1>3. worker' = [worker EXCEPT ![w] = to] /\ UNCHANGED <<ready, waiting, delivered, begun, post, feed, expired>>
    BY DEF to
<1>4. /\ worker' \in [Workers -> Stages]
      /\ OnePlace' /\ RowsLocked' /\ QueueInOrder' /\ StartedInOrder'
    BY <1>1, <1>2, <1>3, WorkerMoves
<1>5. TypeOK'
    BY <1>s, <1>3, <1>4 DEF TypeOK, Stages
<1>6. AckedIsStored'
    BY <1>s, <1>2, <1>3 DEF AckedIsStored, TypeOK
<1>7. NothingLost'
    BY <1>s, <1>3 DEF NothingLost, Committed, Queued
<1> QED
    BY <1>4, <1>5, <1>6, <1>7

LEMMA RollbackInv ==
    ASSUME NEW w \in Workers, NEW kept \in BOOLEAN, DeliveryInv, StartedInOrder, Rollback(w, kept)
    PROVE  DeliveryInv' /\ StartedInOrder'
<1> USE DEF Rollback, DeliveryInv
<1>1. worker[w] # Idle /\ worker[w].event \in Commits /\ Idle \in Stages
    BY DEF TypeOK, Stages, Idle, RowsLocked, Queued
<1>s. /\ stored' \subseteq Events /\ recent' \subseteq Events /\ unacked' \in [Events -> Nat]
      /\ stored \subseteq stored' /\ recent' \subseteq stored'
      /\ \A x \in Events : unacked'[x] > 0 => x \in stored'
    BY <1>1, MaybeStoreFacts DEF Events
<1>4. /\ worker' \in [Workers -> Stages]
      /\ OnePlace' /\ RowsLocked' /\ QueueInOrder' /\ StartedInOrder'
    BY <1>1, WorkerMoves
<1>5. TypeOK'
    BY <1>s, <1>4 DEF TypeOK, Stages
<1>6. AckedIsStored'
    BY <1>s DEF AckedIsStored, TypeOK, Idle
<1>7. NothingLost'
    BY <1>s DEF NothingLost, Committed, Queued
<1> QED
    BY <1>4, <1>5, <1>6, <1>7

\* A row is taken in order: every earlier transition's row was taken before, for
\* it is in front of this one in the queue and so locked by another worker.
LEMMA TakeRowInv ==
    ASSUME NEW w \in Workers, DeliveryInv, StartedInOrder, TakeRow(w)
    PROVE  DeliveryInv' /\ StartedInOrder'
<1> USE DEF DeliveryInv
<1>1. PICK i \in DOMAIN ready :
        /\ NextRow(i)
        /\ worker' = [worker EXCEPT ![w] = [pc |-> "publish", event |-> ready[i]]]
        /\ begun' = begun \cup {ready[i]}
    BY DEF TakeRow
<1>2. /\ UNCHANGED <<ready, waiting, delivered, post, broker, feed, expired>> /\ worker[w] = Idle
    BY DEF TakeRow
<1> DEFINE e == ready[i]
           to == [pc |-> "publish", event |-> ready[i]]
<1>3. e \in Commits /\ e \in Queued /\ e \in Nat /\ e # None
    BY DeliveryAssumption DEF TypeOK, Queued, Commits, Events
<1>4. /\ worker' \in [Workers -> Stages] /\ worker'[w] = to /\ to # Idle
      /\ \A v \in Workers \ {w} : worker'[v] = worker[v]
    BY <1>1, <1>3 DEF TypeOK, Stages, Idle
<1>5. TypeOK'
    BY <1>1, <1>2, <1>3, <1>4 DEF TypeOK, Stages, broker
<1>6. OnePlace'
    BY <1>2 DEF OnePlace, Queued
<1>7. RowsLocked'
  <2>1. \A v \in Workers \ {w} : worker[v] # Idle => worker[v].event # e
      BY <1>1 DEF NextRow, Locked
  <2> SUFFICES ASSUME NEW v \in Workers
               PROVE  /\ worker'[v].pc = "idle" <=> worker'[v] = Idle
                      /\ worker'[v] # Idle => worker'[v].event \in Queued
                      /\ \A u \in Workers \ {v} :
                           worker'[u] # Idle => worker'[u].event # worker'[v].event
      BY <1>2 DEF RowsLocked, Queued, Idle
  <2>2. (worker'[v].pc = "idle" <=> worker'[v] = Idle) /\ (worker'[v] # Idle => worker'[v].event \in Queued)
      BY <1>3, <1>4 DEF RowsLocked, Idle
  <2>3. ASSUME NEW u \in Workers \ {v}, worker'[u] # Idle
        PROVE  worker'[u].event # worker'[v].event
    <3>1. CASE v = w
        BY <2>1, <2>3, <3>1, <1>4
    <3>2. CASE u = w
      <4>1. CASE worker[v] = Idle
          BY <4>1, <3>2, <1>3, <1>4 DEF Idle
      <4>2. CASE worker[v] # Idle
          BY <4>2, <2>1, <3>2, <1>4
      <4> QED
          BY <4>1, <4>2
    <3>3. CASE v # w /\ u # w
        BY <2>3, <3>3, <1>4 DEF RowsLocked
    <3> QED
        BY <3>1, <3>2, <3>3
  <2> QED
      BY <2>2, <2>3
<1>8. AckedIsStored'
    BY <1>2, <1>4 DEF AckedIsStored, broker
<1>9. NothingLost'
    BY <1>2 DEF NothingLost, Committed, Queued, broker
<1>10. QueueInOrder'
    BY <1>1, <1>2, <1>3, <1>4 DEF QueueInOrder, Committed, Queued, Idle
<1>11. StartedInOrder'
  <2>1. ASSUME NEW d \in 1 .. e - 1, e \notin begun, d \notin begun PROVE FALSE
    <3>1. d \in Queued
        BY <2>1, <1>3 DEF QueueInOrder, Committed
    <3>2. PICK j \in DOMAIN ready : ready[j] = d
        BY <3>1 DEF Queued
    <3>3. j < i
        BY <2>1, <3>2, <1>3 DEF QueueInOrder
    <3>4. j \in 1 .. i - 1
        BY <3>3 DEF TypeOK
    <3>5. d \in Locked
        BY <3>2, <3>4, <1>1 DEF NextRow
    <3>6. PICK v \in Workers : worker[v].event = d
        BY <3>5 DEF Locked
    <3>7. d \in Commits
        BY <3>2 DEF TypeOK
    <3>8. worker[v] # Idle
        BY <3>6, <3>7, DeliveryAssumption DEF Idle, Events
    <3> QED
        BY <3>6, <3>8, <2>1 DEF QueueInOrder
  <2> QED
      BY <2>1, <1>1, <1>3 DEF StartedInOrder
<1> QED
    BY <1>5, <1>6, <1>7, <1>8, <1>9, <1>10, <1>11

\* The locked row leaves the queue and nothing else does.
LEMMA DequeueFacts ==
    ASSUME NEW w \in Workers, DeliveryInv, worker[w] # Idle, Dequeue(w)
    PROVE  /\ ready' \in Seq(Commits) /\ Ordered(ready', begun)
           /\ Queued' = Queued \ {worker[w].event}
           /\ worker[w].event \in Commits /\ worker[w].event \in Queued /\ worker[w].event \in begun
           /\ worker' \in [Workers -> Stages] /\ worker'[w] = Idle
           /\ \A v \in Workers \ {w} : worker'[v] = worker[v]
           /\ \A v \in Workers : worker'[v] # Idle =>
                worker[v] # Idle /\ worker'[v] = worker[v] /\ worker[v].event # worker[w].event
<1> USE DEF DeliveryInv
<1>1. PICK i \in DOMAIN ready : ready[i] = worker[w].event /\ ready' = RemoveAt(ready, i)
    BY DEF Dequeue
<1>2. ready \in Seq(Commits) /\ Ordered(ready, begun)
    BY DEF TypeOK, OnePlace, QueueInOrder, Ordered
<1>3. /\ ready' \in Seq(Commits) /\ Ordered(ready', begun)
      /\ Elems(ready') = Elems(ready) \ {ready[i]}
  <2> HIDE DEF DeliveryInv
  <2> QED
      BY <1>1, <1>2, RemoveOrdered
<1>4. worker[w].event \in Commits /\ worker[w].event \in Queued /\ worker[w].event \in begun
    BY DEF RowsLocked, QueueInOrder, Queued, TypeOK
<1>5. /\ worker' \in [Workers -> Stages] /\ worker'[w] = Idle
      /\ \A v \in Workers \ {w} : worker'[v] = worker[v]
    BY DEF Dequeue, TypeOK, Stages, Idle
<1>6. \A v \in Workers : worker'[v] # Idle =>
        worker[v] # Idle /\ worker'[v] = worker[v] /\ worker[v].event # worker[w].event
    BY <1>5 DEF RowsLocked
<1> QED
    BY <1>1, <1>3, <1>4, <1>5, <1>6 DEF Queued, Elems

\* After the locked row went to the delivered or to the waiting rows.
LEMMA DequeuedInv ==
    ASSUME NEW w \in Workers, DeliveryInv, StartedInOrder, worker[w] # Idle, Dequeue(w),
           waiting' \subseteq Commits, delivered' \subseteq Commits,
           waiting' \cup delivered' = waiting \cup delivered \cup {worker[w].event},
           waiting \subseteq waiting', delivered \subseteq delivered',
           waiting' \cap delivered' = {},
           UNCHANGED <<begun, post, broker, feed, expired>>
    PROVE  /\ TypeOK' /\ OnePlace' /\ RowsLocked' /\ QueueInOrder' /\ StartedInOrder'
           /\ Committed' = Committed
<1> USE DEF DeliveryInv
<1> DEFINE e == worker[w].event
<1>1. /\ ready' \in Seq(Commits) /\ Ordered(ready', begun)
      /\ Queued' = Queued \ {e}
      /\ e \in Commits /\ e \in Queued /\ e \in begun
      /\ worker' \in [Workers -> Stages] /\ worker'[w] = Idle
      /\ \A v \in Workers : worker'[v] # Idle =>
           worker[v] # Idle /\ worker'[v] = worker[v] /\ worker[v].event # e
    BY DequeueFacts
<1> HIDE DEF e
<1>2. waiting' \cup delivered' = waiting \cup delivered \cup {e}
    BY DEF e
<1>3. TypeOK'
    BY <1>1 DEF TypeOK, Stages, broker
<1>4. OnePlace'
    BY <1>1, <1>2 DEF OnePlace, Ordered
<1>5. RowsLocked'
  <2> SUFFICES ASSUME NEW v \in Workers
               PROVE  /\ worker'[v].pc = "idle" <=> worker'[v] = Idle
                      /\ worker'[v] # Idle => worker'[v].event \in Queued'
                      /\ \A u \in Workers \ {v} :
                           worker'[u] # Idle => worker'[u].event # worker'[v].event
      BY DEF RowsLocked, Idle
  <2>1. worker'[v].pc = "idle" <=> worker'[v] = Idle
    <3>1. v = w \/ worker'[v] = worker[v]
        BY DequeueFacts
    <3> QED
        BY <3>1, <1>1 DEF RowsLocked, Idle
  <2>2. worker'[v] # Idle => worker'[v].event \in Queued'
      BY <1>1 DEF RowsLocked
  <2>3. ASSUME NEW u \in Workers \ {v}, worker'[u] # Idle
        PROVE  worker'[u].event # worker'[v].event
    <3>1. CASE worker'[v] # Idle
        BY <2>3, <3>1, <1>1 DEF RowsLocked
    <3>2. CASE worker'[v] = Idle
      <4>1. worker'[u].event \in Commits
          BY <2>3, <1>1 DEF RowsLocked, Queued, TypeOK
      <4> QED
          BY <4>1, <3>2, DeliveryAssumption DEF Idle, Events
    <3> QED
        BY <3>1, <3>2
  <2> QED
      BY <2>1, <2>2, <2>3
<1>6. Committed' = Committed
    BY <1>1, <1>2 DEF Committed
<1>7. QueueInOrder'
  <2>1. begun' \subseteq Committed' /\ waiting' \cup delivered' \subseteq begun'
      BY <1>1, <1>2, <1>6 DEF QueueInOrder
  <2>2. \A v \in Workers : worker'[v] # Idle => worker'[v].event \in begun'
      BY <1>1 DEF QueueInOrder
  <2>3. \A c \in Committed' : \A d \in 1 .. c - 1 : d \in Committed'
      BY <1>6 DEF QueueInOrder
  <2> QED
      BY <2>1, <2>2, <2>3, <1>1 DEF QueueInOrder, Ordered, Idle
<1>8. StartedInOrder'
    BY DEF StartedInOrder
<1> QED
    BY <1>3, <1>4, <1>5, <1>6, <1>7, <1>8

LEMMA AcknowledgeInv ==
    ASSUME NEW w \in Workers, DeliveryInv, StartedInOrder, Acknowledge(w)
    PROVE  DeliveryInv' /\ StartedInOrder'
<1> USE DEF Acknowledge, DeliveryInv
<1>1. worker[w] # Idle /\ Dequeue(w) /\ worker[w].event \in stored
    BY DEF Idle, AckedIsStored
<1>2. worker[w].event \in Commits /\ worker[w].event \in Queued /\ Queued' = Queued \ {worker[w].event}
      /\ worker'[w] = Idle /\ \A v \in Workers \ {w} : worker'[v] = worker[v]
    BY <1>1, DequeueFacts
<1>3. /\ TypeOK' /\ OnePlace' /\ RowsLocked' /\ QueueInOrder' /\ StartedInOrder'
      /\ Committed' = Committed
  <2>1. delivered' \subseteq Commits /\ waiting' \subseteq Commits /\ waiting' \cap delivered' = {}
      BY <1>2 DEF TypeOK, OnePlace
  <2> QED
      BY <1>1, <2>1, DequeuedInv
<1>4. AckedIsStored'
    BY <1>1, <1>2 DEF AckedIsStored, broker, Idle
<1>5. NothingLost'
    BY <1>1, <1>2, <1>3 DEF NothingLost, broker
<1> QED
    BY <1>3, <1>4, <1>5

LEMMA BackOffInv ==
    ASSUME NEW w \in Workers, DeliveryInv, StartedInOrder, BackOff(w)
    PROVE  DeliveryInv' /\ StartedInOrder'
<1> USE DEF BackOff, DeliveryInv
<1>1. worker[w] # Idle /\ Dequeue(w)
    BY DEF Idle
<1>2. worker[w].event \in Commits /\ worker[w].event \in Queued /\ Queued' = Queued \ {worker[w].event}
      /\ worker'[w] = Idle /\ \A v \in Workers \ {w} : worker'[v] = worker[v]
    BY <1>1, DequeueFacts
<1>3. /\ TypeOK' /\ OnePlace' /\ RowsLocked' /\ QueueInOrder' /\ StartedInOrder'
      /\ Committed' = Committed
  <2>1. delivered' \subseteq Commits /\ waiting' \subseteq Commits /\ waiting' \cap delivered' = {}
      BY <1>2 DEF TypeOK, OnePlace
  <2> QED
      BY <1>1, <2>1, DequeuedInv
<1>4. AckedIsStored'
    BY <1>1, <1>2 DEF AckedIsStored, broker, Idle
<1>5. NothingLost'
    BY <1>1, <1>2, <1>3 DEF NothingLost, broker
<1> QED
    BY <1>3, <1>4, <1>5

-----------------------------------------------------------------------------
(* Rows that enter the queue.                                               *)

LEMMA TransitionInv ==
    ASSUME NEW e \in Commits, DeliveryInv, StartedInOrder, Transition(e)
    PROVE  DeliveryInv' /\ StartedInOrder'
<1> USE DEF Transition, DeliveryInv
<1>1. e \in Nat /\ Commits \subseteq Nat
    BY DEF Commits
<1>2. \A c \in Committed : c \in Nat /\ c < e
  <2> SUFFICES ASSUME NEW c \in Committed PROVE c \in Nat /\ c < e
      OBVIOUS
  <2>1. c \in Commits /\ c # e
      BY DEF Committed, Queued, TypeOK
  <2>2. ~(e \in 1 .. c - 1)
      BY DEF QueueInOrder
  <2> HIDE DEF Transition, DeliveryInv
  <2> QED
      BY <2>1, <2>2, DeliveryAssumption DEF Commits
<1>3. ready \in Seq(Commits) /\ Ordered(ready, begun) /\ \A i \in DOMAIN ready : ready[i] \in Committed
    BY DEF TypeOK, OnePlace, QueueInOrder, Ordered, Committed, Queued
<1>4. ready' \in Seq(Commits) /\ Ordered(ready', begun) /\ Queued' = Queued \cup {e}
  <2>1. MayFollow(e, ready, begun)
      BY <1>2, <1>3 DEF MayFollow
  <2>2. IsAppend(ready', ready, e)
      BY DEF IsAppend
  <2> HIDE DEF Transition, DeliveryInv
  <2>3. ready' \in Seq(Commits) /\ Ordered(ready', begun) /\ Elems(ready') = Elems(ready) \cup {e}
      BY <1>1, <1>3, <2>1, <2>2, AppendOrdered
  <2> QED
      BY <2>3 DEF Queued, Elems
<1>5. TypeOK'
    BY <1>4 DEF TypeOK, broker, Events
<1>6. OnePlace'
    BY <1>4 DEF OnePlace, Ordered, Committed
<1>7. RowsLocked'
    BY <1>4 DEF RowsLocked, Idle
<1>8. AckedIsStored'
    BY DEF AckedIsStored, broker
<1>9. Committed' = Committed \cup {e}
    BY <1>4 DEF Committed
<1>10. NothingLost'
    BY <1>4, <1>9 DEF NothingLost, broker
<1>11. QueueInOrder'
  <2>1. \A c \in Committed' : \A d \in 1 .. c - 1 : d \in Committed'
      BY <1>9 DEF QueueInOrder
  <2> QED
      BY <2>1, <1>4, <1>9 DEF QueueInOrder, Ordered, Idle
<1>12. StartedInOrder'
    BY DEF StartedInOrder
<1> QED
    BY <1>5, <1>6, <1>7, <1>8, <1>10, <1>11, <1>12

LEMMA BackOffEndsInv ==
    ASSUME NEW e \in Commits, DeliveryInv, StartedInOrder, BackOffEnds(e)
    PROVE  DeliveryInv' /\ StartedInOrder'
<1> USE DEF BackOffEnds, DeliveryInv
<1>1. e \in begun /\ e \notin Queued /\ Commits \subseteq Nat
    BY DEF QueueInOrder, OnePlace, Commits
<1>2. ready \in Seq(Commits) /\ Ordered(ready, begun) /\ MayFollow(e, ready, begun)
    BY <1>1 DEF TypeOK, OnePlace, QueueInOrder, Ordered, Queued, MayFollow
<1>3. ready' \in Seq(Commits) /\ Ordered(ready', begun) /\ Queued' = Queued \cup {e}
  <2>1. IsAppend(ready', ready, e)
      BY DEF IsAppend
  <2> HIDE DEF BackOffEnds, DeliveryInv
  <2>2. ready' \in Seq(Commits) /\ Ordered(ready', begun) /\ Elems(ready') = Elems(ready) \cup {e}
      BY <1>1, <1>2, <2>1, AppendOrdered
  <2> QED
      BY <2>2 DEF Queued, Elems
<1>4. TypeOK'
    BY <1>3 DEF TypeOK, broker
<1>5. OnePlace'
    BY <1>3 DEF OnePlace, Ordered
<1>6. RowsLocked'
    BY <1>3 DEF RowsLocked, Idle
<1>7. AckedIsStored'
    BY DEF AckedIsStored, broker
<1>8. Committed' = Committed
    BY <1>3 DEF Committed
<1>9. NothingLost'
    BY <1>3, <1>8 DEF NothingLost, broker
<1>10. QueueInOrder'
    BY <1>3, <1>8 DEF QueueInOrder, Ordered, Idle
<1>11. StartedInOrder'
    BY DEF StartedInOrder
<1> QED
    BY <1>4, <1>5, <1>6, <1>7, <1>9, <1>10, <1>11

-----------------------------------------------------------------------------
LEMMA StepDelivery ==
    ASSUME DeliveryInv, StartedInOrder, [Next]_vars
    PROVE  DeliveryInv' /\ StartedInOrder'
<1>1. CASE UNCHANGED vars
  <2>1. UNCHANGED outbox /\ UNCHANGED <<post, broker, feed, expired>>
      BY <1>1 DEF vars
  <2>2. TypeOK' /\ AckedIsStored' /\ NothingLost'
      BY <2>1 DEF DeliveryInv, TypeOK, AckedIsStored, NothingLost, outbox, broker, Committed, Queued
  <2> QED
      BY <2>1, <2>2, OutboxUntouched DEF DeliveryInv
<1>2. ASSUME NEW e \in Commits, Transition(e) \/ BackOffEnds(e) \/ Forget(e)
      PROVE  DeliveryInv' /\ StartedInOrder'
    BY <1>2, TransitionInv, BackOffEndsInv, ForgetInv
<1>3. ASSUME NEW w \in Workers, Deliver(w)
      PROVE  DeliveryInv' /\ StartedInOrder'
    BY <1>3, TakeRowInv, PublishCommittedInv, AcknowledgeInv, BackOffInv, PublishFailsInv, RollbackInv
       DEF Deliver
<1>4. ASSUME NEW p \in Posts, Call(p) \/ PublishDies(p)
      PROVE  DeliveryInv' /\ StartedInOrder'
    BY <1>4, PublishInv, PublishEventInv, CreateInlineInv, CreateFallbackInv, PublishDiesInv DEF Call
<1>5. ASSUME NEW e \in Events, PGWriter(e)
      PROVE  DeliveryInv' /\ StartedInOrder'
    BY <1>5, ProcessPGWriterMessageInv DEF PGWriter
<1>6. ASSUME NEW e \in Expiring, Expire(e)
      PROVE  DeliveryInv' /\ StartedInOrder'
    BY <1>6, ExpireInv
<1>7. CASE DeleteExpired
    BY <1>7, DeleteExpiredInv
<1> QED
    BY <1>1, <1>2, <1>3, <1>4, <1>5, <1>6, <1>7 DEF Next

LEMMA DeliveryHolds == Spec => [](DeliveryInv /\ StartedInOrder)
<1>1. Init => DeliveryInv /\ StartedInOrder
    BY InitDelivery
<1>2. (DeliveryInv /\ StartedInOrder) /\ [Next]_vars => (DeliveryInv /\ StartedInOrder)'
    BY StepDelivery
<1> QED
    BY <1>1, <1>2, PTL DEF Spec

\* No committed transition and no answered post is lost: DeliverNext acknowledges only
\* what JetStream has, and Publish answers only for what JetStream or the feed has.
THEOREM DeliveryInvariant == Spec => []DeliveryInv
    BY DeliveryHolds, PTL

\* Deliveries of a task's transitions start in their order, with any number of
\* instances (the ORDER BY and SKIP LOCKED of DeliverNext).
THEOREM StartsInOrder == Spec => []StartedInOrder
    BY DeliveryHolds, PTL

-----------------------------------------------------------------------------
(* Every step is a step of TaskEvents, or changes nothing it can see.       *)

Shown == <<Committed, begun, stored \cap Commits, delivered, feed \cap Commits, expired \cap Commits>>

LEMMA NextOfStep ==
    ASSUME \/ \E e \in Commits : \/ InOrder!Commit(e) \/ InOrder!Start(e) \/ InOrder!Store(e)
                                 \/ InOrder!Deliver(e) \/ InOrder!Copy(e) \/ InOrder!Expire(e)
           \/ InOrder!Clean
           \/ UNCHANGED Shown
    PROVE  [InOrder!Next]_(InOrder!vars)
    BY DEF InOrder!Next, InOrder!vars, Shown, Commits

\* A publish that may have stored the event of a row a worker has taken.
LEMMA StoreInOrder ==
    ASSUME DeliveryInv, NEW w \in Workers, worker[w] # Idle, NEW kept \in BOOLEAN,
           MaybeStore(worker[w].event, kept), UNCHANGED <<ready, waiting, delivered, begun, feed, expired>>
    PROVE  [InOrder!Next]_(InOrder!vars)
<1> DEFINE e == worker[w].event
<1>1. e \in Commits /\ e \in begun \ delivered
    BY DEF DeliveryInv, RowsLocked, QueueInOrder, OnePlace, Queued, TypeOK
<1>2. UNCHANGED <<Committed, begun, delivered, feed \cap Commits, expired \cap Commits>>
    BY DEF Committed, Queued
<1>3. CASE kept
  <2>1. (stored \cap Commits)' = (stored \cap Commits) \cup {e}
      BY <1>1, <1>3 DEF MaybeStore, Store, Commits
  <2>2. InOrder!Store(e)
      BY <1>1, <1>2, <2>1 DEF InOrder!Store
  <2> QED
      BY <1>1, <2>2, NextOfStep
<1>4. CASE ~kept
  <2>1. UNCHANGED Shown
      BY <1>2, <1>4 DEF MaybeStore, broker, Shown
  <2> QED
      BY <2>1, NextOfStep
<1> QED
    BY <1>3, <1>4

\* Taking a row starts its delivery: every earlier one was started before.
LEMMA TakeInOrder ==
    ASSUME DeliveryInv, StartedInOrder, NEW w \in Workers, TakeRow(w)
    PROVE  [InOrder!Next]_(InOrder!vars)
<1>1. PICK i \in DOMAIN ready : begun' = begun \cup {ready[i]}
    BY DEF TakeRow
<1> DEFINE e == ready[i]
<1>2. e \in Commits /\ e \in Committed
    BY DEF DeliveryInv, TypeOK, Committed, Queued
<1>3. StartedInOrder'
    BY TakeRowInv
<1>4. e \in Nat /\ \A d \in 1 .. e - 1 : d \in begun
  <2>1. e \in Nat
      BY <1>2 DEF Commits
  <2>2. \A d \in 1 .. e - 1 : d \in begun' /\ d # e
      BY <1>1, <1>3, <2>1 DEF StartedInOrder
  <2> QED
      BY <1>1, <2>1, <2>2
<1>5. UNCHANGED <<Committed, stored \cap Commits, delivered, feed \cap Commits, expired \cap Commits>>
    BY DEF TakeRow, Committed, Queued, broker
<1>6. InOrder!Start(e)
    BY <1>1, <1>2, <1>4, <1>5 DEF InOrder!Start, InOrder!Before
<1> QED
    BY <1>2, <1>6, NextOfStep

\* A row that leaves the queue is still committed.
LEMMA DequeuedCommitted ==
    ASSUME DeliveryInv, NEW w \in Workers, worker[w] # Idle, Dequeue(w),
           waiting' \cup delivered' = waiting \cup delivered \cup {worker[w].event}
    PROVE  Committed' = Committed
<1>1. Queued' = Queued \ {worker[w].event} /\ worker[w].event \in Queued
    BY DequeueFacts
<1> QED
    BY <1>1 DEF Committed

LEMMA DeliverInOrder ==
    ASSUME DeliveryInv, StartedInOrder, NEW w \in Workers, Deliver(w)
    PROVE  [InOrder!Next]_(InOrder!vars)
<1>1. CASE TakeRow(w)
    BY <1>1, TakeInOrder
<1>2. CASE PublishCommitted(w)
  <2>1. worker[w] # Idle /\ MaybeStore(worker[w].event, TRUE)
      BY <1>2 DEF PublishCommitted, MaybeStore, Idle
  <2> QED
      BY <1>2, <2>1, StoreInOrder DEF PublishCommitted
<1>3. CASE Acknowledge(w)
  <2>1. worker[w] # Idle /\ Dequeue(w) /\ worker[w].event \in stored
      BY <1>3 DEF Acknowledge, Idle, DeliveryInv, AckedIsStored
  <2>2. worker[w].event \in Commits
      BY <2>1, DequeueFacts
  <2>3. Committed' = Committed
      BY <1>3, <2>1, DequeuedCommitted DEF Acknowledge
  <2>4. InOrder!Deliver(worker[w].event)
      BY <1>3, <2>1, <2>2, <2>3 DEF Acknowledge, InOrder!Deliver, broker
  <2> QED
      BY <2>2, <2>4, NextOfStep
<1>4. CASE BackOff(w)
  <2>1. worker[w] # Idle /\ Dequeue(w)
      BY <1>4 DEF BackOff, Idle
  <2>2. Committed' = Committed
      BY <1>4, <2>1, DequeuedCommitted DEF BackOff
  <2>3. UNCHANGED Shown
      BY <1>4, <2>2 DEF BackOff, Shown, broker
  <2> QED
      BY <2>3, NextOfStep
<1>5. ASSUME NEW kept \in BOOLEAN, PublishFails(w, kept) \/ Rollback(w, kept)
      PROVE  [InOrder!Next]_(InOrder!vars)
  <2>1. worker[w] # Idle /\ MaybeStore(worker[w].event, kept)
        /\ UNCHANGED <<ready, waiting, delivered, begun, feed, expired>>
      BY <1>5 DEF PublishFails, Rollback, Idle
  <2> QED
      BY <2>1, StoreInOrder
<1> QED
    BY <1>1, <1>2, <1>3, <1>4, <1>5 DEF Deliver

LEMMA RowInOrder ==
    ASSUME DeliveryInv, NEW e \in Commits, Transition(e) \/ BackOffEnds(e) \/ Forget(e)
    PROVE  [InOrder!Next]_(InOrder!vars)
<1>0. ASSUME ready' = Append(ready, e)
      PROVE  Queued' = Queued \cup {e}
  <2>1. ready \in Seq(Commits)
      BY DEF DeliveryInv, TypeOK
  <2>2. /\ DOMAIN ready' = 1 .. Len(ready) + 1 /\ ready'[Len(ready) + 1] = e
        /\ \A i \in 1 .. Len(ready) : ready'[i] = ready[i]
        /\ DOMAIN ready = 1 .. Len(ready) /\ Len(ready) \in Nat
      BY <1>0, <2>1
  <2>3. \A i \in DOMAIN ready' : i \in DOMAIN ready \/ i = Len(ready) + 1
      BY <2>2
  <2> QED
      BY <2>2, <2>3 DEF Queued
<1>1. CASE Transition(e)
  <2>1. Committed' = Committed \cup {e}
      BY <1>0, <1>1 DEF Transition, Committed
  <2>2. InOrder!Commit(e)
      BY <1>1, <2>1 DEF Transition, InOrder!Commit, InOrder!Before, broker
  <2> QED
      BY <2>2, NextOfStep
<1>2. CASE BackOffEnds(e)
  <2>1. Committed' = Committed
      BY <1>0, <1>2 DEF BackOffEnds, Committed
  <2>2. UNCHANGED Shown
      BY <1>2, <2>1 DEF BackOffEnds, Shown, broker
  <2> QED
      BY <2>2, NextOfStep
<1>3. CASE Forget(e)
  <2>1. UNCHANGED Shown
      BY <1>3 DEF Forget, outbox, Shown, Committed, Queued
  <2> QED
      BY <2>1, NextOfStep
<1> QED
    BY <1>1, <1>2, <1>3

\* Publishing through the API is about other events.
LEMMA CallUnseen ==
    ASSUME NEW p \in Posts, Call(p) \/ PublishDies(p)
    PROVE  UNCHANGED Shown
<1>1. p \notin Commits
    BY DeliveryAssumption
<1>2. UNCHANGED outbox /\ UNCHANGED expired
    BY DEF Call, PublishDies, Publish, PublishEvent, CreateInline, CreateFallback
<1>3. UNCHANGED <<Committed, begun, delivered>>
    BY <1>2 DEF outbox, Committed, Queued
<1>4. stored' \in {stored, stored \cup {p}} /\ feed' \in {feed, feed \cup {p}}
    BY DEF Call, PublishDies, Publish, PublishEvent, CreateInline, CreateFallback, MaybeStore, Store, broker
<1> QED
    BY <1>1, <1>2, <1>3, <1>4 DEF Shown

LEMMA CopyInOrder ==
    ASSUME DeliveryInv, NEW e \in Events, PGWriter(e)
    PROVE  [InOrder!Next]_(InOrder!vars)
<1>1. e \in stored /\ feed' \in {feed, feed \cup {e}} /\ UNCHANGED <<outbox, stored, expired>>
    BY DEF PGWriter, ProcessPGWriterMessage, DeliveryInv, AckedIsStored
<1>2. UNCHANGED <<Committed, begun, delivered, stored \cap Commits, expired \cap Commits>>
    BY <1>1 DEF outbox, Committed, Queued
<1>3. CASE e \in Commits /\ feed' = feed \cup {e}
  <2>1. InOrder!Copy(e)
      BY <1>1, <1>2, <1>3 DEF InOrder!Copy
  <2> QED
      BY <1>3, <2>1, NextOfStep
<1>4. CASE e \notin Commits \/ feed' = feed
  <2>1. UNCHANGED Shown
      BY <1>1, <1>2, <1>4 DEF Shown
  <2> QED
      BY <2>1, NextOfStep
<1> QED
    BY <1>1, <1>3, <1>4

LEMMA ExpiryInOrder ==
    ASSUME DeliveryInv, DeleteExpired \/ \E e \in Expiring : Expire(e)
    PROVE  [InOrder!Next]_(InOrder!vars)
<1>0. UNCHANGED outbox => UNCHANGED <<Committed, begun, delivered>>
    BY DEF outbox, Committed, Queued
<1>1. CASE DeleteExpired
  <2>1. (feed \cap Commits)' = (feed \cap Commits) \ (expired \cap Commits)
      BY <1>1 DEF DeleteExpired, Commits
  <2>2. InOrder!Clean
      BY <1>0, <1>1, <2>1 DEF DeleteExpired, InOrder!Clean, broker
  <2> QED
      BY <2>2, NextOfStep
<1>2. ASSUME NEW e \in Expiring, Expire(e)
      PROVE  [InOrder!Next]_(InOrder!vars)
  <2>1. CASE e \in Commits
    <3>1. e \in Committed
        BY <1>2, <2>1, DeliveryAssumption DEF Expire
    <3>2. (expired \cap Commits)' = (expired \cap Commits) \cup {e}
        BY <1>2, <2>1 DEF Expire, Commits
    <3>3. InOrder!Expire(e)
        BY <1>0, <1>2, <3>1, <3>2 DEF Expire, InOrder!Expire, broker
    <3> QED
        BY <2>1, <3>3, NextOfStep
  <2>2. CASE e \notin Commits
    <3>1. UNCHANGED Shown
        BY <1>0, <1>2, <2>2 DEF Expire, Shown, broker
    <3> QED
        BY <3>1, NextOfStep
  <2> QED
      BY <2>1, <2>2
<1> QED
    BY <1>1, <1>2

\* The delivery of a task's events implements TaskEvents, with any number of instances,
\* crashes, lost answers and back-offs: in the order of the transitions, never past
\* JetStream, and shown in the feed until it expires.
THEOREM ImplementsTaskEvents == Spec => TaskEventsSpec
<1>1. Init => InOrder!Init
    BY DEF Init, InOrder!Init, Committed, Queued
<1>2. DeliveryInv /\ StartedInOrder /\ [Next]_vars => [InOrder!Next]_(InOrder!vars)
  <2> SUFFICES ASSUME DeliveryInv, StartedInOrder, [Next]_vars
               PROVE  [InOrder!Next]_(InOrder!vars)
      OBVIOUS
  <2>1. CASE UNCHANGED vars
    <3>1. UNCHANGED Shown
        BY <2>1 DEF vars, outbox, broker, Shown, Committed, Queued
    <3> QED
        BY <3>1, NextOfStep
  <2>2. ASSUME NEW p \in Posts, Call(p) \/ PublishDies(p)
        PROVE  [InOrder!Next]_(InOrder!vars)
      BY <2>2, CallUnseen, NextOfStep
  <2> QED
      BY <2>1, <2>2, RowInOrder, DeliverInOrder, CopyInOrder, ExpiryInOrder DEF Next
<1> QED
    BY <1>1, <1>2, DeliveryHolds, PTL DEF Spec, TaskEventsSpec, InOrder!Spec
=============================================================================
