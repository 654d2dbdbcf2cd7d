-------------------------- MODULE Chat_proofs -------------------------
(***************************************************************************)
(* Safety of the chat turn protocol for any number of messages, runners,   *)
(* attempts, events and late calls, and of its session bearers for any     *)
(* number of bearers, requests and controllers.                            *)
(***************************************************************************)
EXTENDS ChatSession, TLAPS

\* Rows are only ever built from rows.
LEMMA RowTypes ==
    ASSUME NEW t \in TurnRow
    PROVE  /\ CancelledTurn(t) \in TurnRow
           /\ NotDelivered(t) \in TurnRow
           /\ LazilyEnded(t) \in TurnRow
<1>1. CancelledTurn(t) \in TurnRow
  <2>1. CASE t.state \in Unfinished
    <3>1. CancelledReply(t.reply) \in {"none", "streaming", "done", "failed", "cancelled"}
      BY DEF TurnRow, CancelledReply
    <3>2. CancelledTurn(t) = [t EXCEPT !.state = "cancelled", !.cancel = TRUE, !.lease = "none",
                                       !.reply = CancelledReply(t.reply)]
      BY <2>1 DEF CancelledTurn
    <3> QED BY <3>1, <3>2 DEF TurnRow, Unfinished, Finished
  <2>2. CASE t.state \notin Unfinished
    BY <2>2 DEF CancelledTurn
  <2> QED BY <2>1, <2>2
<1>2. NotDelivered(t) \in TurnRow
  BY DEF TurnRow, NotDelivered, Unfinished, Finished
<1>3. LazilyEnded(t) \in TurnRow
  <2> DEFINE reply == IF t.reply = "none" THEN "none" ELSE "failed"
  <2>1. [t EXCEPT !.state = "failed", !.user = "failed", !.reply = reply] \in TurnRow
    BY ZenonT(40) DEF TurnRow, Unfinished, Finished
  <2> QED BY <1>2, <2>1 DEF LazilyEnded
<1> QED BY <1>1, <1>2, <1>3

\* Ending a row lazily or by deleting the thread keeps its shape.
LEMMA RowShapes ==
    ASSUME NEW t \in TurnRow, NEW v, RowShape(t, v)
    PROVE  /\ RowShape(CancelledTurn(t), v)
           /\ RowShape(LazilyEnded(t), v)
           /\ t.state = "queued" => RowShape(NotDelivered(t), v)
<1>1. RowShape(CancelledTurn(t), v)
  BY DEF TurnRow, RowShape, CancelledTurn, CancelledReply, Unfinished, Finished
<1>2. t.state = "queued" => RowShape(NotDelivered(t), v)
  BY DEF TurnRow, RowShape, NotDelivered, Unfinished, Finished
<1>3. RowShape(LazilyEnded(t), v)
  BY DEF TurnRow, RowShape, NotDelivered, LazilyEnded, Unfinished, Finished
<1> QED BY <1>1, <1>2, <1>3

\* A row ready to be handed out has attempts left and becomes a claimed row without a voice.
LEMMA HandOuts ==
    ASSUME NEW t \in TurnRow, NEW v, RowShape(t, v), Deliverable(t),
           NEW r \in Runners, NEW e \in Nat
    PROVE  /\ t.attempt + 1 \in 1..MaxAttempts
           /\ HandedOut(t, r, e) \in TurnRow
           /\ RowShape(HandedOut(t, r, e), v)
<1>1. t.attempt + 1 \in 1..MaxAttempts
  BY ChatAssumption DEF TurnRow, RowShape, Deliverable
<1>2. HandedOut(t, r, e) \in TurnRow
  <2> DEFINE a == t.attempt + 1
  <2>1. a \in 0..MaxAttempts
    BY <1>1, ChatAssumption
  <2>2. HandedOut(t, r, e) = [t EXCEPT !.state = "claimed", !.runner = r, !.attempt = a,
                                       !.lease = "live", !.epoch = e]
    BY DEF HandedOut
  <2> HIDE DEF a
  <2> QED BY <2>1, <2>2 DEF TurnRow, Unfinished, Finished
<1>3. t.state \in {"queued", "claimed"}
  BY DEF Deliverable
<1>4. RowShape(HandedOut(t, r, e), v)
  BY <1>1, <1>3, ChatAssumption DEF TurnRow, HandedOut, RowShape, Unfinished, Finished
<1> QED BY <1>1, <1>2, <1>4

\* A holder's touch changes lease and epoch only.
LEMMA Touches ==
    ASSUME NEW t \in TurnRow, epoch \in Nat
    PROVE  /\ Touched(t) \in TurnRow
           /\ EpochAfter(t) \in Nat
           /\ Touched(t).state = t.state /\ Touched(t).attempt = t.attempt
           /\ Touched(t).started = t.started /\ Touched(t).user = t.user
           /\ Touched(t).reply = t.reply
<1>1. CASE t.lease = "lapsed"
  <2>1. Touched(t) = [t EXCEPT !.lease = "live", !.epoch = epoch + 1]
    BY <1>1 DEF Touched
  <2>2. epoch + 1 \in Nat /\ EpochAfter(t) \in Nat
    BY DEF EpochAfter
  <2>3. Touched(t) \in TurnRow
    BY <2>1, <2>2 DEF TurnRow
  <2> QED BY <2>1, <2>2, <2>3 DEF TurnRow
<1>2. CASE t.lease # "lapsed"
  <2>1. Touched(t) = [t EXCEPT !.lease = "live"]
    BY <1>2 DEF Touched
  <2> QED BY <1>2, <2>1 DEF TurnRow, EpochAfter
<1> QED BY <1>1, <1>2

\* The initial state: no turn, no claim, no voice.
LEMMA Initially == Init => ChatInv
<1> SUFFICES ASSUME Init PROVE ChatInv
  OBVIOUS
<1>1. NoTurn \in TurnRow
  BY ChatAssumption DEF NoTurn, TurnRow, Unfinished, Finished
<1>2. RowShape(NoTurn, {})
  BY DEF NoTurn, RowShape, Finished
<1>3. TypeOK
  <2>1. turns \in [Messages -> TurnRow] /\ voices \in [Messages -> SUBSET (1..MaxAttempts)]
    BY <1>1 DEF Init
  <2>2. hands \in [Runners -> [Messages -> 0..MaxAttempts]]
    BY ChatAssumption DEF Init
  <2> QED BY <2>1, <2>2 DEF Init, TypeOK
<1> QED BY <1>2, <1>3 DEF Init, ChatInv


\* A step that rewrites one row keeps the invariant if the row fits its history.
LEMMA OneRow ==
    ASSUME ChatInv, NEW m \in Messages, NEW t \in TurnRow, NEW v \in SUBSET (1..MaxAttempts),
           RowShape(t, v),
           turns' = [turns EXCEPT ![m] = t], voices' = [voices EXCEPT ![m] = v],
           epoch' \in Nat, deleted' \in BOOLEAN, setting' \in Settings, late' \in Nat,
           hands' \in [Runners -> [Messages -> 0..MaxAttempts]]
    PROVE  ChatInv'
<1>1. TypeOK'
  BY DEF ChatInv, TypeOK
<1>2. \A n \in Messages : RowShape(turns'[n], voices'[n])
  BY DEF ChatInv, TypeOK
<1>3. (\A n \in Messages : RowShape(turns[n], voices[n]))'
  BY <1>2 DEF RowShape
<1> QED BY <1>1, <1>3 DEF ChatInv

\* Queuing a turn.
LEMMA SendKeeps ==
    ASSUME ChatInv, NEW m \in Messages, SendMessage(m) PROVE ChatInv'
<1> DEFINE ttl == TTLOf(setting)
           t == [turns[m] EXCEPT !.state = "queued", !.ttl = ttl]
<1>1. ttl \in Nat
  BY ChatAssumption DEF TTLOf, ChatInv, TypeOK
<1>2. turns[m] \in TurnRow /\ RowShape(turns[m], voices[m])
  BY DEF ChatInv, TypeOK
<1> HIDE DEF ttl
<1>3. t \in TurnRow /\ RowShape(t, voices[m])
  BY <1>1, <1>2 DEF SendMessage, TurnRow, RowShape, Unfinished, Finished
<1>4. turns' = [turns EXCEPT ![m] = t]
  BY DEF SendMessage, ttl, ChatInv, TypeOK
<1>5. voices' = [voices EXCEPT ![m] = voices[m]] /\ voices[m] \in SUBSET (1..MaxAttempts)
  BY DEF SendMessage, ChatInv, TypeOK
<1> HIDE DEF t
<1> QED BY <1>3, <1>4, <1>5, OneRow DEF SendMessage, ChatInv, TypeOK

\* Stop, of a queued turn and of a held one.
LEMMA StopKeeps ==
    ASSUME ChatInv, NEW m \in Messages, StopTurn(m) PROVE ChatInv'
<1> DEFINE t == IF turns[m].state = "queued"
                THEN [turns[m] EXCEPT !.state = "cancelled", !.cancel = TRUE, !.user = "cancelled"]
                ELSE [turns[m] EXCEPT !.cancel = TRUE]
<1>1. turns[m] \in TurnRow /\ RowShape(turns[m], voices[m])
  BY DEF ChatInv, TypeOK
<1>2. t \in TurnRow
  <2>1. [turns[m] EXCEPT !.state = "cancelled", !.cancel = TRUE, !.user = "cancelled"] \in TurnRow
    BY <1>1 DEF TurnRow, Unfinished, Finished
  <2>2. [turns[m] EXCEPT !.cancel = TRUE] \in TurnRow
    BY <1>1 DEF TurnRow
  <2> QED BY <2>1, <2>2
<1>3. RowShape(t, voices[m])
  <2>1. CASE turns[m].state = "queued"
    BY <1>1, <2>1 DEF TurnRow, RowShape, Finished
  <2>2. CASE turns[m].state # "queued"
    BY <1>1, <2>2 DEF TurnRow, RowShape, Finished
  <2> QED BY <2>1, <2>2
<1>4. turns' = [turns EXCEPT ![m] = t]
  BY DEF StopTurn, ChatInv, TypeOK
<1>5. voices' = [voices EXCEPT ![m] = voices[m]] /\ voices[m] \in SUBSET (1..MaxAttempts)
  BY DEF StopTurn, ChatInv, TypeOK
<1>6. epoch' \in Nat /\ late' \in Nat
  BY DEF StopTurn, ChatInv, TypeOK
<1> HIDE DEF t
<1> QED BY <1>2, <1>3, <1>4, <1>5, <1>6, OneRow DEF StopTurn, ChatInv, TypeOK

\* The sweep.
LEMMA ExpireKeeps ==
    ASSUME ChatInv, NEW m \in Messages, ExpireQueued(m) PROVE ChatInv'
<1> DEFINE t == NotDelivered(turns[m])
<1>1. turns[m] \in TurnRow /\ RowShape(turns[m], voices[m]) /\ turns[m].state = "queued"
  BY DEF ChatInv, TypeOK, ExpireQueued
<1>2. t \in TurnRow /\ RowShape(t, voices[m])
  BY <1>1, RowTypes, RowShapes
<1>3. turns' = [turns EXCEPT ![m] = t]
  BY DEF ExpireQueued, ChatInv, TypeOK
<1>4. voices' = [voices EXCEPT ![m] = voices[m]] /\ voices[m] \in SUBSET (1..MaxAttempts)
  BY DEF ExpireQueued, ChatInv, TypeOK
<1> HIDE DEF t
<1> QED BY <1>2, <1>3, <1>4, OneRow DEF ExpireQueued, ChatInv, TypeOK

\* A lease lapses, or a queued turn waits on.
LEMMA ClockKeeps ==
    ASSUME ChatInv, NEW m \in Messages, LeaseLapses(m) \/ Waits(m) PROVE ChatInv'
<1>1. turns[m] \in TurnRow /\ RowShape(turns[m], voices[m])
  BY DEF ChatInv, TypeOK
<1>2. voices[m] \in SUBSET (1..MaxAttempts) /\ voices = [voices EXCEPT ![m] = voices[m]]
  BY DEF ChatInv, TypeOK
<1>3. CASE LeaseLapses(m)
  <2> DEFINE t == [turns[m] EXCEPT !.lease = "lapsed"]
  <2>1. t \in TurnRow /\ RowShape(t, voices[m])
    BY <1>1 DEF TurnRow, RowShape
  <2>2. turns' = [turns EXCEPT ![m] = t]
    BY <1>3 DEF LeaseLapses, ChatInv, TypeOK
  <2> HIDE DEF t
  <2> QED BY <1>2, <1>3, <2>1, <2>2, OneRow DEF LeaseLapses, ChatInv, TypeOK
<1>4. CASE Waits(m)
  <2> DEFINE age == turns[m].age + 1
             t == [turns[m] EXCEPT !.age = age]
  <2>1. age \in Nat
    BY <1>1 DEF TurnRow
  <2>2. turns' = [turns EXCEPT ![m] = t]
    BY <1>4 DEF Waits, ChatInv, TypeOK
  <2> HIDE DEF age
  <2>3. t \in TurnRow /\ RowShape(t, voices[m])
    BY <1>1, <2>1 DEF TurnRow, RowShape
  <2> HIDE DEF t
  <2> QED BY <1>2, <1>4, <2>2, <2>3, OneRow DEF Waits, ChatInv, TypeOK
<1> QED BY <1>3, <1>4

\* Deleting the thread, by the user or by retention.
LEMMA DeleteKeeps ==
    ASSUME ChatInv, SoftDeleteLocked PROVE ChatInv'
<1>1. \A m \in Messages : /\ turns'[m] \in TurnRow
                          /\ RowShape(turns'[m], voices'[m])
  <2> TAKE m \in Messages
  <2>1. turns[m] \in TurnRow /\ RowShape(turns[m], voices[m])
    BY DEF ChatInv, TypeOK
  <2>2. turns'[m] = CancelledTurn(turns[m]) /\ voices'[m] = voices[m]
    BY DEF SoftDeleteLocked
  <2> QED BY <2>1, <2>2, RowTypes, RowShapes
<1>2. turns' \in [Messages -> TurnRow]
  BY <1>1 DEF SoftDeleteLocked
<1>3. TypeOK'
  BY <1>2 DEF SoftDeleteLocked, ChatInv, TypeOK
<1>4. (\A m \in Messages : RowShape(turns[m], voices[m]))'
  BY <1>1 DEF RowShape
<1> QED BY <1>3, <1>4 DEF ChatInv

\* A poll: it ends what is over and hands out at most one turn.
LEMMA ClaimKeeps ==
    ASSUME ChatInv, NEW r \in Runners, ClaimTurns(r) PROVE ChatInv'
<1> DEFINE ended == [m \in Messages |-> LazilyEnded(turns[m])]
           cand == {m \in Messages : Deliverable(ended[m])}
<1>1. \A m \in Messages : /\ turns[m] \in TurnRow
                          /\ RowShape(turns[m], voices[m])
                          /\ ended[m] \in TurnRow
                          /\ RowShape(ended[m], voices[m])
  BY RowTypes, RowShapes DEF ChatInv, TypeOK
<1>2. voices' = voices /\ deleted' = deleted /\ setting' = setting /\ late' = late
  BY DEF ClaimTurns
<1>3. ended \in [Messages -> TurnRow]
  BY <1>1
<1>4. CASE turns' = ended /\ UNCHANGED <<epoch, hands>>
  <2>1. TypeOK'
    BY <1>2, <1>3, <1>4 DEF ChatInv, TypeOK
  <2>2. \A m \in Messages : RowShape(turns'[m], voices'[m])
    BY <1>1, <1>2, <1>4
  <2>3. (\A m \in Messages : RowShape(turns[m], voices[m]))'
    BY <2>2 DEF RowShape
  <2> QED BY <2>1, <2>3 DEF ChatInv
<1>5. ASSUME NEW m \in cand, NEW answered \in BOOLEAN,
             epoch' = epoch + 1,
             turns' = [ended EXCEPT ![m] = HandedOut(@, r, epoch + 1)],
             hands' = IF answered THEN [hands EXCEPT ![r][m] = ended[m].attempt + 1] ELSE hands
      PROVE  ChatInv'
  <2>1. m \in Messages /\ Deliverable(ended[m])
    OBVIOUS
  <2> DEFINE t == HandedOut(ended[m], r, epoch + 1)
             a == ended[m].attempt + 1
  <2>2. epoch + 1 \in Nat
    BY DEF ChatInv, TypeOK
  <2>3. a \in 1..MaxAttempts /\ t \in TurnRow /\ RowShape(t, voices[m])
    BY <1>1, <2>1, <2>2, HandOuts
  <2>4. turns' = [ended EXCEPT ![m] = t]
    BY <1>5, <1>3
  <2> HIDE DEF t, ended
  <2>5. turns' \in [Messages -> TurnRow]
    BY <1>3, <2>3, <2>4
  <2>6. hands' \in [Runners -> [Messages -> 0..MaxAttempts]]
    <3>1. hands \in [Runners -> [Messages -> 0..MaxAttempts]] /\ a \in 0..MaxAttempts
      BY <2>3, ChatAssumption DEF ChatInv, TypeOK
    <3>2. hands' = IF answered THEN [hands EXCEPT ![r][m] = a] ELSE hands
      BY <1>5
    <3> HIDE DEF a
    <3> QED BY <2>1, <3>1, <3>2
  <2>7. TypeOK'
    BY <1>2, <1>5, <2>2, <2>5, <2>6 DEF ChatInv, TypeOK
  <2>8. \A n \in Messages : RowShape(turns'[n], voices'[n])
    BY <1>1, <1>2, <1>3, <2>3, <2>4
  <2>9. (\A n \in Messages : RowShape(turns[n], voices[n]))'
    BY <2>8 DEF RowShape
  <2> QED BY <2>7, <2>9 DEF ChatInv
<1> QED BY <1>4, <1>5 DEF ClaimTurns

\* A renewal, in time or late.
LEMMA RenewKeeps ==
    ASSUME ChatInv, NEW r \in Runners, NEW m \in Messages, RenewLease(r, m) PROVE ChatInv'
<1> DEFINE t == Touched(turns[m])
<1>1. turns[m] \in TurnRow /\ RowShape(turns[m], voices[m]) /\ epoch \in Nat
  BY DEF ChatInv, TypeOK
<1>2. t \in TurnRow /\ RowShape(t, voices[m]) /\ epoch' \in Nat
  BY <1>1, Touches DEF RowShape, RenewLease
<1>3. turns' = [turns EXCEPT ![m] = t]
  BY DEF RenewLease, ChatInv, TypeOK
<1>4. voices' = [voices EXCEPT ![m] = voices[m]] /\ voices[m] \in SUBSET (1..MaxAttempts)
  BY DEF RenewLease, ChatInv, TypeOK
<1>5. late' \in Nat
  BY DEF RenewLease, CountLate, ChatInv, TypeOK
<1> HIDE DEF t
<1> QED BY <1>2, <1>3, <1>4, <1>5, OneRow DEF RenewLease, ChatInv, TypeOK

\* The start, and a repeated one.
LEMMA StartKeeps ==
    ASSUME ChatInv, NEW r \in Runners, NEW m \in Messages, StartTurn(r, m) PROVE ChatInv'
<1> DEFINE u == Touched(turns[m])
           user == IF u.user = "queued" THEN "done" ELSE u.user
           t == [u EXCEPT !.state = "streaming", !.started = TRUE, !.user = user]
           v == voices[m] \cup {turns[m].attempt}
<1>1. /\ turns[m] \in TurnRow /\ RowShape(turns[m], voices[m]) /\ epoch \in Nat
      /\ turns[m].state \in {"claimed", "streaming"} /\ voices[m] \in SUBSET (1..MaxAttempts)
  BY DEF ChatInv, TypeOK, StartTurn
<1>2. u \in TurnRow /\ EpochAfter(turns[m]) \in Nat /\ RowShape(u, voices[m])
      /\ u.state = turns[m].state /\ u.attempt = turns[m].attempt
  BY <1>1, Touches DEF RowShape
<1>3. turns' = [turns EXCEPT ![m] = t] /\ voices' = [voices EXCEPT ![m] = v]
  BY DEF StartTurn, Started, ChatInv, TypeOK
<1>4. v \in SUBSET (1..MaxAttempts) /\ v = {u.attempt}
  BY <1>1, <1>2, ChatAssumption DEF RowShape, TurnRow
<1>5. user = "done"
  BY <1>1, <1>2 DEF RowShape
<1> HIDE DEF u, user, v
<1>6. t \in TurnRow /\ RowShape(t, v)
  <2>1. t \in TurnRow
    BY <1>2, <1>5 DEF TurnRow, Unfinished
  <2>2. /\ t.state = "streaming" /\ t.started /\ t.user = "done"
        /\ t.attempt = u.attempt /\ t.reply = u.reply
    BY <1>2, <1>5 DEF TurnRow
  <2>3. u.attempt > 0 /\ u.reply \in {"none", "streaming"}
    BY <1>1, <1>2 DEF RowShape
  <2> HIDE DEF t
  <2> QED BY <1>4, <2>1, <2>2, <2>3 DEF RowShape, Finished
<1>7. late' \in Nat /\ epoch' \in Nat
  BY <1>2 DEF StartTurn, CountLate, ChatInv, TypeOK
<1> HIDE DEF t
<1> QED BY <1>3, <1>4, <1>6, <1>7, OneRow DEF StartTurn, ChatInv, TypeOK

\* A batch of events, also the one that ends the turn.
LEMMA EventsKeep ==
    ASSUME ChatInv, NEW r \in Runners, NEW m \in Messages, NEW from \in 1..MaxSeq,
           NEW to \in 1..MaxSeq, NEW kind \in EventKinds, ApplyEvents(r, m, from, to, kind)
    PROVE  ChatInv'
<1> DEFINE u == Touched(turns[m])
           lease == IF kind \in Ending THEN "none" ELSE "live"
           state == IF kind \in Ending THEN StateAfter(kind) ELSE u.state
           reply == IF kind \in Ending THEN StateAfter(kind)
                    ELSE IF kind = "text" /\ u.reply = "none" THEN "streaming" ELSE u.reply
           user == IF kind = "final" /\ u.user = "queued" THEN "done" ELSE u.user
           t == [u EXCEPT !.lastSeq = to, !.lease = lease, !.state = state,
                          !.reply = reply, !.user = user]
           v == voices[m] \cup {turns[m].attempt}
<1>1. /\ turns[m] \in TurnRow /\ RowShape(turns[m], voices[m]) /\ epoch \in Nat
      /\ turns[m].state \in {"claimed", "streaming"} /\ voices[m] \in SUBSET (1..MaxAttempts)
      /\ turns[m].state = "claimed" => kind \in {"cancelled", "error"}
  BY DEF ChatInv, TypeOK, ApplyEvents, ClaimedBatchAllowed
<1>2. u \in TurnRow /\ EpochAfter(turns[m]) \in Nat /\ RowShape(u, voices[m])
      /\ u.state = turns[m].state /\ u.attempt = turns[m].attempt
  BY <1>1, Touches DEF RowShape
<1>3. turns' = [turns EXCEPT ![m] = t] /\ voices' = [voices EXCEPT ![m] = v]
  BY DEF ApplyEvents, WithEvents, ChatInv, TypeOK
<1>4. v \in SUBSET (1..MaxAttempts) /\ v = {u.attempt}
  BY <1>1, <1>2, ChatAssumption DEF RowShape, TurnRow
<1>5. user = u.user
  BY <1>1, <1>2 DEF RowShape
<1>6. kind \in Ending => state = reply /\ state \in {"done", "cancelled", "failed"}
  BY DEF Ending, StateAfter
<1>7. kind \notin Ending => /\ state = "streaming" /\ u.state = "streaming"
                            /\ reply \in {"none", "streaming"}
  BY <1>1, <1>2 DEF Ending, EventKinds, RowShape
<1>8. lease \in {"none", "live"} /\ to \in 0..MaxSeq
  BY ChatAssumption
<1> HIDE DEF u, user, v, lease, state, reply
<1>9. t \in TurnRow
  BY ZenonT(40), <1>2, <1>5, <1>6, <1>7, <1>8 DEF TurnRow, Unfinished, Finished
<1>10. /\ t.state = state /\ t.reply = reply /\ t.user = u.user
       /\ t.started = u.started /\ t.attempt = u.attempt
  BY <1>2, <1>5 DEF TurnRow
<1> HIDE DEF t
<1>11. u.attempt > 0 /\ u.state \in {"claimed", "streaming"}
  BY <1>1, <1>2 DEF RowShape
<1>12. RowShape(t, v)
  <2>1. CASE kind \in Ending
    BY <1>1, <1>2, <1>4, <1>6, <1>10, <1>11, <2>1 DEF RowShape, Finished
  <2>2. CASE kind \notin Ending
    BY <1>2, <1>4, <1>7, <1>10, <1>11, <2>2 DEF RowShape, Finished
  <2> QED BY <2>1, <2>2
<1>13. late' \in Nat /\ epoch' \in Nat
  BY <1>2 DEF ApplyEvents, CountLate, ChatInv, TypeOK
<1> QED BY <1>3, <1>4, <1>9, <1>12, <1>13, OneRow DEF ApplyEvents, ChatInv, TypeOK

\* A runner that dies or asks for its turns changes no row.
LEMMA HandsKeep ==
    ASSUME ChatInv, NEW r \in Runners, RunnerCrash(r) \/ ActiveTurns(r) PROVE ChatInv'
<1>1. /\ UNCHANGED <<turns, epoch, deleted, setting, voices, late>>
      /\ hands \in [Runners -> [Messages -> 0..MaxAttempts]]
      /\ turns \in [Messages -> TurnRow]
  BY DEF RunnerCrash, ActiveTurns, ChatInv, TypeOK
<1>2. hands' \in [Runners -> [Messages -> 0..MaxAttempts]]
  <2>1. CASE RunnerCrash(r)
    BY <1>1, <2>1, ChatAssumption DEF RunnerCrash
  <2>2. CASE ActiveTurns(r)
    <3> DEFINE held == {m \in Messages : turns[m].runner = r
                                         /\ turns[m].state \in {"claimed", "streaming"}}
               known == [m \in Messages |-> IF m \in held THEN turns[m].attempt
                                            ELSE hands[r][m]]
    <3>1. \A m \in Messages : turns[m].attempt \in 0..MaxAttempts
      BY <1>1 DEF TurnRow
    <3>2. known \in [Messages -> 0..MaxAttempts]
      BY <1>1, <3>1
    <3>3. hands' = [hands EXCEPT ![r] = known]
      BY <1>1, <2>2 DEF ActiveTurns
    <3> HIDE DEF known
    <3> QED BY <1>1, <3>2, <3>3
  <2> QED BY <2>1, <2>2
<1> QED BY <1>1, <1>2 DEF ChatInv, TypeOK, RowShape

\* One step of the system, or none.
LEMMA StepKeeps ==
    ASSUME ChatInv, [Next]_vars PROVE ChatInv'
<1>1. CASE UNCHANGED vars
  BY <1>1 DEF vars, ChatInv, TypeOK, RowShape
<1>2. ASSUME NEW m \in Messages,
             SendMessage(m) \/ StopTurn(m) \/ ExpireQueued(m) \/ LeaseLapses(m) \/ Waits(m)
      PROVE  ChatInv'
  BY <1>2, SendKeeps, StopKeeps, ExpireKeeps, ClockKeeps
<1>3. ASSUME NEW s \in Settings, ChangeSetting(s) PROVE ChatInv'
  BY <1>3 DEF ChangeSetting, ChatInv, TypeOK, RowShape
<1>4. CASE SoftDeleteThread \/ ExpireHistory
  BY <1>4, DeleteKeeps DEF SoftDeleteThread, ExpireHistory
<1>5. ASSUME NEW r \in Runners, RunnerNext(r) PROVE ChatInv'
  BY <1>5, ClaimKeeps, HandsKeep, RenewKeeps, StartKeeps, EventsKeep DEF RunnerNext
<1> QED BY <1>1, <1>2, <1>3, <1>4, <1>5 DEF Next, UserNext

\* The inductive invariant of the chat turns holds in every reachable state: the rows, the
\* messages they point at and the claims that acted on them agree, for any number of
\* messages, runners, attempts and events.
THEOREM ChatInvariant == Spec => []ChatInv
<1>1. Init => ChatInv
  BY Initially
<1>2. ChatInv /\ [Next]_vars => ChatInv'
  BY StepKeeps
<1> QED BY <1>1, <1>2, PTL DEF Spec

\* The model sees a user message under one claim only.
THEOREM MessageSeenOnce == Spec => []OneVoice
<1>1. ChatInv => OneVoice
  <2> SUFFICES ASSUME ChatInv, NEW m \in Messages, NEW a \in voices[m], NEW b \in voices[m]
               PROVE  a = b
    BY DEF OneVoice
  <2> QED BY DEF ChatInv, TypeOK, TurnRow, RowShape, Unfinished, Finished
<1> QED BY <1>1, ChatInvariant, PTL

\* What the user is told about the delivery of a message is what happened to it.
THEOREM DeliveryToldTruly == Spec => []DeliveryTold
<1>1. ChatInv => DeliveryTold
  <2> SUFFICES ASSUME ChatInv, NEW m \in Messages
               PROVE  /\ (turns[m].user = "done") <=> turns[m].started
                      /\ turns[m].user \in {"failed", "cancelled"} => voices[m] = {}
    BY DEF DeliveryTold
  <2> QED BY DEF ChatInv, TypeOK, TurnRow, RowShape, Unfinished, Finished
<1> QED BY <1>1, ChatInvariant, PTL

\* A reply and its turn end together, whichever call or sweep ends the turn.
THEOREM RepliesFollowTurns == Spec => []ReplyFollowsTurn
<1>1. ChatInv => ReplyFollowsTurn
  <2> SUFFICES ASSUME ChatInv, NEW m \in Messages
               PROVE  /\ turns[m].reply = "streaming" => turns[m].state = "streaming"
                      /\ turns[m].reply \in {"done", "failed", "cancelled"}
                            => turns[m].state = turns[m].reply
    BY DEF ReplyFollowsTurn
  <2> QED BY DEF ChatInv, TypeOK, TurnRow, RowShape, Unfinished, Finished
<1> QED BY <1>1, ChatInvariant, PTL


\* What a step may do to one row.  Frame: the row is left alone, or the turn was open; a
\* lapsed lease that comes back to life carries the epoch that this very step opened.
LEMMA StepsOnRow ==
    ASSUME ChatInv, Next, NEW m \in Messages
    PROVE  /\ turns[m].state \in Finished => turns'[m] = turns[m]
           /\ turns[m].lease = "lapsed" /\ turns'[m].lease = "live"
                => turns'[m].epoch = epoch' /\ epoch' > epoch
<1> USE DEF Finished, Unfinished
<1>1. turns \in [Messages -> TurnRow] /\ turns[m] \in TurnRow /\ epoch \in Nat
  BY DEF ChatInv, TypeOK
<1>2. \A e \in Nat : e + 1 > e
  OBVIOUS
<1>3. ASSUME NEW n \in Messages,
             SendMessage(n) \/ StopTurn(n) \/ ExpireQueued(n) \/ LeaseLapses(n) \/ Waits(n)
      PROVE  /\ turns[m].state \in Finished => turns'[m] = turns[m]
             /\ ~(turns[m].lease = "lapsed" /\ turns'[m].lease = "live")
  <2>1. n # m => turns'[m] = turns[m]
    BY <1>1, <1>3 DEF SendMessage, StopTurn, ExpireQueued, LeaseLapses, Waits
  <2>2. turns[n].state \notin Finished
    BY <1>3 DEF SendMessage, StopTurn, ExpireQueued, LeaseLapses, Waits
  <2>3. turns'[n].lease = turns[n].lease \/ turns'[n].lease = "lapsed"
    <3>1. CASE SendMessage(n)
      BY <1>1, <3>1 DEF SendMessage, TurnRow
    <3>2. CASE StopTurn(n)
      BY <1>1, <3>2 DEF StopTurn, TurnRow
    <3>3. CASE ExpireQueued(n)
      BY <1>1, <3>3 DEF ExpireQueued, NotDelivered, TurnRow
    <3>4. CASE LeaseLapses(n)
      BY <1>1, <3>4 DEF LeaseLapses, TurnRow
    <3>5. CASE Waits(n)
      BY <1>1, <3>5 DEF Waits, TurnRow
    <3> QED BY <1>3, <3>1, <3>2, <3>3, <3>4, <3>5
  <2> QED BY <2>1, <2>2, <2>3
<1>4. CASE SoftDeleteLocked
  BY <1>1, <1>4 DEF SoftDeleteLocked, CancelledTurn, TurnRow
<1>5. CASE UNCHANGED turns
  BY <1>5
<1>6. ASSUME NEW r \in Runners, ClaimTurns(r)
      PROVE  /\ turns[m].state \in Finished => turns'[m] = turns[m]
             /\ turns[m].lease = "lapsed" /\ turns'[m].lease = "live"
                  => turns'[m].epoch = epoch' /\ epoch' > epoch
  <2> DEFINE ended == [k \in Messages |-> LazilyEnded(turns[k])]
  <2>1. /\ turns[m].state \in Finished => ended[m] = turns[m]
        /\ ended[m].lease = turns[m].lease
        /\ ended \in [Messages -> TurnRow]
    <3>1. \A k \in Messages : LazilyEnded(turns[k]) \in TurnRow
      BY <1>1, RowTypes
    <3> QED BY ZenonT(40), <1>1, <3>1 DEF LazilyEnded, NotDelivered, TurnRow
  <2>2. CASE turns' = ended
    BY <2>1, <2>2
  <2>3. ASSUME NEW n \in Messages, Deliverable(ended[n]), epoch' = epoch + 1,
               turns' = [ended EXCEPT ![n] = HandedOut(@, r, epoch + 1)]
        PROVE  /\ turns[m].state \in Finished => turns'[m] = turns[m]
               /\ turns[m].lease = "lapsed" /\ turns'[m].lease = "live"
                    => turns'[m].epoch = epoch' /\ epoch' > epoch
    <3>1. CASE n # m
      BY <2>1, <2>3, <3>1
    <3>2. CASE n = m
      <4>1. turns[m].state \notin Finished
        BY <2>1, <2>3, <3>2 DEF Deliverable
      <4>2. turns'[m].epoch = epoch + 1
        <5>1. ended[m] \in TurnRow
          BY <2>1
        <5> HIDE DEF ended
        <5>2. turns'[m] = HandedOut(ended[m], r, epoch + 1)
          BY <2>1, <2>3, <3>2
        <5>3. \A t \in TurnRow : HandedOut(t, r, epoch + 1).epoch = epoch + 1
          BY DEF HandedOut, TurnRow
        <5> QED BY <5>1, <5>2, <5>3
      <4> QED BY <1>1, <1>2, <2>3, <4>1, <4>2
    <3> QED BY <3>1, <3>2
  <2> QED BY <1>6, <2>2, <2>3 DEF ClaimTurns
<1>7. ASSUME NEW r \in Runners, NEW n \in Messages,
             \/ RenewLease(r, n) \/ StartTurn(r, n)
             \/ \E from, to \in 1..MaxSeq, kind \in EventKinds : ApplyEvents(r, n, from, to, kind)
      PROVE  /\ turns[m].state \in Finished => turns'[m] = turns[m]
             /\ turns[m].lease = "lapsed" /\ turns'[m].lease = "live"
                  => turns'[m].epoch = epoch' /\ epoch' > epoch
  <2>1. turns[n].state \notin Finished /\ epoch' = EpochAfter(turns[n])
    BY <1>7 DEF RenewLease, StartTurn, ApplyEvents
  <2>2. Touched(turns[n]) \in TurnRow
    BY <1>1, Touches
  <2>3. CASE RenewLease(r, n) /\ n = m
    <3>1. turns'[m].epoch = Touched(turns[n]).epoch
      BY <1>1, <2>3 DEF RenewLease
    <3> QED BY <1>1, <1>2, <2>1, <2>3, <3>1 DEF EpochAfter, Touched, TurnRow
  <2>4. CASE n # m
    BY <1>1, <1>7, <2>4 DEF RenewLease, StartTurn, ApplyEvents
  <2>5. CASE StartTurn(r, n) /\ n = m
    <3>1. turns'[m].epoch = Touched(turns[n]).epoch
      BY <1>1, <2>2, <2>5 DEF StartTurn, Started, TurnRow
    <3> QED BY <1>1, <1>2, <2>1, <2>5, <3>1 DEF EpochAfter, Touched, TurnRow
  <2>6. ASSUME NEW from \in 1..MaxSeq, NEW to \in 1..MaxSeq, NEW kind \in EventKinds,
               ApplyEvents(r, n, from, to, kind), n = m
        PROVE  /\ turns[m].state \in Finished => turns'[m] = turns[m]
               /\ turns[m].lease = "lapsed" /\ turns'[m].lease = "live"
                    => turns'[m].epoch = epoch' /\ epoch' > epoch
    <3>1. turns'[m].epoch = Touched(turns[n]).epoch
      BY <1>1, <2>2, <2>6 DEF ApplyEvents, WithEvents, TurnRow
    <3> QED BY <1>1, <1>2, <2>1, <2>6, <3>1 DEF EpochAfter, Touched, TurnRow
  <2> QED BY <1>7, <2>3, <2>4, <2>5, <2>6
<1> QED BY <1>3, <1>4, <1>5, <1>6, <1>7
        DEF Next, UserNext, RunnerNext, SoftDeleteThread, ExpireHistory, ChangeSetting,
            RunnerCrash, ActiveTurns

\* A finished turn stays exactly as it ended, under every step of every actor.
THEOREM FinishedTurnsFinal == Spec => FinishedIsFinal
<1>1. ChatInv /\ [Next]_vars
        => [\A m \in Messages : turns[m].state \in Finished => turns'[m] = turns[m]]_vars
  BY StepsOnRow
<1> QED BY <1>1, ChatInvariant, PTL DEF Spec, FinishedIsFinal

\* Every call that revives a lapsed lease moves the turn to a new execution epoch.
THEOREM RevivalsOpenEpochs == Spec => RevivalOpensEpoch
<1>1. ChatInv /\ [Next]_vars
        => [\A m \in Messages :
              turns[m].lease = "lapsed" /\ turns'[m].lease = "live"
                  => turns'[m].epoch = epoch' /\ epoch' > epoch]_vars
  BY StepsOnRow
<1> QED BY <1>1, ChatInvariant, PTL DEF Spec, RevivalOpensEpoch

---------------------------------------------------------------------------
(* Every step is a step of ThreadLife, or changes nothing it can see.       *)

LEMMA LifeOfStep ==
    ASSUME \/ \E m \in Messages :
                \/ Life!Send(m) \/ Life!Hand(m) \/ Life!Lapse(m) \/ Life!Return(m)
                \/ Life!Speak(m) \/ Life!Finish(m) \/ Life!Abandon(m)
           \/ Life!Fence
           \/ UNCHANGED <<Phase, Claims, Silent, voices, Told, WorkEpoch, epoch>>
    PROVE  [Life!Next]_(Life!vars)
  BY DEF Life!Next, Life!vars

\* What the abstract state is of a row, and what it becomes when one row is rewritten.
LEMMA SeenRow ==
    ASSUME ChatInv, NEW m \in Messages
    PROVE  /\ Phase[m] = PhaseOf(turns[m]) /\ Claims[m] = turns[m].attempt
           /\ m \in Silent <=> SilentRow(turns[m])
           /\ Told[m] = turns[m].user /\ WorkEpoch[m] = turns[m].epoch
  BY DEF Phase, Claims, Silent, Told, WorkEpoch

RowBecomes(m, u) == turns' = [turns EXCEPT ![m] = u]

Seen(m, u) ==
    /\ Phase' = [Phase EXCEPT ![m] = PhaseOf(u)]
    /\ Claims' = [Claims EXCEPT ![m] = u.attempt]
    /\ Silent' = IF SilentRow(u) THEN Silent \cup {m} ELSE Silent \ {m}
    /\ Told' = [Told EXCEPT ![m] = u.user]
    /\ WorkEpoch' = [WorkEpoch EXCEPT ![m] = u.epoch]

LEMMA SeenStep ==
    ASSUME ChatInv, NEW m \in Messages, NEW u, RowBecomes(m, u)
    PROVE  Seen(m, u)
<1>1. /\ turns \in [Messages -> TurnRow]
      /\ turns'[m] = u /\ \A n \in Messages \ {m} : turns'[n] = turns[n]
  BY DEF RowBecomes, ChatInv, TypeOK
<1>2. \A n \in Messages \ {m} : PhaseOf(turns'[n]) = PhaseOf(turns[n])
  BY <1>1
<1>3. Phase' = [n \in Messages |-> PhaseOf(turns'[n])]
  BY DEF Phase, PhaseOf
<1>4. Silent' = {n \in Messages : SilentRow(turns'[n])}
  BY DEF Silent, SilentRow
<1>5. Phase' = [Phase EXCEPT ![m] = PhaseOf(u)]
  BY <1>1, <1>2, <1>3 DEF Phase
<1>6. Silent' = IF SilentRow(u) THEN Silent \cup {m} ELSE Silent \ {m}
  <2>1. \A n \in Messages \ {m} : SilentRow(turns'[n]) <=> SilentRow(turns[n])
    BY <1>1
  <2> QED BY <1>1, <1>4, <2>1 DEF Silent
<1>7. Claims' = [Claims EXCEPT ![m] = u.attempt]
  BY <1>1 DEF Claims
<1>8. Told' = [Told EXCEPT ![m] = u.user]
  BY <1>1 DEF Told
<1>9. WorkEpoch' = [WorkEpoch EXCEPT ![m] = u.epoch]
  BY <1>1 DEF WorkEpoch
<1> QED BY <1>5, <1>6, <1>7, <1>8, <1>9 DEF Seen

\* The abstract functions with the value they have are unchanged.
SameAt(m) ==
    /\ Phase = [Phase EXCEPT ![m] = Phase[m]]
    /\ Claims = [Claims EXCEPT ![m] = Claims[m]]
    /\ Told = [Told EXCEPT ![m] = Told[m]]
    /\ WorkEpoch = [WorkEpoch EXCEPT ![m] = WorkEpoch[m]]

LEMMA SeenSame == ASSUME NEW m \in Messages PROVE SameAt(m)
  BY DEF SameAt, Phase, Claims, Told, WorkEpoch

\* The rows stay: whatever becomes of the epoch, nothing else of the abstract state moves.
LEMMA SeenStays ==
    ASSUME turns' = turns
    PROVE  UNCHANGED <<Phase, Claims, Silent, Told, WorkEpoch>>
  BY DEF Phase, PhaseOf, Claims, Silent, SilentRow, Told, WorkEpoch

\* A row is ended by somebody who is not its holder.
LEMMA Abandons ==
    ASSUME ChatInv, NEW m \in Messages, turns[m].state \in Unfinished, NEW u \in TurnRow,
           RowBecomes(m, u), voices' = voices, epoch' >= epoch,
           u.state \in Finished, u.attempt = turns[m].attempt, u.epoch = turns[m].epoch,
           \/ u.user = turns[m].user
           \/ turns[m].state # "streaming" /\ u.user \in {"failed", "cancelled"}
    PROVE  [Life!Next]_(Life!vars)
<1>1. PhaseOf(u) = "over" /\ ~SilentRow(u)
  BY DEF PhaseOf, SilentRow, Finished
<1>t. Seen(m, u) /\ SameAt(m)
  BY SeenStep, SeenSame
<1>2. /\ Phase' = [Phase EXCEPT ![m] = "over"] /\ Silent' = Silent \ {m}
      /\ Claims' = Claims /\ WorkEpoch' = WorkEpoch
      /\ Told' = [Told EXCEPT ![m] = u.user]
  BY <1>1, SeenRow, <1>t DEF Seen, SameAt
<1>3. Phase[m] \in {"open", "heard"} /\ (turns[m].state # "streaming" => Phase[m] = "open")
  BY SeenRow DEF PhaseOf, Unfinished
<1>4. Told' = Told \/ (Phase[m] = "open" /\ \/ Told' = [Told EXCEPT ![m] = "failed"]
                                            \/ Told' = [Told EXCEPT ![m] = "cancelled"])
  BY <1>2, <1>3, SeenRow, <1>t DEF SameAt
<1>5. Life!Abandon(m)
  BY <1>2, <1>3, <1>4 DEF Life!Abandon, Life!Working
<1> QED BY <1>5, LifeOfStep

\* A call of the holder on a row.
LEMMA Calls ==
    ASSUME ChatInv, NEW m \in Messages, turns[m].state \in {"claimed", "streaming"},
           NEW u \in TurnRow, turns' = [turns EXCEPT ![m] = u],
           epoch' = EpochAfter(turns[m]), u.epoch = Touched(turns[m]).epoch,
           u.attempt = turns[m].attempt, ~SilentRow(u)
    PROVE  Life!Called(m) /\ Claims' = Claims /\ Claims[m] = turns[m].attempt
<1>1. turns[m] \in TurnRow /\ epoch \in Nat /\ turns[m].attempt > 0
  BY DEF ChatInv, TypeOK, RowShape
<1>s. RowBecomes(m, u)
  BY DEF RowBecomes
<1>t. Seen(m, u) /\ SameAt(m)
  BY <1>s, SeenStep, SeenSame
<1>2. /\ Silent' = Silent \ {m} /\ Claims' = Claims
      /\ WorkEpoch' = [WorkEpoch EXCEPT ![m] = u.epoch]
  BY SeenRow, <1>t DEF Seen, SameAt
<1>3. Phase[m] \in {"open", "heard"} /\ Claims[m] > 0 /\ Claims[m] = turns[m].attempt
  BY <1>1, SeenRow DEF PhaseOf
<1>4. CASE turns[m].lease = "lapsed"
  <2>1. m \in Silent /\ epoch' > epoch /\ u.epoch = epoch'
    BY <1>1, <1>4, SeenRow DEF SilentRow, EpochAfter, Touched, TurnRow
  <2> QED BY <1>2, <1>3, <2>1 DEF Life!Called, Life!Working, Life!Renewed
<1>5. CASE turns[m].lease # "lapsed"
  <2>1. m \notin Silent /\ epoch' = epoch /\ u.epoch = WorkEpoch[m]
    BY <1>1, <1>5, SeenRow DEF SilentRow, EpochAfter, Touched, TurnRow
  <2>2. Silent' = Silent /\ WorkEpoch' = WorkEpoch
    BY <1>2, <2>1, <1>t DEF SameAt
  <2> QED BY <1>2, <1>3, <2>1, <2>2 DEF Life!Called, Life!Working
<1> QED BY <1>4, <1>5

LEMMA RenewLives ==
    ASSUME ChatInv, NEW r \in Runners, NEW m \in Messages, RenewLease(r, m)
    PROVE  [Life!Next]_(Life!vars)
<1> DEFINE t == turns[m]
           u == Touched(t)
<1>1. /\ t \in TurnRow /\ epoch \in Nat /\ t.state \in {"claimed", "streaming"}
      /\ epoch' = EpochAfter(t) /\ turns' = [turns EXCEPT ![m] = u] /\ voices' = voices
  BY DEF RenewLease, ChatInv, TypeOK
<1>2. u \in TurnRow /\ u.state = t.state /\ u.attempt = t.attempt /\ u.user = t.user
      /\ u.lease = "live"
  BY <1>1, Touches DEF Touched, TurnRow
<1>3. ~SilentRow(u) /\ PhaseOf(u) = PhaseOf(t)
  BY <1>2 DEF SilentRow, PhaseOf
<1> HIDE DEF u
<1>s. RowBecomes(m, u)
  BY <1>1 DEF RowBecomes
<1>t. Seen(m, u) /\ SameAt(m)
  BY <1>s, SeenStep, SeenSame
<1>4. Phase' = Phase /\ Told' = Told
  BY <1>1, <1>2, <1>3, <1>t, SeenRow DEF Seen, SameAt
<1>5. Life!Called(m) /\ Claims' = Claims
  BY <1>1, <1>2, <1>3, Calls DEF u
<1>6. Life!Return(m)
  BY <1>1, <1>4, <1>5 DEF Life!Return
<1> QED BY <1>6, LifeOfStep

LEMMA StartLives ==
    ASSUME ChatInv, NEW r \in Runners, NEW m \in Messages, StartTurn(r, m)
    PROVE  [Life!Next]_(Life!vars)
<1> DEFINE t == turns[m]
           u == Started(t)
<1>1. /\ t \in TurnRow /\ epoch \in Nat /\ t.state \in {"claimed", "streaming"}
      /\ epoch' = EpochAfter(t) /\ turns' = [turns EXCEPT ![m] = u]
      /\ voices' = [voices EXCEPT ![m] = @ \cup {t.attempt}] /\ RowShape(t, voices[m])
  BY DEF StartTurn, ChatInv, TypeOK
<1>2. Touched(t) \in TurnRow /\ Touched(t).attempt = t.attempt /\ Touched(t).user = t.user
      /\ Touched(t).lease = "live"
  BY <1>1, Touches DEF Touched, TurnRow
<1>3. /\ u \in TurnRow /\ u.state = "streaming" /\ u.attempt = t.attempt
      /\ u.epoch = Touched(t).epoch /\ u.lease = "live" /\ u.user = "done"
  <2>1. t.user \in {"queued", "done"}
    BY <1>1 DEF RowShape
  <2> HIDE DEF t
  <2> QED BY <1>2, <2>1 DEF Started, TurnRow, Unfinished
<1> HIDE DEF u
<1>4. ~SilentRow(u) /\ PhaseOf(u) = "heard"
  BY <1>3 DEF SilentRow, PhaseOf
<1>s. RowBecomes(m, u)
  BY <1>1 DEF RowBecomes
<1>t. Seen(m, u) /\ SameAt(m)
  BY <1>s, SeenStep, SeenSame
<1>5. Phase' = [Phase EXCEPT ![m] = "heard"] /\ Told' = [Told EXCEPT ![m] = "done"]
  BY <1>1, <1>3, <1>4, <1>t DEF Seen, SameAt
<1>6. Life!Called(m) /\ Claims' = Claims /\ Claims[m] = t.attempt
  BY <1>1, <1>3, <1>4, Calls
<1>7. Life!Speak(m)
  BY <1>1, <1>5, <1>6 DEF Life!Speak
<1> QED BY <1>7, LifeOfStep

LEMMA EventsLive ==
    ASSUME ChatInv, NEW r \in Runners, NEW m \in Messages, NEW from \in 1..MaxSeq,
           NEW to \in 1..MaxSeq, NEW kind \in EventKinds, ApplyEvents(r, m, from, to, kind)
    PROVE  [Life!Next]_(Life!vars)
<1> DEFINE t == turns[m]
           u == WithEvents(t, to, kind)
<1>1. /\ t \in TurnRow /\ epoch \in Nat /\ t.state \in {"claimed", "streaming"}
      /\ epoch' = EpochAfter(t) /\ turns' = [turns EXCEPT ![m] = u]
      /\ voices' = [voices EXCEPT ![m] = @ \cup {t.attempt}] /\ RowShape(t, voices[m])
      /\ t.state = "claimed" => kind \in {"cancelled", "error"}
  BY DEF ApplyEvents, ClaimedBatchAllowed, ChatInv, TypeOK
<1>2. Touched(t) \in TurnRow /\ Touched(t).attempt = t.attempt /\ Touched(t).user = t.user
      /\ Touched(t).state = t.state
  BY <1>1, Touches
<1>3. u \in TurnRow
  <2>1. ChatInv'
    BY EventsKeep
  <2>2. turns'[m] \in TurnRow
    BY <2>1 DEF ChatInv, TypeOK
  <2> QED BY <1>1, <2>2 DEF ChatInv, TypeOK
<1>4. /\ u.attempt = t.attempt /\ u.epoch = Touched(t).epoch /\ u.user = t.user
      /\ kind \in Ending => u.state \in Finished
      /\ kind \notin Ending => u.state = "streaming" /\ u.lease = "live" /\ t.user = "done"
  <2>1. kind = "final" => t.user # "queued"
    BY <1>1 DEF RowShape
  <2>2. kind \notin Ending => t.state = "streaming" /\ t.user = "done"
    BY <1>1 DEF Ending, RowShape
  <2> HIDE DEF t
  <2> QED BY <1>2, <2>1, <2>2 DEF WithEvents, Ending, StateAfter, TurnRow, Finished
<1> HIDE DEF u
<1>5. ~SilentRow(u) /\ PhaseOf(u) = IF kind \in Ending THEN "over" ELSE "heard"
  BY <1>4 DEF SilentRow, PhaseOf, Finished
<1>6. Life!Called(m) /\ Claims' = Claims /\ Claims[m] = t.attempt
  BY <1>1, <1>3, <1>4, <1>5, Calls
<1>s. RowBecomes(m, u)
  BY <1>1 DEF RowBecomes
<1>t. Seen(m, u) /\ SameAt(m)
  BY <1>s, SeenStep, SeenSame
<1>7. Phase' = [Phase EXCEPT ![m] = PhaseOf(u)] /\ Told' = [Told EXCEPT ![m] = u.user]
  BY <1>1, <1>t DEF Seen, SameAt
<1>8. CASE kind \in Ending
  <2>1. Told' = Told
    BY <1>4, <1>7, SeenRow, <1>t DEF SameAt
  <2>2. Life!Finish(m)
    BY <1>1, <1>5, <1>6, <1>7, <1>8, <2>1 DEF Life!Finish
  <2> QED BY <2>2, LifeOfStep
<1>9. CASE kind \notin Ending
  <2>1. Told' = [Told EXCEPT ![m] = "done"]
    BY <1>4, <1>7, <1>9
  <2>2. Life!Speak(m)
    BY <1>1, <1>5, <1>6, <1>7, <1>9, <2>1 DEF Life!Speak
  <2> QED BY <2>2, LifeOfStep
<1> QED BY <1>8, <1>9

LEMMA SendLives ==
    ASSUME ChatInv, NEW m \in Messages, SendMessage(m)
    PROVE  [Life!Next]_(Life!vars)
<1> DEFINE t == turns[m]
           u == [t EXCEPT !.state = "queued", !.ttl = TTLOf(setting)]
<1>1. t \in TurnRow /\ t.state = "none" /\ turns' = [turns EXCEPT ![m] = u]
  BY DEF SendMessage, ChatInv, TypeOK
<1>2. u.state = "queued" /\ u.attempt = t.attempt /\ u.epoch = t.epoch /\ u.user = t.user
  BY <1>1 DEF TurnRow
<1> HIDE DEF u
<1>3. ~SilentRow(u) /\ ~SilentRow(t) /\ PhaseOf(u) = "open" /\ PhaseOf(t) = "none"
  BY <1>1, <1>2 DEF SilentRow, PhaseOf
<1>s. RowBecomes(m, u)
  BY <1>1 DEF RowBecomes
<1>t. Seen(m, u) /\ SameAt(m)
  BY <1>s, SeenStep, SeenSame
<1>4. /\ Phase' = [Phase EXCEPT ![m] = "open"]
      /\ UNCHANGED <<Claims, Silent, Told, WorkEpoch>>
  BY <1>1, <1>2, <1>3, SeenRow, <1>t DEF Seen, SameAt
<1>5. \A n \in Messages : Phase[n] \notin {"open", "heard"}
  BY SeenRow DEF SendMessage, PhaseOf, Unfinished
<1>6. Life!Send(m)
  BY <1>3, <1>4, <1>5, SeenRow DEF Life!Send, Life!Idle, Life!Working, SendMessage
<1> QED BY <1>6, LifeOfStep

LEMMA StopLives ==
    ASSUME ChatInv, NEW m \in Messages, StopTurn(m)
    PROVE  [Life!Next]_(Life!vars)
<1>1. turns[m] \in TurnRow /\ epoch \in Nat /\ turns[m].state \in Unfinished /\ voices' = voices
  BY DEF StopTurn, ChatInv, TypeOK
<1>2. CASE turns[m].state = "queued"
  <2> DEFINE u == [turns[m] EXCEPT !.state = "cancelled", !.cancel = TRUE, !.user = "cancelled"]
  <2>1. turns' = [turns EXCEPT ![m] = u] /\ epoch' = epoch
    BY <1>2 DEF StopTurn, ChatInv, TypeOK
  <2>2. /\ u \in TurnRow /\ u.state \in Finished /\ u.attempt = turns[m].attempt
        /\ u.epoch = turns[m].epoch /\ u.user = "cancelled"
    BY <1>1 DEF TurnRow, Finished, Unfinished
  <2>3. RowBecomes(m, u)
    BY <2>1 DEF RowBecomes
  <2> HIDE DEF u
  <2> QED BY <1>1, <1>2, <2>1, <2>2, <2>3, Abandons
<1>3. CASE turns[m].state # "queued"
  <2> DEFINE u == [turns[m] EXCEPT !.cancel = TRUE]
  <2>1. turns' = [turns EXCEPT ![m] = u] /\ epoch' = epoch + 1
    BY <1>3 DEF StopTurn, ChatInv, TypeOK
  <2>2. /\ u.state = turns[m].state /\ u.attempt = turns[m].attempt
        /\ u.epoch = turns[m].epoch /\ u.user = turns[m].user /\ u.lease = turns[m].lease
    BY <1>1 DEF TurnRow
  <2> HIDE DEF u
  <2>3. PhaseOf(u) = PhaseOf(turns[m]) /\ (SilentRow(u) <=> SilentRow(turns[m]))
    BY <2>2 DEF PhaseOf, SilentRow
  <2>s. RowBecomes(m, u)
    BY <2>1 DEF RowBecomes
  <2>t. Seen(m, u) /\ SameAt(m)
    BY <2>s, SeenStep, SeenSame
  <2>4. UNCHANGED <<Phase, Claims, Silent, Told, WorkEpoch>>
    BY <2>1, <2>2, <2>3, SeenRow, <2>t DEF Seen, SameAt
  <2>5. Life!Fence
    BY <1>1, <2>1, <2>4 DEF Life!Fence
  <2> QED BY <2>5, LifeOfStep
<1> QED BY <1>2, <1>3

LEMMA ClockLives ==
    ASSUME ChatInv, NEW m \in Messages, ExpireQueued(m) \/ LeaseLapses(m) \/ Waits(m)
    PROVE  [Life!Next]_(Life!vars)
<1>1. turns[m] \in TurnRow /\ epoch \in Nat /\ RowShape(turns[m], voices[m])
      /\ epoch' = epoch /\ voices' = voices
  BY DEF ExpireQueued, LeaseLapses, Waits, ChatInv, TypeOK
<1>2. CASE ExpireQueued(m)
  <2>1. turns' = [turns EXCEPT ![m] = NotDelivered(turns[m])] /\ turns[m].state = "queued"
    BY <1>2 DEF ExpireQueued, ChatInv, TypeOK
  <2>2. /\ NotDelivered(turns[m]).state = "expired" /\ NotDelivered(turns[m]).user = "failed"
        /\ NotDelivered(turns[m]).attempt = turns[m].attempt
        /\ NotDelivered(turns[m]).epoch = turns[m].epoch
        /\ NotDelivered(turns[m]) \in TurnRow
    BY <1>1, RowTypes DEF NotDelivered, TurnRow
  <2>3. RowBecomes(m, NotDelivered(turns[m])) /\ epoch' >= epoch
    BY <1>1, <2>1 DEF RowBecomes
  <2> QED BY <1>1, <2>1, <2>2, <2>3, Abandons DEF Finished, Unfinished
<1>3. CASE LeaseLapses(m)
  <2> DEFINE u == [turns[m] EXCEPT !.lease = "lapsed"]
  <2>1. turns' = [turns EXCEPT ![m] = u] /\ turns[m].state \in {"claimed", "streaming"}
    BY <1>3 DEF LeaseLapses, ChatInv, TypeOK
  <2>2. /\ u.state = turns[m].state /\ u.attempt = turns[m].attempt
        /\ u.epoch = turns[m].epoch /\ u.user = turns[m].user /\ u.lease = "lapsed"
        /\ turns[m].attempt > 0
    BY <1>1, <2>1 DEF TurnRow, RowShape
  <2> HIDE DEF u
  <2>3. PhaseOf(u) = PhaseOf(turns[m]) /\ SilentRow(u) /\ PhaseOf(u) \in {"open", "heard"}
    BY <2>1, <2>2 DEF PhaseOf, SilentRow
  <2>s. RowBecomes(m, u)
    BY <2>1 DEF RowBecomes
  <2>t. Seen(m, u) /\ SameAt(m)
    BY <2>s, SeenStep, SeenSame
  <2>4. UNCHANGED <<Phase, Claims, Told, WorkEpoch>> /\ Silent' = Silent \cup {m}
    BY <2>1, <2>2, <2>3, SeenRow, <2>t DEF Seen, SameAt
  <2>5. Life!Lapse(m)
    BY <1>1, <2>2, <2>3, <2>4, SeenRow DEF Life!Lapse, Life!Working
  <2> QED BY <2>5, LifeOfStep
<1>4. CASE Waits(m)
  <2> DEFINE u == [turns[m] EXCEPT !.age = turns[m].age + 1]
  <2>1. turns' = [turns EXCEPT ![m] = u]
    BY <1>4 DEF Waits, ChatInv, TypeOK
  <2>2. /\ u.state = turns[m].state /\ u.attempt = turns[m].attempt
        /\ u.epoch = turns[m].epoch /\ u.user = turns[m].user /\ u.lease = turns[m].lease
    BY <1>1 DEF TurnRow
  <2> HIDE DEF u
  <2>3. PhaseOf(u) = PhaseOf(turns[m]) /\ (SilentRow(u) <=> SilentRow(turns[m]))
    BY <2>2 DEF PhaseOf, SilentRow
  <2>s. RowBecomes(m, u)
    BY <2>1 DEF RowBecomes
  <2>t. Seen(m, u) /\ SameAt(m)
    BY <2>s, SeenStep, SeenSame
  <2>4. UNCHANGED <<Phase, Claims, Silent, Told, WorkEpoch>>
    BY <2>1, <2>2, <2>3, SeenRow, <2>t DEF Seen, SameAt
  <2> QED BY <1>1, <2>4, LifeOfStep
<1> QED BY <1>2, <1>3, <1>4

\* A change of all unfinished rows is a change of at most one.
LEMMA OneChanges ==
    ASSUME ChatInv, OneTurnOpen, NEW f, f = [m \in Messages |-> f[m]],
           \A m \in Messages : turns[m].state \notin Unfinished => f[m] = turns[m]
    PROVE  \/ f = turns
           \/ \E m \in Messages : turns[m].state \in Unfinished /\ f = [turns EXCEPT ![m] = f[m]]
<1>1. turns = [m \in Messages |-> turns[m]]
  BY DEF ChatInv, TypeOK
<1>2. CASE \A m \in Messages : turns[m].state \notin Unfinished
  BY <1>1, <1>2
<1>3. ASSUME NEW m \in Messages, turns[m].state \in Unfinished
      PROVE  f = [turns EXCEPT ![m] = f[m]]
  <2>1. \A n \in Messages \ {m} : f[n] = turns[n]
    BY <1>3 DEF OneTurnOpen
  <2> QED BY <1>1, <2>1
<1> QED BY <1>2, <1>3

LEMMA DeleteLives ==
    ASSUME ChatInv, OneTurnOpen, SoftDeleteLocked
    PROVE  [Life!Next]_(Life!vars)
<1>1. epoch \in Nat /\ epoch' = epoch + 1 /\ voices' = voices
      /\ turns' = [m \in Messages |-> CancelledTurn(turns[m])]
  BY DEF SoftDeleteLocked, ChatInv, TypeOK
<1>2. \/ turns' = turns
      \/ \E m \in Messages : turns[m].state \in Unfinished /\ turns' = [turns EXCEPT ![m] = turns'[m]]
  <2>1. \A m \in Messages : turns[m].state \notin Unfinished => turns'[m] = turns[m]
    BY <1>1 DEF CancelledTurn
  <2>2. turns' = [m \in Messages |-> turns'[m]]
    BY <1>1
  <2> QED BY <2>1, <2>2, OneChanges
<1>3. CASE turns' = turns
  <2>1. Life!Fence
    BY <1>1, <1>3, SeenStays DEF Life!Fence
  <2> QED BY <2>1, LifeOfStep
<1>4. ASSUME NEW m \in Messages, turns[m].state \in Unfinished, turns' = [turns EXCEPT ![m] = turns'[m]]
      PROVE  [Life!Next]_(Life!vars)
  <2> DEFINE u == CancelledTurn(turns[m])
  <2>1. turns' = [turns EXCEPT ![m] = u]
    BY <1>1, <1>4
  <2>2. turns[m] \in TurnRow
    BY DEF ChatInv, TypeOK
  <2>3. /\ u \in TurnRow /\ u.state \in Finished /\ u.attempt = turns[m].attempt
        /\ u.epoch = turns[m].epoch /\ u.user = turns[m].user
    BY <1>4, <2>2, RowTypes DEF CancelledTurn, TurnRow, Finished
  <2>4. RowBecomes(m, u)
    BY <2>1 DEF RowBecomes
  <2>5. epoch' >= epoch
    <3> HIDE DEF u
    <3> QED BY <1>1
  <2> HIDE DEF u
  <2> QED BY <1>1, <1>4, <2>3, <2>4, <2>5, Abandons
<1> QED BY <1>2, <1>3, <1>4

LEMMA ClaimLives ==
    ASSUME ChatInv, OneTurnOpen, NEW r \in Runners, ClaimTurns(r)
    PROVE  [Life!Next]_(Life!vars)
<1> DEFINE ended == [m \in Messages |-> LazilyEnded(turns[m])]
<1>1. epoch \in Nat /\ voices' = voices /\ turns \in [Messages -> TurnRow]
      /\ \A m \in Messages : RowShape(turns[m], voices[m])
  BY DEF ClaimTurns, ChatInv, TypeOK
<1>2. \A m \in Messages :
        LazilyEnded(turns[m]) # turns[m] =>
          /\ turns[m].state \in {"queued", "claimed"}
          /\ LazilyEnded(turns[m]).state \in {"expired", "failed"}
          /\ LazilyEnded(turns[m]).user = "failed"
          /\ LazilyEnded(turns[m]).attempt = turns[m].attempt
          /\ LazilyEnded(turns[m]).epoch = turns[m].epoch
  <2> SUFFICES ASSUME NEW t \in TurnRow, LazilyEnded(t) # t
               PROVE  /\ t.state \in {"queued", "claimed"}
                      /\ LazilyEnded(t).state \in {"expired", "failed"}
                      /\ LazilyEnded(t).user = "failed"
                      /\ LazilyEnded(t).attempt = t.attempt
                      /\ LazilyEnded(t).epoch = t.epoch
    BY <1>1
  <2> QED BY DEF LazilyEnded, NotDelivered, TurnRow
<1>3. \/ ended = turns
      \/ \E m \in Messages : turns[m].state \in Unfinished /\ ended = [turns EXCEPT ![m] = ended[m]]
  <2>1. \A m \in Messages : turns[m].state \notin Unfinished => ended[m] = turns[m]
    BY <1>2 DEF Unfinished
  <2>2. ended = [m \in Messages |-> ended[m]]
    OBVIOUS
  <2> HIDE DEF ended
  <2> QED BY <2>1, <2>2, OneChanges
<1>4. CASE turns' = ended /\ epoch' = epoch
  <2>1. CASE turns' = turns
    BY <1>1, <1>4, <2>1, SeenStays, LifeOfStep
  <2>2. ASSUME NEW m \in Messages, turns[m].state \in Unfinished,
               ended = [turns EXCEPT ![m] = ended[m]], turns' # turns
        PROVE  [Life!Next]_(Life!vars)
    <3> DEFINE u == LazilyEnded(turns[m])
    <3>1. turns' = [turns EXCEPT ![m] = u]
      BY <1>4, <2>2
    <3>2. u # turns[m]
      BY <1>1, <2>2, <3>1
    <3>3. u \in TurnRow /\ u.state \in Finished /\ turns[m].state # "streaming"
      BY <1>1, <1>2, <3>2, RowTypes DEF Finished
    <3>4. u.user = "failed" /\ u.attempt = turns[m].attempt /\ u.epoch = turns[m].epoch
      BY <1>2, <3>2
    <3>5. RowBecomes(m, u)
      BY <3>1 DEF RowBecomes
    <3>6. epoch' >= epoch
      <4> HIDE DEF u, ended
      <4> QED BY <1>1, <1>4
    <3> HIDE DEF u, ended
    <3> QED BY <1>1, <2>2, <3>3, <3>4, <3>5, <3>6, Abandons
  <2> QED BY <1>3, <1>4, <2>1, <2>2
<1>5. ASSUME NEW m \in Messages, Deliverable(ended[m]), epoch' = epoch + 1,
             turns' = [ended EXCEPT ![m] = HandedOut(@, r, epoch + 1)]
      PROVE  [Life!Next]_(Life!vars)
  <2>1. ended[m] = turns[m] /\ turns[m].state \in {"queued", "claimed"} /\ Deliverable(turns[m])
    BY <1>2, <1>5 DEF Deliverable
  <2>2. ended = turns
    <3>1. ASSUME NEW n \in Messages, turns[n].state \in Unfinished PROVE n = m
      BY <2>1, <3>1 DEF OneTurnOpen, Unfinished
    <3> HIDE DEF ended
    <3> QED BY <1>1, <1>3, <2>1, <3>1
  <2> HIDE DEF ended
  <2> DEFINE t == turns[m]
             u == HandedOut(t, r, epoch + 1)
  <2>3. turns' = [turns EXCEPT ![m] = u] /\ t \in TurnRow /\ RowShape(t, voices[m])
    BY <1>1, <1>5, <2>2
  <2>4. /\ u.state = "claimed" /\ u.attempt = t.attempt + 1 /\ u.epoch = epoch + 1
        /\ u.lease = "live" /\ u.user = t.user
    BY <2>3 DEF HandedOut, TurnRow
  <2>5. t.attempt < MaxAttempts /\ (t.attempt = 0 \/ SilentRow(t))
    BY <2>1, <2>3, ChatAssumption DEF Deliverable, RowShape, SilentRow
  <2> HIDE DEF u
  <2>6. ~SilentRow(u) /\ PhaseOf(u) = "open" /\ PhaseOf(t) = "open"
    BY <2>1, <2>4 DEF SilentRow, PhaseOf
  <2>s. RowBecomes(m, u)
    BY <2>3 DEF RowBecomes
  <2>t. Seen(m, u) /\ SameAt(m)
    BY <2>s, SeenStep, SeenSame
  <2>7. /\ Phase' = Phase /\ Told' = Told /\ Silent' = Silent \ {m}
        /\ Claims' = [Claims EXCEPT ![m] = t.attempt + 1]
        /\ WorkEpoch' = [WorkEpoch EXCEPT ![m] = epoch']
    BY <1>5, <2>3, <2>4, <2>6, SeenRow, <2>t DEF Seen, SameAt
  <2>8. Claims[m] = t.attempt /\ Phase[m] = "open" /\ (m \in Silent <=> SilentRow(t))
    BY <2>6, SeenRow
  <2>9. Life!Hand(m)
    BY <1>1, <1>5, <2>5, <2>7, <2>8 DEF Life!Hand, Life!Renewed
  <2> QED BY <2>9, LifeOfStep
<1> QED BY <1>4, <1>5 DEF ClaimTurns

LEMMA StepLives ==
    ASSUME ChatInv, OneTurnOpen, [Next]_vars
    PROVE  [Life!Next]_(Life!vars)
<1>1. CASE turns' = turns /\ epoch' = epoch /\ voices' = voices
  BY <1>1, SeenStays, LifeOfStep
<1>2. ASSUME NEW m \in Messages,
             SendMessage(m) \/ StopTurn(m) \/ ExpireQueued(m) \/ LeaseLapses(m) \/ Waits(m)
      PROVE  [Life!Next]_(Life!vars)
  BY <1>2, SendLives, StopLives, ClockLives
<1>3. CASE SoftDeleteThread \/ ExpireHistory
  BY <1>3, DeleteLives DEF SoftDeleteThread, ExpireHistory
<1>4. ASSUME NEW r \in Runners, RunnerNext(r) PROVE [Life!Next]_(Life!vars)
  BY <1>1, <1>4, ClaimLives, RenewLives, StartLives, EventsLive DEF RunnerNext, RunnerCrash, ActiveTurns
<1> QED BY <1>1, <1>2, <1>3, <1>4 DEF Next, UserNext, ChangeSetting, vars

\* A thread works on one message at a time, because ThreadLife does.
LEMMA OneOpenKept ==
    ASSUME ChatInv, OneTurnOpen, [Life!Next]_(Life!vars), turns' \in [Messages -> TurnRow]
    PROVE  OneTurnOpen'
<1> DEFINE Open(f) == {m \in Messages : f[m] \in {"open", "heard"}}
<1>1. \A m \in Messages : /\ turns[m].state \in Unfinished <=> Phase[m] \in {"open", "heard"}
                          /\ turns'[m].state \in Unfinished <=> Phase'[m] \in {"open", "heard"}
  BY DEF Phase, PhaseOf, Unfinished
<1>2. Phase \in [Messages -> {"none", "open", "heard", "over"}]
  BY DEF Phase, PhaseOf
<1>3. \/ \A m \in Messages : Phase'[m] \in {"open", "heard"} => Phase[m] \in {"open", "heard"}
      \/ \E n \in Messages : \A m \in Messages : Phase'[m] \in {"open", "heard"} => m = n
  <2>1. CASE Phase' = Phase
    BY <2>1
  <2>2. ASSUME NEW n \in Messages, Life!Send(n)
        PROVE  \A m \in Messages : Phase'[m] \in {"open", "heard"} => m = n
    BY <1>2, <2>2 DEF Life!Send, Life!Idle, Life!Working
  <2>3. ASSUME NEW n \in Messages, Life!Speak(n) \/ Life!Finish(n) \/ Life!Abandon(n)
        PROVE  \A m \in Messages : Phase'[m] \in {"open", "heard"} => Phase[m] \in {"open", "heard"}
    BY <1>2, <2>3 DEF Life!Speak, Life!Finish, Life!Abandon, Life!Called, Life!Working
  <2> QED BY <2>1, <2>2, <2>3
          DEF Life!Next, Life!vars, Life!Hand, Life!Lapse, Life!Return, Life!Fence
<1>4. (\A m, n \in Messages : turns'[m].state \in Unfinished /\ turns'[n].state \in Unfinished => m = n)
  BY <1>1, <1>3 DEF OneTurnOpen
<1> QED BY <1>4 DEF OneTurnOpen, Unfinished

LEMMA OneOpenHolds == Spec => [](ChatInv /\ OneTurnOpen)
<1>1. Init => ChatInv /\ OneTurnOpen
  BY Initially DEF Init, OneTurnOpen, NoTurn, Unfinished
<1>2. ChatInv /\ OneTurnOpen /\ [Next]_vars => (ChatInv /\ OneTurnOpen)'
  <2> SUFFICES ASSUME ChatInv, OneTurnOpen, [Next]_vars PROVE ChatInv' /\ OneTurnOpen'
    OBVIOUS
  <2>1. ChatInv'
    BY StepKeeps
  <2>2. turns' \in [Messages -> TurnRow]
    BY <2>1 DEF ChatInv, TypeOK
  <2> QED BY <2>1, <2>2, StepLives, OneOpenKept
<1> QED BY <1>1, <1>2, PTL DEF Spec

\* The chat turns implement ThreadLife for any number of messages, runners, attempts and
\* events: one message at a time, a new claim and a new epoch each time it is handed out,
\* never again after a runner was heard, no revival under an old epoch, and the truth told.
THEOREM ImplementsThreadLife == Spec => ThreadLifeSpec
<1>1. Init => Life!Init
  <2> SUFFICES ASSUME Init PROVE Life!Init
    OBVIOUS
  <2>1. \A m \in Messages : turns[m] = NoTurn
    BY DEF Init
  <2> QED BY <2>1 DEF Init, Life!Init, NoTurn, Phase, PhaseOf, Claims, Silent, SilentRow, Told, WorkEpoch
<1>2. ChatInv /\ OneTurnOpen /\ [Next]_vars => [Life!Next]_(Life!vars)
  BY StepLives
<1> QED BY <1>1, <1>2, OneOpenHolds, PTL DEF Spec, ThreadLifeSpec, Life!Spec

---------------------------------------------------------------------------
(* The session bearers.                                                     *)

\* What a step of the turns that is no Stop makes of a row: t became u, f is the epoch then.
Old(t, e) == t.epoch <= e /\ (t.attempt > 0 => t.epoch > 0)
Unasked(t) == t.state \in {"none", "queued"} => ~t.cancel
Running(t) == t.state \in {"claimed", "streaming"}
GoesOn(t, u, f) ==
    /\ t.attempt > 0 => u.attempt > 0
    /\ t.epoch <= u.epoch
    /\ Old(u, f)
    /\ Unasked(u)
    /\ u.cancel /\ Running(u) => t.cancel /\ Running(t)

\* The rows that steps other than a runner's call make.
LEMMA RowsGoOn ==
    ASSUME NEW t \in TurnRow, NEW e \in Nat, Old(t, e), Unasked(t)
    PROVE  /\ \A f \in Nat : e <= f => GoesOn(t, t, f)
           /\ GoesOn(t, CancelledTurn(t), e + 1)
           /\ GoesOn(t, NotDelivered(t), e)
           /\ GoesOn(t, LazilyEnded(t), e)
           /\ Running(t) => GoesOn(t, [t EXCEPT !.lease = "lapsed"], e)
           /\ \A a : GoesOn(t, [t EXCEPT !.age = a], e)
           /\ \A x : t.state = "none" => GoesOn(t, [t EXCEPT !.state = "queued", !.ttl = x], e)
<1> USE DEF Old, Unasked, Running, GoesOn, TurnRow
<1>1. \A f \in Nat : e <= f => GoesOn(t, t, f)
  OBVIOUS
<1>2. GoesOn(t, CancelledTurn(t), e + 1)
  BY DEF CancelledTurn, Unfinished
<1>3. GoesOn(t, NotDelivered(t), e)
  BY DEF NotDelivered
<1>4. GoesOn(t, LazilyEnded(t), e)
  <2>1. CASE t.state = "queued" /\ t.age >= t.ttl
    BY <1>3, <2>1 DEF LazilyEnded
  <2>2. CASE t.state = "claimed" /\ t.lease = "lapsed" /\ t.attempt >= MaxAttempts
    <3> DEFINE u == LazilyEnded(t)
    <3>1. u.attempt = t.attempt /\ u.epoch = t.epoch /\ u.state = "failed"
      BY <2>2 DEF LazilyEnded
    <3> QED BY <3>1
  <2>3. CASE LazilyEnded(t) = t
    BY <1>1, <2>3
  <2> QED BY <2>1, <2>2, <2>3 DEF LazilyEnded
<1>5. Running(t) => GoesOn(t, [t EXCEPT !.lease = "lapsed"], e)
  OBVIOUS
<1>6. \A a : GoesOn(t, [t EXCEPT !.age = a], e)
  OBVIOUS
<1>7. \A x : t.state = "none" => GoesOn(t, [t EXCEPT !.state = "queued", !.ttl = x], e)
  OBVIOUS
<1> QED BY <1>1, <1>2, <1>3, <1>4, <1>5, <1>6, <1>7

\* The row a claim hands out, and those a holder's call makes.
LEMMA HeldRowsGoOn ==
    ASSUME NEW t \in TurnRow, epoch \in Nat, Old(t, epoch), Unasked(t)
    PROVE  /\ \A r : Deliverable(t) => GoesOn(t, HandedOut(t, r, epoch + 1), epoch + 1)
           /\ Running(t) =>
                 /\ GoesOn(t, Touched(t), EpochAfter(t))
                 /\ GoesOn(t, Started(t), EpochAfter(t))
                 /\ \A to, kind : GoesOn(t, WithEvents(t, to, kind), EpochAfter(t))
<1> USE DEF Old, Unasked, Running, GoesOn
<1>1. ASSUME NEW r, Deliverable(t) PROVE GoesOn(t, HandedOut(t, r, epoch + 1), epoch + 1)
  BY <1>1 DEF TurnRow, Deliverable, HandedOut
<1>2. ASSUME Running(t) PROVE GoesOn(t, Touched(t), EpochAfter(t)) /\ Running(Touched(t))
  BY <1>2 DEF TurnRow, Touched, EpochAfter
<1>3. Touched(t) \in TurnRow
  BY Touches
<1>4. Touched(t).cancel = t.cancel
  BY DEF TurnRow, Touched
<1>5. ASSUME Running(t) PROVE GoesOn(t, Started(t), EpochAfter(t))
  <2> DEFINE u == Started(t)
  <2>1. /\ u.attempt = Touched(t).attempt /\ u.epoch = Touched(t).epoch
        /\ u.cancel = Touched(t).cancel /\ u.state = "streaming"
    BY <1>3 DEF Started, TurnRow
  <2> HIDE DEF u
  <2>2. GoesOn(t, u, EpochAfter(t))
    BY <1>2, <1>4, <1>5, <2>1
  <2> QED BY <2>2 DEF u
<1>6. ASSUME Running(t), NEW to, NEW kind PROVE GoesOn(t, WithEvents(t, to, kind), EpochAfter(t))
  <2> DEFINE u == WithEvents(t, to, kind)
  <2>1. /\ u.attempt = Touched(t).attempt /\ u.epoch = Touched(t).epoch
        /\ u.cancel = Touched(t).cancel
    BY <1>3 DEF WithEvents, TurnRow
  <2>2. u.state = Touched(t).state \/ u.state \in {"done", "cancelled", "failed"}
    BY <1>3 DEF WithEvents, StateAfter, TurnRow
  <2> HIDE DEF u
  <2>3. GoesOn(t, u, EpochAfter(t))
    BY <1>2, <1>4, <1>6, <2>1, <2>2
  <2> QED BY <2>3 DEF u
<1> QED BY <1>1, <1>2, <1>5, <1>6

\* Every step of the turns that is no Stop.
LEMMA TurnsGoOn ==
    ASSUME ChatInv, \A m \in Messages : Old(turns[m], epoch) /\ Unasked(turns[m]), TurnsOnly
    PROVE  /\ epoch' >= epoch
           /\ \A m \in Messages : GoesOn(turns[m], turns'[m], epoch')
<1>1. /\ turns \in [Messages -> TurnRow] /\ epoch \in Nat
      /\ \A m \in Messages : turns[m] \in TurnRow
      /\ \A e \in Nat : e + 1 \in Nat /\ e <= e + 1 /\ e <= e
  BY DEF ChatInv, TypeOK
<1>2. \A m \in Messages : \A f \in Nat : epoch <= f => GoesOn(turns[m], turns[m], f)
  BY <1>1, RowsGoOn
<1> DEFINE Goal == /\ epoch' >= epoch
                   /\ \A m \in Messages : GoesOn(turns[m], turns'[m], epoch')
<1>3. ASSUME NEW n \in Messages, NEW u, NEW f \in Nat, turns' = [turns EXCEPT ![n] = u],
             epoch' = f, epoch <= f, GoesOn(turns[n], u, f)
      PROVE  Goal
  BY <1>1, <1>2, <1>3
<1>4. ASSUME UNCHANGED <<turns, epoch>> PROVE Goal
  BY <1>1, <1>2, <1>4
<1>5. ASSUME NEW n \in Messages, SendMessage(n) PROVE Goal
  <2> DEFINE u == [turns[n] EXCEPT !.state = "queued", !.ttl = TTLOf(setting)]
  <2>1. turns' = [turns EXCEPT ![n] = u] /\ epoch' = epoch /\ turns[n].state = "none"
    BY <1>1, <1>5 DEF SendMessage
  <2>2. GoesOn(turns[n], u, epoch)
    BY <1>1, <2>1, RowsGoOn
  <2> HIDE DEF u
  <2> QED BY <1>1, <1>3, <2>1, <2>2
<1>6. ASSUME NEW n \in Messages, ExpireQueued(n) PROVE Goal
  BY <1>1, <1>3, <1>6, RowsGoOn DEF ExpireQueued
<1>7. ASSUME NEW n \in Messages, LeaseLapses(n) PROVE Goal
  BY <1>1, <1>3, <1>7, RowsGoOn DEF LeaseLapses, Running
<1>8. ASSUME NEW n \in Messages, Waits(n) PROVE Goal
  <2> DEFINE u == [turns[n] EXCEPT !.age = turns[n].age + 1]
  <2>1. turns' = [turns EXCEPT ![n] = u] /\ epoch' = epoch
    BY <1>1, <1>8 DEF Waits
  <2>2. GoesOn(turns[n], u, epoch)
    BY <1>1, RowsGoOn
  <2> HIDE DEF u
  <2> QED BY <1>1, <1>3, <2>1, <2>2
<1>9. ASSUME SoftDeleteLocked PROVE Goal
  BY <1>1, <1>9, RowsGoOn DEF SoftDeleteLocked
<1>10. ASSUME NEW r \in Runners, ClaimTurns(r) PROVE Goal
  <2> DEFINE ended == [m \in Messages |-> LazilyEnded(turns[m])]
  <2>1. \A m \in Messages : GoesOn(turns[m], ended[m], epoch)
    BY <1>1, RowsGoOn
  <2>2. CASE turns' = ended /\ epoch' = epoch
    BY <1>1, <2>1, <2>2
  <2>3. ASSUME NEW n \in Messages, Deliverable(ended[n]), epoch' = epoch + 1,
               turns' = [ended EXCEPT ![n] = HandedOut(@, r, epoch + 1)]
        PROVE  Goal
    <3>1. ended[n] = turns[n]
      <4>1. LazilyEnded(turns[n]) # turns[n] =>
                LazilyEnded(turns[n]).state \in {"expired", "failed"}
        BY <1>1 DEF LazilyEnded, NotDelivered, TurnRow
      <4> QED BY <2>3, <4>1 DEF Deliverable
    <3>2. GoesOn(turns[n], turns'[n], epoch')
      BY <1>1, <2>3, <3>1, HeldRowsGoOn
    <3>3. ASSUME NEW m \in Messages, m # n PROVE GoesOn(turns[m], turns'[m], epoch')
      <4>1. turns'[m] = LazilyEnded(turns[m])
        BY <2>3, <3>3
      <4>2. LazilyEnded(turns[m]).epoch <= epoch
        BY <2>1 DEF GoesOn, Old
      <4>3. LazilyEnded(turns[m]) \in TurnRow
        BY <1>1, RowTypes
      <4> QED BY <1>1, <2>1, <2>3, <4>1, <4>2, <4>3 DEF GoesOn, Old, TurnRow
    <3> QED BY <1>1, <2>3, <3>2, <3>3
  <2> QED BY <1>10, <2>2, <2>3 DEF ClaimTurns
<1>11. \A m \in Messages : EpochAfter(turns[m]) \in Nat /\ epoch <= EpochAfter(turns[m])
  BY <1>1 DEF EpochAfter
<1>12. ASSUME NEW r \in Runners, NEW n \in Messages, RenewLease(r, n) PROVE Goal
  BY <1>1, <1>3, <1>11, <1>12, HeldRowsGoOn DEF RenewLease, Running
<1>13. ASSUME NEW r \in Runners, NEW n \in Messages, StartTurn(r, n) PROVE Goal
  BY <1>1, <1>3, <1>11, <1>13, HeldRowsGoOn DEF StartTurn, Running
<1>14. ASSUME NEW r \in Runners, NEW n \in Messages,
              NEW from \in 1..MaxSeq, NEW to \in 1..MaxSeq, NEW kind \in EventKinds,
              ApplyEvents(r, n, from, to, kind)
       PROVE  Goal
  BY <1>1, <1>3, <1>11, <1>14, HeldRowsGoOn DEF ApplyEvents, Running
<1>15. ASSUME NEW r \in Runners, RunnerCrash(r) \/ ActiveTurns(r) PROVE Goal
  BY <1>4, <1>15 DEF RunnerCrash, ActiveTurns
<1>16. ASSUME NEW s \in Settings, ChangeSetting(s) PROVE Goal
  BY <1>4, <1>16 DEF ChangeSetting
<1> HIDE DEF Goal
<1>17. ASSUME NEW r \in Runners, RunnerNext(r) PROVE Goal
  BY <1>10, <1>12, <1>13, <1>14, <1>15, <1>17 DEF RunnerNext
<1>18. Goal
  BY <1>5, <1>6, <1>7, <1>8, <1>9, <1>16, <1>17 DEF TurnsOnly, SoftDeleteThread, ExpireHistory
<1> QED BY <1>18 DEF Goal

\* What is proved inductive.
SessionIInv == SessionInv /\ StopIsFinal /\ OneExecution

\* A bearer is left alone or loses its use.
Weakened(t, u) ==
    IF t = NoToken THEN u = NoToken
    ELSE /\ u \in Token
         /\ u.session = t.session /\ u.epoch = t.epoch /\ u.runner = t.runner
         /\ Usable(u) => Usable(t)

\* A bearer's row and its absence are told apart.
LEMMA NoTokenIsNone == NoToken \notin Token
<1> SUFFICES ASSUME NoToken \in Token PROVE FALSE
  OBVIOUS
<1>1. NoToken.session \in Messages
  BY DEF Token
<1> QED BY <1>1, SessionAssumption DEF NoToken

\* The ways a bearer is weakened.
LEMMA Weakenings ==
    ASSUME NEW t \in Token \cup {NoToken}
    PROVE  /\ Weakened(t, t)
           /\ \A a : Weakened(t, Superseded(t, a))
           /\ Weakened(t, Revoked(t))
           /\ t # NoToken => /\ Weakened(t, [t EXCEPT !.expired = TRUE])
                             /\ t.revoked = "overlap" => Weakened(t, [t EXCEPT !.revoked = "superseded"])
           /\ Revoked(t) # NoToken => ~Usable(Revoked(t))
<1>1. CASE t = NoToken
  BY <1>1 DEF Weakened, Superseded, Revoked
<1>2. CASE t \in Token /\ t # NoToken
  <2>1. Weakened(t, t)
    BY <1>2 DEF Weakened
  <2>2. ASSUME NEW a PROVE Weakened(t, Superseded(t, a))
    BY <1>2 DEF Weakened, Superseded, Token, Usable
  <2>3. Weakened(t, Revoked(t)) /\ ~Usable(Revoked(t))
    BY <1>2 DEF Weakened, Revoked, Token, Usable
  <2>4. Weakened(t, [t EXCEPT !.expired = TRUE])
    BY <1>2 DEF Weakened, Token, Usable
  <2>5. t.revoked = "overlap" => Weakened(t, [t EXCEPT !.revoked = "superseded"])
    BY <1>2 DEF Weakened, Token, Usable
  <2> QED BY <2>1, <2>2, <2>3, <2>4, <2>5
<1> QED BY <1>1, <1>2

\* Weakening bearers moves none.
LEMMA WeakenedStay ==
    ASSUME SessionTypeOK, tokens' = [b \in Bearers |-> tokens'[b]],
           \A b \in Bearers : Weakened(tokens[b], tokens'[b])
    PROVE  /\ tokens' \in [Bearers -> Token \cup {NoToken}]
           /\ Minted' = Minted
           /\ \A m : OfSession(m)' = OfSession(m)
           /\ \A b \in Minted : /\ tokens'[b].session = tokens[b].session
                                /\ tokens'[b].epoch = tokens[b].epoch
                                /\ tokens'[b].runner = tokens[b].runner
                                /\ Usable(tokens'[b]) => Usable(tokens[b])
<1>1. \A b \in Bearers : tokens'[b] = NoToken <=> tokens[b] = NoToken
  BY NoTokenIsNone DEF Weakened
<1>2. \A b \in Bearers : tokens'[b] \in Token \cup {NoToken}
  BY DEF Weakened
<1>3. Minted' = Minted
  BY <1>1 DEF Minted
<1>4. \A b \in Minted : /\ tokens'[b].session = tokens[b].session
                        /\ tokens'[b].epoch = tokens[b].epoch
                        /\ tokens'[b].runner = tokens[b].runner
                        /\ Usable(tokens'[b]) => Usable(tokens[b])
  BY DEF Weakened, Minted
<1>5. \A m : OfSession(m)' = OfSession(m)
  BY <1>3, <1>4 DEF OfSession
<1> QED BY <1>2, <1>3, <1>4, <1>5

\* The parts of the invariant that speak of bearers follow when bearers are weakened, turns
\* go on and requests are kept or dropped.
LEMMA WeakeningKeeps ==
    ASSUME SessionIInv, tokens' = [b \in Bearers |-> tokens'[b]],
           \A b \in Bearers : Weakened(tokens[b], tokens'[b]),
           UNCHANGED latest,
           ChatInv', EpochsGiven', CancelledHasStop',
           \A m \in Messages : /\ turns[m].attempt > 0 => turns'[m].attempt > 0
                               /\ turns[m].epoch <= turns'[m].epoch,
           asks' \in [Runners -> SUBSET Ask], \A r \in Runners : asks'[r] \subseteq asks[r],
           stops' \subseteq Messages,
           \A b \in Minted : tokens[b].session \in stops' => tokens[b].session \in stops \/ ~Usable(tokens'[b])
    PROVE  SessionIInv'
<1> USE DEF SessionIInv, SessionInv
<1>1. /\ tokens' \in [Bearers -> Token \cup {NoToken}]
      /\ Minted' = Minted
      /\ \A m : OfSession(m)' = OfSession(m)
      /\ \A b \in Minted : /\ tokens'[b].session = tokens[b].session
                           /\ tokens'[b].epoch = tokens[b].epoch
                           /\ Usable(tokens'[b]) => Usable(tokens[b])
  BY WeakenedStay
<1>2. SessionTypeOK'
  BY <1>1 DEF SessionTypeOK
<1>3. \A b \in Minted : tokens[b] \in Token /\ tokens[b].session \in Messages /\ tokens[b].epoch \in Nat
  BY DEF Minted, SessionTypeOK, Token
<1>4. \A m \in Messages : turns[m].epoch \in Nat /\ turns'[m].epoch \in Nat
  BY DEF ChatInv, TypeOK, TurnRow
<1>5. BearersOfTurns'
  <2>1. \A r \in Runners : \A a \in asks[r] : a.session \in Messages /\ a.epoch \in Nat
    BY DEF SessionTypeOK, Ask
  <2>2. \A b \in Minted' : turns'[tokens'[b].session].attempt > 0
                             /\ tokens'[b].epoch \in 1..turns'[tokens'[b].session].epoch
    BY <1>1, <1>3, <1>4 DEF BearersOfTurns
  <2>3. \A r \in Runners : \A a \in asks'[r] : turns'[a.session].attempt > 0
                             /\ a.epoch \in 1..turns'[a.session].epoch
    BY <1>4, <2>1 DEF BearersOfTurns
  <2> QED BY <2>2, <2>3 DEF BearersOfTurns
<1>6. LatestExists'
  BY <1>1 DEF LatestExists
<1>7. StopIsFinal'
  <2> SUFFICES ASSUME NEW b \in Minted, tokens'[b].session \in stops' PROVE ~Usable(tokens'[b])
    BY <1>1 DEF StopIsFinal, Usable
  <2> QED BY <1>1 DEF StopIsFinal
<1>8. OneExecution'
  <2> SUFFICES ASSUME NEW b \in Minted, NEW c \in Minted, tokens'[b].session = tokens'[c].session,
                      Usable(tokens'[b]), Usable(tokens'[c])
               PROVE  tokens'[b].epoch = tokens'[c].epoch
    BY <1>1 DEF OneExecution, Usable
  <2> QED BY <1>1 DEF OneExecution
<1> QED BY <1>2, <1>5, <1>6, <1>7, <1>8

\* Nothing has been asked for or minted.
LEMMA SessionsBegin == SessionInit => SessionIInv
<1> SUFFICES ASSUME SessionInit PROVE SessionIInv
  OBVIOUS
<1>1. ChatInv
  BY Initially DEF SessionInit
<1>2. Minted = {}
  BY DEF SessionInit, Minted
<1>3. \A m \in Messages : OfSession(m) = {} /\ latest[m] = NoBearer
  BY <1>2 DEF SessionInit, OfSession
<1>4. SessionTypeOK
  BY DEF SessionInit, SessionTypeOK
<1>5. EpochsGiven /\ CancelledHasStop
  BY DEF SessionInit, Init, NoTurn, EpochsGiven, CancelledHasStop
<1>6. BearersOfTurns
  BY <1>2 DEF SessionInit, BearersOfTurns
<1>7. LatestExists /\ StopIsFinal /\ OneExecution
  BY <1>2, <1>3 DEF LatestExists, StopIsFinal, OneExecution
<1> QED BY <1>1, <1>4, <1>5, <1>6, <1>7 DEF SessionIInv, SessionInv

\* A step that leaves the turns alone.
LEMMA TurnsAlone ==
    ASSUME SessionIInv, UNCHANGED vars, stops \subseteq stops'
    PROVE  /\ ChatInv' /\ EpochsGiven' /\ CancelledHasStop'
           /\ turns' = turns
           /\ \A m \in Messages : /\ turns[m].attempt > 0 => turns'[m].attempt > 0
                                  /\ turns[m].epoch <= turns'[m].epoch
<1>1. ChatInv'
  BY StepKeeps DEF SessionIInv, SessionInv
<1>2. turns' = turns /\ epoch' = epoch
  BY DEF vars
<1>3. EpochsGiven' /\ CancelledHasStop'
  BY <1>2 DEF SessionIInv, SessionInv, EpochsGiven, CancelledHasStop
<1>4. \A m \in Messages : turns[m].epoch <= turns[m].epoch
  BY DEF SessionIInv, SessionInv, ChatInv, TypeOK, TurnRow
<1> QED BY <1>1, <1>2, <1>3, <1>4

\* What happens to the turns while the bearers stay.
LEMMA TurnsOnlyKeeps == ASSUME SessionIInv, TurnsOnly PROVE SessionIInv'
<1>1. \A m \in Messages : Old(turns[m], epoch) /\ Unasked(turns[m])
  BY DEF SessionIInv, SessionInv, EpochsGiven, CancelledHasStop, Old, Unasked
<1>2. \A m \in Messages : GoesOn(turns[m], turns'[m], epoch')
  BY <1>1, TurnsGoOn DEF SessionIInv, SessionInv
<1>3. ChatInv'
  <2>1. Next
    BY DEF TurnsOnly, Next, UserNext
  <2> QED BY <2>1, StepKeeps DEF SessionIInv, SessionInv
<1>4. EpochsGiven'
  BY <1>2 DEF GoesOn, Old, EpochsGiven
<1>5. CancelledHasStop'
  BY <1>2 DEF GoesOn, Unasked, Running, CancelledHasStop, TurnsOnly, sessionVars, SessionIInv, SessionInv
<1>6. \A b \in Bearers : Weakened(tokens[b], tokens'[b])
  BY Weakenings DEF TurnsOnly, sessionVars, SessionIInv, SessionInv, SessionTypeOK
<1>7. /\ UNCHANGED <<tokens, latest, stops, asks>>
      /\ SessionTypeOK
  BY DEF TurnsOnly, sessionVars, SessionIInv, SessionInv
<1>8. tokens' = [b \in Bearers |-> tokens'[b]]
  BY <1>7 DEF SessionTypeOK
<1>9. \A m \in Messages : /\ turns[m].attempt > 0 => turns'[m].attempt > 0
                          /\ turns[m].epoch <= turns'[m].epoch
  BY <1>2 DEF GoesOn
<1>10. /\ asks' \in [Runners -> SUBSET Ask] /\ \A r \in Runners : asks'[r] \subseteq asks[r]
       /\ stops' \subseteq Messages
       /\ \A b \in Minted : tokens[b].session \in stops' => tokens[b].session \in stops
  BY <1>7 DEF SessionTypeOK
<1> QED BY <1>3, <1>4, <1>5, <1>6, <1>7, <1>8, <1>9, <1>10, WeakeningKeeps

\* The clock, a dropped request and the stop of one session.
LEMMA EndingsKeep ==
    ASSUME SessionIInv,
           \/ \E r \in Runners : DropAsk(r)
           \/ \E b \in Bearers : TokenExpires(b) \/ OverlapEnds(b)
           \/ \E m \in Messages : RevokeSession(m)
    PROVE  SessionIInv'
<1>1. SessionTypeOK /\ \A b \in Bearers : tokens[b] \in Token \cup {NoToken}
  BY DEF SessionIInv, SessionInv, SessionTypeOK
<1>2. ASSUME NEW r \in Runners, DropAsk(r) PROVE SessionIInv'
  <2>1. /\ UNCHANGED <<vars, tokens, latest, stops>>
        /\ asks' \in [Runners -> SUBSET Ask] /\ \A q \in Runners : asks'[q] \subseteq asks[q]
    BY <1>1, <1>2 DEF DropAsk, SessionTypeOK
  <2>2. tokens' = [b \in Bearers |-> tokens'[b]] /\ stops' \subseteq Messages
    BY <1>1, <2>1 DEF SessionTypeOK
  <2>3. \A b \in Bearers : Weakened(tokens[b], tokens'[b])
    BY <1>1, <2>1, Weakenings
  <2> QED BY <2>1, <2>2, <2>3, TurnsAlone, WeakeningKeeps
<1>3. ASSUME NEW c \in Bearers, TokenExpires(c) \/ OverlapEnds(c) PROVE SessionIInv'
  <2>1. UNCHANGED <<vars, latest, stops, asks>> /\ c \in Minted
    BY <1>3 DEF TokenExpires, OverlapEnds
  <2>2. \/ tokens' = [tokens EXCEPT ![c].expired = TRUE]
        \/ tokens[c].revoked = "overlap" /\ tokens' = [tokens EXCEPT ![c].revoked = "superseded"]
    BY <1>3 DEF TokenExpires, OverlapEnds
  <2>3. tokens' = [b \in Bearers |-> tokens'[b]]
    BY <1>1, <2>2 DEF SessionTypeOK
  <2>4. Weakened(tokens[c], tokens'[c])
    BY <1>1, <2>1, <2>2, Weakenings DEF Minted, SessionTypeOK
  <2>5. \A b \in Bearers : Weakened(tokens[b], tokens'[b])
    BY <1>1, <2>2, <2>4, Weakenings DEF SessionTypeOK
  <2>6. /\ asks' \in [Runners -> SUBSET Ask] /\ \A q \in Runners : asks'[q] \subseteq asks[q]
        /\ stops' \subseteq Messages
    BY <1>1, <2>1 DEF SessionTypeOK
  <2> QED BY <2>1, <2>3, <2>5, <2>6, TurnsAlone, WeakeningKeeps
<1>4. ASSUME NEW m \in Messages, RevokeSession(m) PROVE SessionIInv'
  <2>1. /\ UNCHANGED <<vars, latest, asks>>
        /\ tokens' = [b \in Bearers |-> IF b \in OfSession(m) THEN Revoked(tokens[b]) ELSE tokens[b]]
        /\ stops' = stops \cup {m}
    BY <1>4 DEF RevokeSession
  <2>2. tokens' = [b \in Bearers |-> tokens'[b]]
    BY <2>1
  <2>3. \A b \in Bearers : Weakened(tokens[b], tokens'[b])
    BY <1>1, <2>1, Weakenings
  <2>4. \A b \in Minted : tokens[b].session \in stops' => tokens[b].session \in stops \/ ~Usable(tokens'[b])
    <3> SUFFICES ASSUME NEW b \in Minted, tokens[b].session = m PROVE ~Usable(tokens'[b])
      BY <2>1
    <3>1. b \in OfSession(m) /\ b \in Bearers /\ tokens[b] # NoToken /\ tokens[b] \in Token
      BY <1>1 DEF OfSession, Minted
    <3>2. tokens'[b] = Revoked(tokens[b])
      BY <2>1, <3>1
    <3>3. ~Usable(Revoked(tokens[b]))
      BY <3>1, Weakenings DEF Revoked, Usable, Token
    <3> QED BY <3>2, <3>3
  <2>5. /\ asks' \in [Runners -> SUBSET Ask] /\ \A q \in Runners : asks'[q] \subseteq asks[q]
        /\ stops' \subseteq Messages
    BY <1>1, <2>1 DEF SessionTypeOK
  <2> QED BY <2>1, <2>2, <2>3, <2>4, <2>5, TurnsAlone, WeakeningKeeps
<1> QED BY <1>2, <1>3, <1>4

\* Stop: every bearer of the thread is revoked and every live turn gets its tombstone.
LEMMA StopKeepsSessions ==
    ASSUME SessionIInv, NEW n \in Messages, Stop(n) PROVE SessionIInv'
<1> USE DEF SessionIInv, SessionInv
<1>1. /\ SessionTypeOK /\ turns \in [Messages -> TurnRow] /\ epoch \in Nat
      /\ \A m \in Messages : turns[m] \in TurnRow
      /\ \A b \in Bearers : tokens[b] \in Token \cup {NoToken}
  BY DEF ChatInv, TypeOK, SessionTypeOK
<1>2. /\ StopTurn(n) /\ UNCHANGED <<latest, asks>>
      /\ stops' = stops \cup {m \in Messages : turns[m].state \in {"claimed", "streaming"}}
                    \cup {tokens[b].session : b \in Minted}
      /\ tokens' = [b \in Bearers |-> Revoked(tokens[b])]
  BY DEF Stop, RevokeThreadSessions
<1>3. ChatInv'
  BY <1>2, StepKeeps DEF Next, UserNext
<1>4. /\ epoch' \in Nat /\ epoch <= epoch'
      /\ \A m \in Messages :
           /\ turns'[m].attempt = turns[m].attempt /\ turns'[m].epoch = turns[m].epoch
           /\ \/ turns'[m] = turns[m]
              \/ turns'[m].state = "cancelled"
              \/ turns'[m].state = turns[m].state /\ turns[m].state \in {"claimed", "streaming"}
  <2>1. \A m \in Messages : m # n => turns'[m] = turns[m]
    BY <1>1, <1>2 DEF StopTurn
  <2>2. \/ turns[n].state = "queued" /\ turns'[n].state = "cancelled" /\ epoch' = epoch
        \/ /\ turns[n].state \in {"claimed", "streaming"} /\ turns'[n].state = turns[n].state
           /\ epoch' = epoch + 1
    BY <1>1, <1>2 DEF StopTurn, TurnRow, Unfinished
  <2>3. turns'[n].attempt = turns[n].attempt /\ turns'[n].epoch = turns[n].epoch
    BY <1>1, <1>2 DEF StopTurn, TurnRow
  <2> QED BY <1>1, <2>1, <2>2, <2>3
<1>5. EpochsGiven'
  <2>1. \A m \in Messages : turns[m].epoch \in Nat
    BY <1>1 DEF TurnRow
  <2> QED BY <1>1, <1>4, <2>1 DEF EpochsGiven
<1>6. CancelledHasStop'
  BY <1>2, <1>4 DEF CancelledHasStop
<1>7. /\ tokens' = [b \in Bearers |-> tokens'[b]]
      /\ \A b \in Bearers : Weakened(tokens[b], tokens'[b])
  BY <1>1, <1>2, Weakenings
<1>8. \A b \in Minted : tokens[b].session \in stops' => tokens[b].session \in stops \/ ~Usable(tokens'[b])
  <2> SUFFICES ASSUME NEW b \in Minted PROVE ~Usable(tokens'[b])
    OBVIOUS
  <2>1. b \in Bearers /\ tokens[b] # NoToken /\ tokens[b] \in Token
    BY <1>1 DEF Minted
  <2>2. ~Usable(Revoked(tokens[b]))
    BY <2>1, Weakenings DEF Revoked, Usable, Token
  <2> QED BY <1>2, <2>1, <2>2
<1>9. stops' \subseteq Messages
  <2>1. \A b \in Minted : tokens[b].session \in Messages
    BY <1>1 DEF Minted, Token
  <2> QED BY <1>1, <1>2, <2>1 DEF SessionTypeOK
<1>10. asks' \in [Runners -> SUBSET Ask] /\ \A r \in Runners : asks'[r] \subseteq asks[r]
  BY <1>1, <1>2 DEF SessionTypeOK
<1>11. \A m \in Messages : /\ turns[m].attempt > 0 => turns'[m].attempt > 0
                           /\ turns[m].epoch <= turns'[m].epoch
  BY <1>1, <1>4 DEF TurnRow
<1> QED BY <1>2, <1>3, <1>5, <1>6, <1>7, <1>8, <1>9, <1>10, <1>11, WeakeningKeeps

\* When bearers, tombstones and turns are left alone, only the requests have to be looked at.
LEMMA AsksKeep ==
    ASSUME SessionIInv, NEW r \in Runners, NEW m \in Messages, NEW e \in Nat, Asks(r, m, e),
           turns[m].attempt > 0, e \in 1..turns[m].epoch
    PROVE  SessionIInv'
<1> USE DEF SessionIInv, SessionInv
<1> DEFINE a == [session |-> m, epoch |-> e, overtaken |-> FALSE]
<1>1. /\ UNCHANGED <<vars, tokens, latest, stops>> /\ SessionTypeOK
      /\ asks' = [asks EXCEPT ![r] = @ \cup {a}]
  BY DEF Asks
<1>2. a \in Ask
  BY DEF Ask
<1>3. a.session = m /\ a.epoch = e
  OBVIOUS
<1> HIDE DEF a
<1>4. SessionTypeOK'
  BY <1>1, <1>2 DEF SessionTypeOK
<1>5. ChatInv' /\ EpochsGiven' /\ CancelledHasStop' /\ turns' = turns
  BY <1>1, TurnsAlone
<1>6. Minted' = Minted /\ \A n : OfSession(n)' = OfSession(n)
  BY <1>1 DEF Minted, OfSession
<1>7. BearersOfTurns'
  <2>1. \A q \in Runners : \A x \in asks'[q] : x \in asks[q] \/ x = a
    BY <1>1 DEF SessionTypeOK
  <2>2. \A q \in Runners : \A x \in asks'[q] : turns[x.session].attempt > 0
                               /\ x.epoch \in 1..turns[x.session].epoch
    BY <1>3, <2>1 DEF BearersOfTurns
  <2> QED BY <1>1, <1>5, <1>6, <2>2 DEF BearersOfTurns
<1>8. LatestExists' /\ StopIsFinal' /\ OneExecution'
  BY <1>1, <1>6 DEF LatestExists, StopIsFinal, OneExecution, Usable
<1> QED BY <1>4, <1>5, <1>7, <1>8

\* The three ways to ask.
LEMMA RequestsKeep ==
    ASSUME SessionIInv, NEW r \in Runners, NEW m \in Messages,
           SessionContext(r, m) \/ IssueRequest(r, m) \/ RenewRequest(r, m)
    PROVE  SessionIInv'
<1> USE DEF SessionIInv, SessionInv
<1>1. turns[m] \in TurnRow /\ turns[m].epoch \in Nat /\ turns[m].attempt \in Nat
  BY ChatAssumption DEF ChatInv, TypeOK, TurnRow
<1>2. turns[m].attempt > 0 => turns[m].epoch \in 1..turns[m].epoch
  BY <1>1 DEF EpochsGiven
<1>3. CASE SessionContext(r, m)
  <2>1. turns[m].attempt > 0
    BY <1>1, <1>3 DEF SessionContext, ChatInv, RowShape
  <2> QED BY <1>1, <1>2, <1>3, <2>1, AsksKeep DEF SessionContext
<1>4. CASE IssueRequest(r, m)
  <2>1. PICK e \in 1..turns[m].epoch : Asks(r, m, e)
    BY <1>4 DEF IssueRequest
  <2> QED BY <1>1, <1>4, <2>1, AsksKeep DEF IssueRequest
<1>5. CASE RenewRequest(r, m)
  <2> DEFINE b == latest[m]
  <2>1. b \in Minted /\ tokens[b].session = m
    BY <1>5 DEF RenewRequest, LatestExists, OfSession
  <2>2. turns[m].attempt > 0 /\ tokens[b].epoch \in 1..turns[m].epoch
    BY <2>1 DEF BearersOfTurns
  <2> QED BY <1>1, <1>5, <2>2, AsksKeep DEF RenewRequest
<1> QED BY <1>3, <1>4, <1>5

\* Deleting the bearers that expired long ago.
LEMMA PurgeKeeps == ASSUME SessionIInv, PurgeExpired PROVE SessionIInv'
<1> USE DEF SessionIInv, SessionInv
<1>1. SessionTypeOK
  OBVIOUS
<1>2. PICK gone \in SUBSET Minted :
        /\ \A m \in Messages : latest[m] \in gone => OfSession(m) \subseteq gone
        /\ tokens' = [b \in Bearers |-> IF b \in gone THEN NoToken ELSE tokens[b]]
        /\ latest' = [m \in Messages |-> IF latest[m] \in gone THEN NoBearer ELSE latest[m]]
        /\ UNCHANGED <<vars, stops, asks>>
  BY DEF PurgeExpired
<1>3. SessionTypeOK'
  BY <1>1, <1>2 DEF SessionTypeOK
<1>4. ChatInv' /\ EpochsGiven' /\ CancelledHasStop' /\ turns' = turns
  BY <1>2, TurnsAlone
<1>5. /\ Minted' = Minted \ gone
      /\ \A b \in Minted' : tokens'[b] = tokens[b]
  BY <1>2 DEF Minted
<1>6. \A m : OfSession(m)' = OfSession(m) \ gone
  BY <1>5 DEF OfSession
<1>7. BearersOfTurns'
  BY <1>2, <1>4, <1>5 DEF BearersOfTurns
<1>8. LatestExists'
  <2> SUFFICES ASSUME NEW m \in Messages
               PROVE  IF latest'[m] = NoBearer THEN OfSession(m)' = {} ELSE latest'[m] \in OfSession(m)'
    BY DEF LatestExists
  <2>1. CASE latest[m] \in gone
    BY <1>2, <1>6, <2>1
  <2>2. CASE latest[m] \notin gone
    BY <1>2, <1>6, <2>2 DEF LatestExists
  <2> QED BY <2>1, <2>2
<1>9. StopIsFinal' /\ OneExecution'
  BY <1>2, <1>5 DEF StopIsFinal, OneExecution, Usable
<1> QED BY <1>3, <1>4, <1>7, <1>8, <1>9

\* A usable bearer of an older execution does not survive a mint.
LEMMA SupersededUse ==
    ASSUME NEW t \in Token, NEW a \in Ask, t.session = a.session, t.epoch <= a.epoch,
           Usable(Superseded(t, a))
    PROVE  t.epoch = a.epoch
<1>1. t # NoToken
  BY NoTokenIsNone
<1>2. t.epoch \in Nat /\ a.epoch \in Nat
  BY DEF Token, Ask
<1>3. Usable(t)
  BY DEF Superseded
<1>4. t.epoch < a.epoch => Superseded(t, a).revoked = "superseded"
  BY <1>1, <1>3 DEF Superseded, Token
<1> QED BY <1>2, <1>4 DEF Usable

\* A mint.
LEMMA IssueKeeps == ASSUME SessionIInv, NEW r \in Runners, Issue(r) PROVE SessionIInv'
<1> USE DEF SessionIInv, SessionInv
<1>1. /\ SessionTypeOK
      /\ \A c \in Bearers : tokens[c] \in Token \cup {NoToken}
      /\ \A c \in Minted : c \in Bearers /\ tokens[c] \in Token /\ tokens[c] # NoToken
  BY DEF SessionTypeOK, Minted
<1>2. PICK a \in asks[r], b \in Bearers \ Minted, newest \in BOOLEAN :
        /\ Admitted(r, a)
        /\ newest \/ (a.overtaken /\ latest[a.session] # NoBearer)
        /\ tokens' = [c \in Bearers |->
                         IF c = b THEN [session |-> a.session, runner |-> r, epoch |-> a.epoch,
                                        revoked |-> "no", expired |-> FALSE]
                         ELSE Superseded(tokens[c], a)]
        /\ LET left == [asks EXCEPT ![r] = @ \ {a}]
           IN  IF newest
               THEN /\ latest' = [latest EXCEPT ![a.session] = b]
                    /\ asks' = [q \in Runners |-> Overtaken(left[q], a.session)]
               ELSE latest' = latest /\ asks' = left
        /\ UNCHANGED <<vars, stops>>
  BY DEF Issue
<1> DEFINE row == [session |-> a.session, runner |-> r, epoch |-> a.epoch,
                   revoked |-> "no", expired |-> FALSE]
<1>3. a \in Ask /\ a.session \in Messages /\ a.epoch \in Nat
  BY <1>1 DEF SessionTypeOK, Ask
<1>4. row \in Token /\ row.session = a.session /\ row.epoch = a.epoch
  BY <1>3 DEF Token
<1>5. tokens' = [c \in Bearers |-> IF c = b THEN row ELSE Superseded(tokens[c], a)]
  BY <1>2
<1> HIDE DEF row
<1>6. ChatInv' /\ EpochsGiven' /\ CancelledHasStop' /\ turns' = turns
  BY <1>2, TurnsAlone
<1>7. \A c \in Bearers : c # b => Weakened(tokens[c], tokens'[c])
  BY <1>1, <1>5, Weakenings
<1>8. /\ b \in Bearers /\ tokens'[b] = row /\ b \notin Minted
      /\ \A c \in Bearers : tokens'[c] \in Token \cup {NoToken}
  BY <1>2, <1>4, <1>5, <1>7 DEF Weakened
<1>9. Minted' = Minted \cup {b}
  <2>1. \A c \in Bearers : c # b => (tokens'[c] # NoToken <=> tokens[c] # NoToken)
    BY <1>7, NoTokenIsNone DEF Weakened
  <2>2. tokens'[b] # NoToken
    BY <1>4, <1>8, NoTokenIsNone
  <2> QED BY <1>8, <2>1, <2>2 DEF Minted
<1>10. \A c \in Minted : /\ c # b
                         /\ tokens'[c].session = tokens[c].session
                         /\ tokens'[c].epoch = tokens[c].epoch
                         /\ Usable(tokens'[c]) => Usable(tokens[c])
  BY <1>1, <1>2, <1>7 DEF Weakened
<1>11. \A m : OfSession(m)' = IF m = a.session THEN OfSession(m) \cup {b} ELSE OfSession(m)
  BY <1>4, <1>8, <1>9, <1>10 DEF OfSession
<1>12. /\ asks' \in [Runners -> SUBSET Ask]
       /\ \A q \in Runners : \A x \in asks'[q] :
             \E y \in asks[q] : x.session = y.session /\ x.epoch = y.epoch
  <2> DEFINE left == [asks EXCEPT ![r] = @ \ {a}]
  <2>1. left \in [Runners -> SUBSET Ask] /\ \A q \in Runners : left[q] \subseteq asks[q]
    BY <1>1 DEF SessionTypeOK
  <2> HIDE DEF left
  <2>2. \A y \in Ask, o \in BOOLEAN : /\ [y EXCEPT !.overtaken = o] \in Ask
                                      /\ [y EXCEPT !.overtaken = o].session = y.session
                                      /\ [y EXCEPT !.overtaken = o].epoch = y.epoch
    BY DEF Ask
  <2>3. ASSUME NEW q \in Runners, NEW x \in Overtaken(left[q], a.session)
        PROVE  /\ x \in Ask
               /\ \E y \in asks[q] : x.session = y.session /\ x.epoch = y.epoch
    <3>1. PICK y \in left[q] : x = [y EXCEPT !.overtaken = @ \/ y.session = a.session]
      BY <2>3 DEF Overtaken
    <3>2. y \in Ask /\ y \in asks[q]
      BY <2>1, <3>1
    <3> DEFINE o == y.overtaken \/ y.session = a.session
    <3>3. o \in BOOLEAN /\ x = [y EXCEPT !.overtaken = o]
      BY <3>1
    <3> HIDE DEF o
    <3> QED BY <2>2, <3>2, <3>3
  <2>4. CASE newest
    <3>1. asks' = [q \in Runners |-> Overtaken(left[q], a.session)]
      BY <1>2, <2>4 DEF left
    <3> QED BY <2>3, <3>1
  <2>5. CASE ~newest
    <3>1. asks' = left
      BY <1>2, <2>5 DEF left
    <3> QED BY <2>1, <3>1
  <2> QED BY <2>4, <2>5
<1>13. latest' = latest \/ latest' = [latest EXCEPT ![a.session] = b]
  BY <1>2
<1>14. SessionTypeOK'
  <2>1. tokens' \in [Bearers -> Token \cup {NoToken}]
    BY <1>5, <1>8
  <2>2. latest' \in [Messages -> Bearers \cup {NoBearer}]
    BY <1>1, <1>3, <1>8, <1>13 DEF SessionTypeOK
  <2> QED BY <1>1, <1>2, <1>12, <2>1, <2>2 DEF SessionTypeOK
<1>15. BearersOfTurns'
  <2>1. \A c \in Minted' : turns[tokens'[c].session].attempt > 0
                             /\ tokens'[c].epoch \in 1..turns[tokens'[c].session].epoch
    BY <1>2, <1>4, <1>8, <1>9, <1>10 DEF BearersOfTurns
  <2>2. \A q \in Runners : \A x \in asks'[q] : turns[x.session].attempt > 0
                             /\ x.epoch \in 1..turns[x.session].epoch
    BY <1>12 DEF BearersOfTurns
  <2> QED BY <1>6, <2>1, <2>2 DEF BearersOfTurns
<1>16. LatestExists'
  <2> SUFFICES ASSUME NEW m \in Messages
               PROVE  IF latest'[m] = NoBearer THEN OfSession(m)' = {} ELSE latest'[m] \in OfSession(m)'
    BY DEF LatestExists
  <2>1. CASE latest'[m] = latest[m] /\ (m # a.session \/ latest[m] # NoBearer)
    BY <1>11, <2>1 DEF LatestExists
  <2>2. CASE latest'[m] = b /\ m = a.session
    BY <1>8, <1>11, <2>2, SessionAssumption
  <2>3. latest[a.session] = NoBearer => newest
    BY <1>2
  <2> QED BY <1>1, <1>2, <1>3, <2>1, <2>2, <2>3 DEF SessionTypeOK
<1>17. StopIsFinal'
  <2>1. a.session \notin stops /\ stops' = stops
    BY <1>2 DEF Admitted
  <2>2. \A c \in Minted' : tokens'[c].session \in stops => ~Usable(tokens'[c])
    BY <1>4, <1>8, <1>9, <1>10, <2>1 DEF StopIsFinal
  <2> QED BY <2>1, <2>2 DEF StopIsFinal, Usable
<1>18. \A c \in Minted : tokens'[c].session = a.session /\ Usable(tokens'[c]) => tokens'[c].epoch = a.epoch
  <2> SUFFICES ASSUME NEW c \in Minted, tokens'[c].session = a.session, Usable(tokens'[c])
               PROVE  tokens'[c].epoch = a.epoch
    OBVIOUS
  <2>1. tokens'[c] = Superseded(tokens[c], a) /\ tokens[c] \in Token /\ tokens[c].session = a.session
    BY <1>1, <1>5, <1>10
  <2>2. tokens[c].epoch <= a.epoch
    BY <1>2, <2>1 DEF Admitted, OfSession
  <2> QED BY <1>3, <1>10, <2>1, <2>2, SupersededUse
<1>19. OneExecution'
  <2>1. \A c, d \in Minted' :
           tokens'[c].session = tokens'[d].session /\ Usable(tokens'[c]) /\ Usable(tokens'[d])
               => tokens'[c].epoch = tokens'[d].epoch
    <3> SUFFICES ASSUME NEW c \in Minted', NEW d \in Minted', tokens'[c].session = tokens'[d].session,
                        Usable(tokens'[c]), Usable(tokens'[d])
                 PROVE  tokens'[c].epoch = tokens'[d].epoch
      OBVIOUS
    <3>1. CASE c # b /\ d # b
      BY <1>9, <1>10, <3>1 DEF OneExecution
    <3>2. CASE c = b \/ d = b
      BY <1>4, <1>8, <1>9, <1>18, <3>2
    <3> QED BY <3>1, <3>2
  <2> QED BY <2>1 DEF OneExecution, Usable
<1> QED BY <1>6, <1>14, <1>15, <1>16, <1>17, <1>19

\* The inductive invariant of turns and bearers: turns keep theirs while bearers come and
\* go, epochs only grow, the latest bearer exists, every turn that goes on after a Stop has
\* its tombstone, stopped sessions have no usable bearer and the others one epoch at a time.
THEOREM SessionInvariant == SessionSpec => [](SessionInv /\ StopIsFinal /\ OneExecution)
<1>1. SessionInit => SessionIInv
  BY SessionsBegin
<1>2. SessionIInv /\ [SessionNext]_allVars => SessionIInv'
  <2> SUFFICES ASSUME SessionIInv, [SessionNext]_allVars PROVE SessionIInv'
    OBVIOUS
  <2>1. CASE UNCHANGED allVars
    <3>1. UNCHANGED vars /\ UNCHANGED <<tokens, latest, stops, asks>>
      BY <2>1 DEF allVars, sessionVars
    <3>2. ChatInv' /\ EpochsGiven' /\ CancelledHasStop' /\ turns' = turns
      BY <3>1, TurnsAlone
    <3>3. /\ SessionTypeOK' /\ BearersOfTurns' /\ LatestExists' /\ StopIsFinal' /\ OneExecution'
      BY <3>1, <3>2 DEF SessionIInv, SessionInv, SessionTypeOK, BearersOfTurns, LatestExists,
                        StopIsFinal, OneExecution, OfSession, Minted, Usable
    <3> QED BY <3>2, <3>3 DEF SessionIInv, SessionInv
  <2>2. CASE SessionNext
    BY <2>2, TurnsOnlyKeeps, StopKeepsSessions, EndingsKeep, IssueKeeps, RequestsKeep, PurgeKeeps
       DEF SessionNext
  <2> QED BY <2>1, <2>2
<1> QED BY <1>1, <1>2, PTL DEF SessionSpec, SessionIInv

\* The turns, their bearers, the requests for them and the tombstones fit each other.
THEOREM SessionsSound == SessionSpec => []SessionInv
BY SessionInvariant, PTL

\* A stopped session has no usable bearer, whatever was asked for before the Stop.
THEOREM StopsFinal == SessionSpec => []StopIsFinal
BY SessionInvariant, PTL

\* All usable bearers of a session carry one epoch, in whatever order they were asked for,
\* dated and minted.
THEOREM OneExecutionAtATime == SessionSpec => []OneExecution
BY SessionInvariant, PTL

\* Nothing works for a turn that goes on running after its user has stopped it: a Stop
\* writes the tombstone with the turn, and the tombstone silences the session.
THEOREM StoppedTurnsMute == SessionSpec => []StoppedTurnIsMute
<1>1. SessionInv /\ StopIsFinal => StoppedTurnIsMute
  <2> SUFFICES ASSUME SessionInv, StopIsFinal, NEW b \in Minted, turns[tokens[b].session].cancel,
                      turns[tokens[b].session].state \in {"claimed", "streaming"}
               PROVE  ~Usable(tokens[b])
    BY DEF StoppedTurnIsMute
  <2>1. tokens[b].session \in Messages
    BY NoTokenIsNone DEF SessionInv, SessionTypeOK, Minted, Token
  <2> QED BY <2>1 DEF SessionInv, CancelledHasStop, StopIsFinal
<1> QED BY <1>1, SessionInvariant, PTL

---------------------------------------------------------------------------
(* The sessions over the turns.                                             *)

\* Whatever is done to bearers, the thread's turns make a step of their own or none.
LEMMA SessionStepIsTurnStep == ASSUME [SessionNext]_allVars PROVE [Next]_vars
<1>1. CASE UNCHANGED allVars
  BY <1>1 DEF allVars
<1>2. CASE TurnsOnly
  BY <1>2 DEF TurnsOnly, Next, UserNext
<1>3. ASSUME NEW m \in Messages, Stop(m) PROVE Next
  BY <1>3 DEF Stop, Next, UserNext
<1>4. ASSUME NEW m \in Messages, RevokeSession(m) PROVE UNCHANGED vars
  BY <1>4 DEF RevokeSession
<1>5. ASSUME NEW r \in Runners, Issue(r) \/ DropAsk(r) PROVE UNCHANGED vars
  BY <1>5 DEF Issue, DropAsk
<1>6. ASSUME NEW r \in Runners, NEW m \in Messages,
             SessionContext(r, m) \/ IssueRequest(r, m) \/ RenewRequest(r, m)
      PROVE  UNCHANGED vars
  BY <1>6 DEF SessionContext, IssueRequest, RenewRequest, Asks
<1>7. ASSUME NEW b \in Bearers, TokenExpires(b) \/ OverlapEnds(b) PROVE UNCHANGED vars
  BY <1>7 DEF TokenExpires, OverlapEnds
<1>8. ASSUME PurgeExpired PROVE UNCHANGED vars
  BY <1>8 DEF PurgeExpired
<1> QED BY <1>1, <1>2, <1>3, <1>4, <1>5, <1>6, <1>7, <1>8 DEF SessionNext

\* The thread composed with its session bearers implements the thread alone: no bearer,
\* request, tombstone or purge makes a turn do what it could not do by itself.
THEOREM SessionsAreTurns == SessionSpec => Spec
<1>1. SessionInit => Init
  BY DEF SessionInit
<1>2. [SessionNext]_allVars => [Next]_vars
  BY SessionStepIsTurnStep
<1> QED BY <1>1, <1>2, PTL DEF SessionSpec, Spec

\* So every promise of the turns holds of a thread whose runners hold bearers, too.
THEOREM TurnsKeepPromises ==
    SessionSpec => /\ []OneVoice /\ []DeliveryTold /\ []ReplyFollowsTurn
                   /\ FinishedIsFinal /\ RevivalOpensEpoch
BY SessionsAreTurns, MessageSeenOnce, DeliveryToldTruly, RepliesFollowTurns,
   FinishedTurnsFinal, RevivalsOpenEpochs, PTL

---------------------------------------------------------------------------
(* What the refusal of an equal epoch needs.                                *)

\* Every usable bearer is of the execution, and of the runner, of its session's latest one.
LatestSpeaks ==
    \A b \in Minted : Usable(tokens[b]) =>
        LET last == latest[tokens[b].session]
        IN  tokens[b].epoch = tokens[last].epoch /\ tokens[b].runner = tokens[last].runner

\* Weakening bearers takes nothing from LatestSpeaks.
LEMMA WeakenedSpeak ==
    ASSUME SessionIInv, LatestSpeaks, UNCHANGED latest,
           tokens' = [b \in Bearers |-> tokens'[b]],
           \A b \in Bearers : Weakened(tokens[b], tokens'[b])
    PROVE  LatestSpeaks'
<1> USE DEF SessionIInv, SessionInv
<1>1. /\ Minted' = Minted
      /\ \A b \in Minted : /\ tokens'[b].session = tokens[b].session
                           /\ tokens'[b].epoch = tokens[b].epoch
                           /\ tokens'[b].runner = tokens[b].runner
                           /\ Usable(tokens'[b]) => Usable(tokens[b])
  BY WeakenedStay
<1>2. \A b \in Minted : latest[tokens[b].session] \in Minted
  <2> TAKE b \in Minted
  <2>1. tokens[b].session \in Messages
    BY NoTokenIsNone DEF SessionTypeOK, Minted, Token
  <2>2. b \in OfSession(tokens[b].session)
    BY DEF OfSession
  <2> QED BY <2>1, <2>2 DEF LatestExists, OfSession
<1>3. ASSUME NEW b \in Minted', Usable(tokens'[b])
      PROVE  LET last == latest'[tokens'[b].session]
             IN  tokens'[b].epoch = tokens'[last].epoch /\ tokens'[b].runner = tokens'[last].runner
  BY <1>1, <1>2, <1>3 DEF LatestSpeaks
<1> QED BY <1>3 DEF LatestSpeaks, Usable

\* Purging a session takes its latest bearer last.
LEMMA PurgedSpeak == ASSUME SessionIInv, LatestSpeaks, PurgeExpired PROVE LatestSpeaks'
<1> USE DEF SessionIInv, SessionInv
<1>1. PICK gone \in SUBSET Minted :
        /\ \A m \in Messages : latest[m] \in gone => OfSession(m) \subseteq gone
        /\ tokens' = [b \in Bearers |-> IF b \in gone THEN NoToken ELSE tokens[b]]
        /\ latest' = [m \in Messages |-> IF latest[m] \in gone THEN NoBearer ELSE latest[m]]
  BY DEF PurgeExpired
<1>2. ASSUME NEW b \in Minted', Usable(tokens'[b])
      PROVE  LET last == latest'[tokens'[b].session]
             IN  tokens'[b].epoch = tokens'[last].epoch /\ tokens'[b].runner = tokens'[last].runner
  <2> DEFINE m == tokens[b].session
  <2>1. b \in Minted /\ b \notin gone /\ tokens'[b] = tokens[b]
    BY <1>1 DEF Minted
  <2>2. m \in Messages /\ b \in OfSession(m)
    BY <2>1, NoTokenIsNone DEF SessionTypeOK, Minted, Token, OfSession
  <2>3. latest[m] \in Minted /\ latest[m] \notin gone
    BY <1>1, <2>1, <2>2 DEF LatestExists, OfSession
  <2>4. latest'[m] = latest[m] /\ tokens'[latest[m]] = tokens[latest[m]]
    BY <1>1, <2>2, <2>3 DEF Minted
  <2> QED BY <1>2, <2>1, <2>4 DEF LatestSpeaks
<1> QED BY <1>2 DEF LatestSpeaks, Usable

\* A mint in order: what stays usable is of the epoch asked for, and so, by the comparison
\* with the latest bearer, of the runner that asks.
LEMMA IssuedSpeak ==
    ASSUME SessionIInv, LatestSpeaks, NEW r \in Runners, Issue(r),
           \A b \in Bearers :
               tokens[b] = NoToken /\ tokens'[b] # NoToken => latest'[tokens'[b].session] = b
    PROVE  LatestSpeaks'
<1> USE DEF SessionIInv, SessionInv
<1>1. /\ SessionTypeOK
      /\ \A c \in Minted : c \in Bearers /\ tokens[c] \in Token /\ tokens[c] # NoToken
                           /\ tokens[c].session \in Messages /\ c \in OfSession(tokens[c].session)
  BY NoTokenIsNone DEF SessionTypeOK, Minted, Token, OfSession
<1>2. PICK a \in asks[r], b \in Bearers \ Minted, newest \in BOOLEAN :
        /\ Admitted(r, a)
        /\ tokens' = [c \in Bearers |->
                         IF c = b THEN [session |-> a.session, runner |-> r, epoch |-> a.epoch,
                                        revoked |-> "no", expired |-> FALSE]
                         ELSE Superseded(tokens[c], a)]
        /\ latest' = IF newest THEN [latest EXCEPT ![a.session] = b] ELSE latest
  BY DEF Issue
<1> DEFINE row == [session |-> a.session, runner |-> r, epoch |-> a.epoch,
                   revoked |-> "no", expired |-> FALSE]
<1>3. a \in Ask /\ a.session \in Messages /\ a.epoch \in Nat
  BY <1>1 DEF SessionTypeOK, Ask
<1>4. row \in Token /\ row.session = a.session /\ row.epoch = a.epoch /\ row.runner = r
  BY <1>3 DEF Token
<1>5. tokens' = [c \in Bearers |-> IF c = b THEN row ELSE Superseded(tokens[c], a)]
  BY <1>2
<1> HIDE DEF row
<1>6. b \in Bearers /\ tokens[b] = NoToken /\ tokens'[b] = row /\ row # NoToken
  BY <1>2, <1>4, <1>5, NoTokenIsNone DEF Minted
<1>7. latest'[a.session] = b /\ \A m \in Messages : m # a.session => latest'[m] = latest[m]
  <2>1. latest'[a.session] = b
    BY <1>4, <1>6
  <2> QED BY <1>1, <1>2, <2>1 DEF SessionTypeOK
<1>8. ASSUME NEW c \in Minted', Usable(tokens'[c])
      PROVE  LET last == latest'[tokens'[c].session]
             IN  tokens'[c].epoch = tokens'[last].epoch /\ tokens'[c].runner = tokens'[last].runner
  <2>1. CASE c = b
    BY <1>4, <1>6, <1>7, <2>1
  <2>2. CASE c # b
    <3>1. c \in Bearers /\ tokens'[c] = Superseded(tokens[c], a) /\ tokens'[c] # NoToken
      BY <1>5, <2>2 DEF Minted
    <3>2. c \in Minted /\ tokens[c] \in Token /\ Weakened(tokens[c], tokens'[c])
      <4>1. tokens[c] # NoToken
        BY <3>1 DEF Superseded
      <4>2. c \in Minted
        BY <3>1, <4>1 DEF Minted
      <4>3. tokens[c] \in Token
        BY <1>1, <4>2
      <4>4. Weakened(tokens[c], Superseded(tokens[c], a))
        BY <4>3, Weakenings
      <4> QED BY <3>1, <4>2, <4>3, <4>4
    <3>3. /\ tokens'[c].session = tokens[c].session /\ tokens'[c].epoch = tokens[c].epoch
          /\ tokens'[c].runner = tokens[c].runner /\ Usable(tokens[c])
      BY <1>1, <1>8, <3>2 DEF Weakened
    <3> DEFINE m == tokens[c].session
               last == latest[m]
    <3>4. /\ m \in Messages /\ last \in Minted /\ tokens[last].session = m /\ last # NoBearer
          /\ tokens[c].epoch = tokens[last].epoch /\ tokens[c].runner = tokens[last].runner
      BY <1>1, <3>2, <3>3 DEF LatestExists, LatestSpeaks, OfSession
    <3>5. CASE m = a.session
      <4>1. tokens[c].epoch <= a.epoch
        BY <1>2, <3>2, <3>5 DEF Admitted, OfSession
      <4>2. tokens[c].epoch = a.epoch
        BY <1>3, <1>8, <3>1, <3>2, <3>5, <4>1, SupersededUse
      <4>3. tokens[last].epoch = a.epoch => tokens[last].runner = r
        BY <1>2, <3>4, <3>5 DEF Admitted
      <4> QED BY <1>4, <1>6, <1>7, <3>3, <3>4, <3>5, <4>2, <4>3
    <3>6. CASE m # a.session
      <4>1. latest'[m] = last /\ last # b
        BY <1>2, <1>7, <3>4, <3>6
      <4>2. tokens'[last] = Superseded(tokens[last], a) /\ Weakened(tokens[last], tokens'[last])
        BY <1>1, <1>5, <3>4, <4>1, Weakenings
      <4>3. tokens'[last].epoch = tokens[last].epoch /\ tokens'[last].runner = tokens[last].runner
        BY <1>1, <3>4, <4>2 DEF Weakened
      <4> QED BY <3>3, <3>4, <4>1, <4>3
    <3> QED BY <3>5, <3>6
  <2> QED BY <2>1, <2>2
<1> QED BY <1>8 DEF LatestSpeaks, Usable

\* Every step of turns and bearers whose mints are in order keeps LatestSpeaks.
LEMMA StepSpeaks ==
    ASSUME SessionIInv, LatestSpeaks, [SessionNext]_allVars,
           [\A b \in Bearers :
               tokens[b] = NoToken /\ tokens'[b] # NoToken => latest'[tokens'[b].session] = b]_allVars
    PROVE  LatestSpeaks'
<1>1. SessionTypeOK /\ \A b \in Bearers : tokens[b] \in Token \cup {NoToken}
  BY DEF SessionIInv, SessionInv, SessionTypeOK
<1>2. \A b \in Bearers : Weakened(tokens[b], tokens[b]) /\ Weakened(tokens[b], Revoked(tokens[b]))
  BY <1>1, Weakenings
<1>3. ASSUME UNCHANGED <<tokens, latest>> PROVE LatestSpeaks'
  BY <1>3 DEF LatestSpeaks, Minted, Usable
<1>4. ASSUME UNCHANGED latest, \/ \E n \in Messages : Stop(n) \/ RevokeSession(n)
                               \/ \E c \in Bearers : TokenExpires(c) \/ OverlapEnds(c)
      PROVE  LatestSpeaks'
  <2>1. ASSUME NEW n \in Messages, Stop(n) \/ RevokeSession(n)
        PROVE  /\ tokens' = [b \in Bearers |-> tokens'[b]]
               /\ \A b \in Bearers : Weakened(tokens[b], tokens'[b])
    BY <1>2, <2>1 DEF Stop, RevokeThreadSessions, RevokeSession
  <2>2. ASSUME NEW c \in Bearers, TokenExpires(c) \/ OverlapEnds(c)
        PROVE  /\ tokens' = [b \in Bearers |-> tokens'[b]]
               /\ \A b \in Bearers : Weakened(tokens[b], tokens'[b])
    <3>1. \/ tokens' = [tokens EXCEPT ![c].expired = TRUE]
          \/ tokens[c].revoked = "overlap" /\ tokens' = [tokens EXCEPT ![c].revoked = "superseded"]
      BY <2>2 DEF TokenExpires, OverlapEnds
    <3>2. tokens[c] # NoToken
      BY <2>2 DEF TokenExpires, OverlapEnds, Minted
    <3>3. tokens' = [b \in Bearers |-> tokens'[b]] /\ \A b \in Bearers : b # c => tokens'[b] = tokens[b]
      BY <1>1, <3>1 DEF SessionTypeOK
    <3>4. Weakened(tokens[c], tokens'[c])
      BY <1>1, <3>1, <3>2, Weakenings DEF SessionTypeOK
    <3> QED BY <1>2, <3>3, <3>4
  <2> QED BY <1>4, <2>1, <2>2, WeakenedSpeak
<1>5. ASSUME NEW r \in Runners, Issue(r) PROVE LatestSpeaks'
  <2>1. CASE UNCHANGED allVars
    BY <1>3, <2>1 DEF allVars, sessionVars
  <2> QED BY <1>5, <2>1, IssuedSpeak
<1>6. ASSUME NEW r \in Runners, NEW m \in Messages,
             SessionContext(r, m) \/ IssueRequest(r, m) \/ RenewRequest(r, m)
      PROVE  UNCHANGED <<tokens, latest>>
  BY <1>6 DEF SessionContext, IssueRequest, RenewRequest, Asks
<1>7. ASSUME NEW r \in Runners, DropAsk(r) PROVE UNCHANGED <<tokens, latest>>
  BY <1>7 DEF DropAsk
<1>8. TurnsOnly \/ UNCHANGED allVars => UNCHANGED <<tokens, latest>>
  BY DEF TurnsOnly, allVars, sessionVars
<1>9. /\ \A n \in Messages : Stop(n) \/ RevokeSession(n) => UNCHANGED latest
      /\ \A c \in Bearers : TokenExpires(c) \/ OverlapEnds(c) => UNCHANGED latest
  BY DEF Stop, RevokeSession, TokenExpires, OverlapEnds
<1> QED BY <1>3, <1>4, <1>5, <1>6, <1>7, <1>8, <1>9, PurgedSpeak DEF SessionNext

\* "an older or equal one from another runner is refused" holds of bearers minted in the
\* order of their timestamps: only a mint that reads the clock early and commits late can
\* leave two runners with a usable bearer of one session.
THEOREM OneRunnerInOrder == SessionSpec /\ MintedInOrder => []OneRunner
<1>1. SessionInit => LatestSpeaks
  BY DEF SessionInit, LatestSpeaks, Minted
<1>2. SessionIInv /\ LatestSpeaks /\ [SessionNext]_allVars
        /\ [\A b \in Bearers :
              tokens[b] = NoToken /\ tokens'[b] # NoToken => latest'[tokens'[b].session] = b]_allVars
        => LatestSpeaks'
  BY StepSpeaks
<1>3. LatestSpeaks => OneRunner
  BY DEF LatestSpeaks, OneRunner
<1> QED BY <1>1, <1>2, <1>3, SessionInvariant, PTL DEF SessionSpec, SessionIInv, MintedInOrder
=============================================================================
