-------------------------- MODULE Idempotency_proofs --------------------------
(***************************************************************************)
(* The idempotency middleware keeps IdemInv and replays only true answers, *)
(* and from these follow at most one write per claim and the keeping of an *)
(* answer, for any number of requests, bodies and rounds.                  *)
(***************************************************************************)
EXTENDS Idempotency, TLAPS

USE DEF Claiming, Outcomes, Places

LEMMA InitIdem == Init => IdemInv /\ ReplayIsTrue
<1> SUFFICES ASSUME Init PROVE IdemInv /\ ReplayIsTrue
    OBVIOUS
<1>1. PICK body \in [Requests -> Bodies] :
        request = [r \in Requests |-> [pc |-> "drop", body |-> body[r], round |-> 1]]
    BY DEF Init
<1>2. IdemTypeOK
    BY <1>1, IdempotencyAssumption DEF Init, IdemTypeOK
<1>3. ClaimFirst /\ RowIsOf
    BY <1>1 DEF Init, ClaimFirst, RowIsOf
<1>4. ReplayIsTrue
    BY IdempotencyAssumption DEF Init, ReplayIsTrue
<1> QED
    BY <1>2, <1>3, <1>4 DEF IdemInv

-----------------------------------------------------------------------------
(* One lemma per action. *)

\* Where a request goes after a statement that has committed.
LEMMA GoesOn ==
    ASSUME NEW r \in Requests, NEW to \in Places, IdemTypeOK, GoOn(r, to)
    PROVE  /\ request' \in [Requests -> [pc : Places, body : Bodies, round : 1 .. Rounds]]
           /\ request'[r].pc \in {to, "lost"} /\ request'[r].body = request[r].body
           /\ \A s \in Requests \ {r} : request'[s] = request[s]
  BY DEF GoOn, IdemTypeOK

LEMMA DropStaleInv ==
    ASSUME NEW r \in Requests, IdemInv, ReplayIsTrue, DropStale(r)
    PROVE  IdemInv' /\ ReplayIsTrue'
<1> USE DEF IdemInv
<1>m. /\ request' \in [Requests -> [pc : Places, body : Bodies, round : 1 .. Rounds]]
      /\ request'[r].pc \in {"insert", "lost"} /\ request'[r].body = request[r].body
      /\ \A s \in Requests \ {r} : request'[s] = request[s]
    BY GoesOn DEF DropStale
<1>u. UNCHANGED <<reply, wrote, kept>> /\ request[r].pc = "drop"
    BY DEF DropStale
<1>d. \/ UNCHANGED <<row, ended>>
      \/ /\ row # None /\ row.age \in Ages
         /\ row' = None /\ ended' = [ended EXCEPT ![row.token] = row.age]
         /\ row.age \in {"stale", "expired"} /\ row.token \in Requests
    BY DEF DropStale, DropRow, Droppable, IdemTypeOK, Rows, Ages
<1>t. row # None => row.token \in Requests /\ row.token # r
    BY <1>u DEF RowIsOf, IdemTypeOK, Rows
<1>e. /\ ended' \in [Requests -> {"no", "released", "stale", "expired"}]
      /\ \A s \in Requests : ended'[s] = ended[s] \/ (s = row.token /\ s # r /\ ended'[s] # "no" /\ row' = None)
      /\ row' = row \/ (row' = None /\ row # None /\ ended'[row.token] # "no")
    BY <1>d, <1>t DEF IdemTypeOK
<1>1. IdemTypeOK'
    BY <1>m, <1>u, <1>d, <1>e DEF IdemTypeOK
<1>2. ClaimFirst'
  <2> SUFFICES ASSUME NEW s \in Requests
               PROVE  /\ request'[s].pc \in Claiming => ended'[s] = "no"
                      /\ request'[s].pc \in Claiming \cup {"lost"} => s \notin kept
                      /\ request'[s].pc \in {"run"} \cup Outcomes \/ s \in wrote \/ s \in kept =>
                           ended'[s] # "no" \/ (row' # None /\ row'.token = s)
                      /\ s \in wrote => request'[s].pc \notin Claiming \cup {"lost", "run"}
                      /\ ended'[s] # "no" => row' = None \/ row'.token # s
      BY <1>u DEF ClaimFirst
  <2>0. r \notin wrote /\ r \notin kept /\ ended[r] = "no" /\ ended'[r] = "no"
      BY <1>u, <1>e DEF ClaimFirst
  <2>1. CASE s = r
      BY <2>0, <2>1, <1>m
  <2>2. CASE s # r
    <3>1. request'[s] = request[s]
        BY <2>2, <1>m
    <3>2. CASE ended'[s] = ended[s] /\ row' = row
        BY <3>1, <3>2 DEF ClaimFirst
    <3>3. CASE ended'[s] = ended[s] /\ row' = None /\ ended'[row.token] # "no"
        BY <3>1, <3>3 DEF ClaimFirst
    <3>4. CASE s = row.token /\ row # None /\ ended'[s] # "no" /\ row' = None
        BY <3>1, <3>4, <1>t DEF ClaimFirst, RowIsOf
    <3> QED
        BY <1>e, <1>d, <1>t, <3>2, <3>3, <3>4
  <2> QED
      BY <2>1, <2>2
<1>3. RowIsOf'
    BY <1>m, <1>u, <1>e, <1>t DEF RowIsOf
<1>4. ReplayIsTrue'
    BY <1>m, <1>u DEF ReplayIsTrue
<1> QED
    BY <1>1, <1>2, <1>3, <1>4

LEMMA InsertInv ==
    ASSUME NEW r \in Requests, IdemInv, ReplayIsTrue, Insert(r)
    PROVE  IdemInv' /\ ReplayIsTrue'
<1> USE DEF IdemInv, Insert
<1>c. /\ Claimed(r) \in Rows /\ Claimed(r) # None
      /\ Claimed(r).token = r /\ Claimed(r).state = "in_flight" /\ Claimed(r).hash = request[r].body
    BY IdempotencyAssumption DEF Claimed, Rows, Ages, IdemTypeOK
<1>m. /\ request' \in [Requests -> [pc : Places, body : Bodies, round : 1 .. Rounds]]
      /\ request'[r].pc \in {IF row = None THEN "run" ELSE "select", "lost"}
      /\ request'[r].body = request[r].body
      /\ \A s \in Requests \ {r} : request'[s] = request[s]
    BY GoesOn
<1>u. /\ row' = (IF row = None THEN Claimed(r) ELSE row)
      /\ UNCHANGED <<reply, wrote, ended, kept>> /\ request[r].pc = "insert"
    OBVIOUS
<1> HIDE DEF Insert
<1>1. IdemTypeOK'
    BY <1>c, <1>m, <1>u DEF IdemTypeOK
<1>2. ClaimFirst'
  <2> SUFFICES ASSUME NEW s \in Requests
               PROVE  /\ request'[s].pc \in Claiming => ended[s] = "no"
                      /\ request'[s].pc \in Claiming \cup {"lost"} => s \notin kept
                      /\ request'[s].pc \in {"run"} \cup Outcomes \/ s \in wrote \/ s \in kept =>
                           ended[s] # "no" \/ (row' # None /\ row'.token = s)
                      /\ s \in wrote => request'[s].pc \notin Claiming \cup {"lost", "run"}
                      /\ ended[s] # "no" => row' = None \/ row'.token # s
      BY <1>u DEF ClaimFirst
  <2>1. CASE s = r
      BY <2>1, <1>c, <1>m, <1>u DEF ClaimFirst
  <2>2. CASE s # r
      BY <2>2, <1>c, <1>m, <1>u DEF ClaimFirst
  <2> QED
      BY <2>1, <2>2
<1>3. RowIsOf'
    BY <1>c, <1>m, <1>u DEF RowIsOf, ClaimFirst, IdemTypeOK, Rows
<1>4. ReplayIsTrue'
    BY <1>m, <1>u DEF ReplayIsTrue
<1> QED
    BY <1>1, <1>2, <1>3, <1>4

LEMMA SelectInv ==
    ASSUME NEW r \in Requests, IdemInv, ReplayIsTrue, Select(r)
    PROVE  IdemInv' /\ ReplayIsTrue'
<1> USE DEF IdemInv
<1>m. /\ request' \in [Requests -> [pc : Places, body : Bodies, round : 1 .. Rounds]]
      /\ request'[r].pc \in {"drop", "answered"} /\ request'[r].body = request[r].body
      /\ \A s \in Requests \ {r} : request'[s] = request[s]
  <2>1. CASE request' = [request EXCEPT ![r].pc = "drop", ![r].round = @ + 1] /\ request[r].round < Rounds
    <3>1. request[r].round + 1 \in 1 .. Rounds
        BY <2>1, IdempotencyAssumption DEF IdemTypeOK
    <3> QED
        BY <2>1, <3>1 DEF IdemTypeOK
  <2>2. CASE request' = [request EXCEPT ![r].pc = "answered"]
      BY <2>2 DEF IdemTypeOK
  <2> QED
      BY <2>1, <2>2 DEF Select, Reply
<1>u. UNCHANGED <<row, wrote, ended, kept>> /\ request[r].pc = "select"
    BY DEF Select
<1>r. \/ UNCHANGED reply
      \/ reply' = [reply EXCEPT ![r] = "unavailable"]
      \/ row # None /\ reply' = [reply EXCEPT ![r] = HeldKey(r)]
    BY DEF Select, Reply
<1>h. row # None => \/ HeldKey(r) \in Refusals
                    \/ HeldKey(r) = row.token /\ row.hash = request[r].body /\ row.state = "done"
    BY DEF HeldKey, Refusals, IdemTypeOK, Rows
<1>k. row # None => HeldKey(r) \in Requests \cup Refusals
    BY <1>h DEF IdemTypeOK, Rows
<1>1. IdemTypeOK'
  <2>1. reply' \in [Requests -> Requests \cup Refusals \cup {None}]
      BY <1>r, <1>k DEF IdemTypeOK, Refusals
  <2> QED
      BY <1>m, <1>u, <2>1 DEF IdemTypeOK
<1>2. ClaimFirst'
    BY <1>m, <1>u DEF ClaimFirst
<1>3. RowIsOf'
    BY <1>m, <1>u DEF RowIsOf, IdemTypeOK, Rows
<1>4. ReplayIsTrue'
  <2>1. \A s \in Requests : request'[s].body = request[s].body
      BY <1>m
  <2> SUFFICES ASSUME NEW s \in Requests, reply'[s] \in Requests \ {s}
               PROVE  reply'[s] \in kept /\ request[reply'[s]].body = request[s].body
      BY <2>1, <1>u DEF ReplayIsTrue
  <2>2. CASE reply'[s] = reply[s]
      BY <2>2 DEF ReplayIsTrue
  <2>3. CASE reply'[s] # reply[s]
    <3>1. s = r /\ row # None /\ reply'[s] = HeldKey(r)
      <4>1. reply'[s] # "unavailable"
          BY IdempotencyAssumption DEF Refusals
      <4>2. reply \in [Requests -> Requests \cup Refusals \cup {None}]
          BY DEF IdemTypeOK
      <4> QED
          BY <2>3, <4>1, <4>2, <1>r
    <3>2. HeldKey(r) = row.token /\ row.hash = request[r].body /\ row.state = "done"
        BY <3>1, <1>h, IdempotencyAssumption
    <3> QED
        BY <3>1, <3>2 DEF RowIsOf
  <2> QED
      BY <2>2, <2>3
<1> QED
    BY <1>1, <1>2, <1>3, <1>4

\* What an answer does to the request it is given to and to the replays of others.
LEMMA ReplyShape ==
    ASSUME NEW r \in Requests, NEW answer \in Requests \cup Refusals, IdemTypeOK, Reply(r, answer)
    PROVE  /\ \A s \in Requests : request'[s].body = request[s].body
           /\ request'[r].pc = "answered" /\ reply'[r] = answer
           /\ \A s \in Requests \ {r} : request'[s] = request[s] /\ reply'[s] = reply[s]
  BY DEF IdemTypeOK, Reply

\* An answer that is no other request's leaves the replays true.
LEMMA ReplyOwn ==
    ASSUME NEW r \in Requests, NEW answer \in Refusals \cup {r}, IdemTypeOK, Reply(r, answer),
           kept \subseteq kept', ReplayIsTrue
    PROVE  ReplayIsTrue'
<1> SUFFICES ASSUME NEW s \in Requests, reply'[s] \in Requests \ {s}
             PROVE  reply'[s] \in kept' /\ request'[reply'[s]].body = request'[s].body
    BY DEF ReplayIsTrue
<1>0. answer \in Requests \cup Refusals
    OBVIOUS
<1>1. s # r
    BY <1>0, ReplyShape, IdempotencyAssumption
<1>2. reply'[s] = reply[s]
    BY <1>0, <1>1, ReplyShape
<1>3. reply[s] \in kept /\ request[reply[s]].body = request[s].body
    BY <1>2 DEF ReplayIsTrue
<1> QED
    BY <1>0, <1>2, <1>3, ReplyShape

LEMMA StoreFailsInv ==
    ASSUME NEW r \in Requests, IdemInv, ReplayIsTrue, StoreFails(r)
    PROVE  IdemInv' /\ ReplayIsTrue'
<1> USE DEF IdemInv, StoreFails, Reply
<1>1. IdemTypeOK'
    BY IdempotencyAssumption, ZenonT(40) DEF IdemTypeOK, Rows, Ages, Refusals
<1>2. ClaimFirst'
    BY IdempotencyAssumption DEF ClaimFirst, RowIsOf, IdemTypeOK, Rows
<1>3. RowIsOf'
    BY IdempotencyAssumption DEF ClaimFirst, RowIsOf, IdemTypeOK, Rows
<1>4. ReplayIsTrue'
  <2>1. Reply(r, "unavailable") /\ kept' = kept
      OBVIOUS
  <2> HIDE DEF Reply, StoreFails
  <2> QED
      BY <2>1, ReplyOwn DEF Refusals
<1> QED
    BY <1>1, <1>2, <1>3, <1>4

LEMMA PurgeExpiredInv ==
    ASSUME IdemInv, ReplayIsTrue, PurgeExpired
    PROVE  IdemInv' /\ ReplayIsTrue'
<1> USE DEF IdemInv, PurgeExpired, DropRow
<1>1. IdemTypeOK'
    BY IdempotencyAssumption DEF IdemTypeOK, Rows, Ages, Refusals
<1>2. ClaimFirst'
    BY IdempotencyAssumption DEF ClaimFirst, RowIsOf, IdemTypeOK, Rows
<1>3. RowIsOf'
    BY IdempotencyAssumption DEF ClaimFirst, RowIsOf, IdemTypeOK, Rows
<1>4. ReplayIsTrue'
    BY IdempotencyAssumption DEF ReplayIsTrue, RowIsOf, IdemTypeOK, Rows, Refusals
<1> QED
    BY <1>1, <1>2, <1>3, <1>4

LEMMA HandleInv ==
    ASSUME NEW r \in Requests, NEW writes \in BOOLEAN, NEW outcome \in Outcomes,
           IdemInv, ReplayIsTrue, Handle(r, writes, outcome)
    PROVE  IdemInv' /\ ReplayIsTrue'
<1> USE DEF IdemInv, Handle
<1>m. /\ request' \in [Requests -> [pc : Places, body : Bodies, round : 1 .. Rounds]]
      /\ request'[r].pc = outcome /\ request'[r].body = request[r].body
      /\ \A s \in Requests \ {r} : request'[s] = request[s]
    BY DEF IdemTypeOK
<1>1. IdemTypeOK'
    BY <1>m, IdempotencyAssumption DEF IdemTypeOK, Rows, Ages, Refusals
<1>2. ClaimFirst'
    BY <1>m, IdempotencyAssumption DEF ClaimFirst, RowIsOf, IdemTypeOK, Rows
<1>3. RowIsOf'
    BY <1>m, IdempotencyAssumption DEF ClaimFirst, RowIsOf, IdemTypeOK, Rows
<1>4. ReplayIsTrue'
  <2>1. \A s \in Requests : request'[s].body = request[s].body
      BY <1>m
  <2> QED
      BY <2>1 DEF ReplayIsTrue
<1> QED
    BY <1>1, <1>2, <1>3, <1>4

LEMMA CompleteInv ==
    ASSUME NEW r \in Requests, NEW succeeds \in BOOLEAN, IdemInv, ReplayIsTrue, Complete(r, succeeds)
    PROVE  IdemInv' /\ ReplayIsTrue'
<1> USE DEF IdemInv, Complete, Reply, Holds
<1>1. IdemTypeOK'
    BY IdempotencyAssumption, ZenonT(40) DEF IdemTypeOK, Rows, Ages, Refusals
<1>m. /\ Reply(r, r) /\ UNCHANGED <<wrote, ended>> /\ request[r].pc = "complete"
      /\ \/ UNCHANGED <<row, kept>>
         \/ /\ Holds(r) /\ row' = [row EXCEPT !.state = "done"] /\ kept' = kept \cup {r}
    OBVIOUS
<1>s. /\ request'[r].pc = "answered"
      /\ \A s \in Requests : request'[s].body = request[s].body
      /\ \A s \in Requests \ {r} : request'[s] = request[s]
    BY <1>m, ReplyShape
<1> HIDE DEF Complete, Reply
<1>t. (row' = None <=> row = None) /\ (row # None => row'.token = row.token)
    BY <1>m, IdempotencyAssumption DEF IdemTypeOK, Rows
<1>k. \A s \in Requests : s \in kept' => s \in kept \/ (s = r /\ row # None /\ row.token = r)
    BY <1>m
<1>2. ClaimFirst'
  <2> SUFFICES ASSUME NEW s \in Requests
               PROVE  /\ request'[s].pc \in Claiming => ended[s] = "no"
                      /\ request'[s].pc \in Claiming \cup {"lost"} => s \notin kept'
                      /\ request'[s].pc \in {"run"} \cup Outcomes \/ s \in wrote \/ s \in kept' =>
                           ended[s] # "no" \/ (row' # None /\ row'.token = s)
                      /\ s \in wrote => request'[s].pc \notin Claiming \cup {"lost", "run"}
                      /\ ended[s] # "no" => row' = None \/ row'.token # s
      BY <1>m DEF ClaimFirst
  <2>1. CASE s = r
      BY <2>1, <1>m, <1>s, <1>t, <1>k DEF ClaimFirst
  <2>2. CASE s # r
      BY <2>2, <1>s, <1>t, <1>k DEF ClaimFirst
  <2> QED
      BY <2>1, <2>2
<1>3. RowIsOf'
  <2> SUFFICES ASSUME row' # None PROVE RowIsOf'
      BY DEF RowIsOf
  <2>t. row # None => row.token \in Requests
      BY DEF IdemTypeOK, Rows
  <2>1. CASE UNCHANGED <<row, kept>>
    <3>1. CASE row.token = r
        BY <2>1, <2>t, <3>1, <1>m, <1>s DEF RowIsOf, ClaimFirst
    <3>2. CASE row.token # r
      <4>1. request'[row.token] = request[row.token]
          BY <2>1, <2>t, <3>2, <1>s
      <4> QED
          BY <2>1, <4>1 DEF RowIsOf
    <3> QED BY <3>1, <3>2
  <2>2. CASE Holds(r) /\ row' = [row EXCEPT !.state = "done"] /\ kept' = kept \cup {r}
    <3>1. row # None /\ row.token = r /\ row'.token = r /\ row'.hash = row.hash /\ row'.state = "done"
        BY <2>2 DEF Holds, IdemTypeOK, Rows
    <3>2. row.hash = request[r].body
        BY <3>1 DEF RowIsOf
    <3> QED
        BY <2>2, <3>1, <3>2, <1>s DEF RowIsOf
  <2> QED BY <2>1, <2>2, <1>m
<1>4. ReplayIsTrue'
  <2>1. Reply(r, r) /\ kept \subseteq kept'
      BY <1>m
  <2> QED
      BY <2>1, ReplyOwn
<1> QED
    BY <1>1, <1>2, <1>3, <1>4

LEMMA ReleaseInv ==
    ASSUME NEW r \in Requests, NEW succeeds \in BOOLEAN, IdemInv, ReplayIsTrue, Release(r, succeeds)
    PROVE  IdemInv' /\ ReplayIsTrue'
<1> USE DEF IdemInv, Release, Reply
<1>m. /\ request' \in [Requests -> [pc : Places, body : Bodies, round : 1 .. Rounds]]
      /\ request'[r].pc = "answered" /\ request'[r].body = request[r].body
      /\ \A s \in Requests \ {r} : request'[s] = request[s]
    BY DEF IdemTypeOK
<1>u. UNCHANGED <<wrote, kept>> /\ request[r].pc \in {"release", "overflow"}
      /\ \E answer \in {r, "server error"} : reply' = [reply EXCEPT ![r] = answer]
    OBVIOUS
<1>p. reply' \in [Requests -> Requests \cup Refusals \cup {None}]
    BY <1>u DEF IdemTypeOK, Refusals
<1>d. \/ UNCHANGED <<row, ended>>
      \/ /\ row # None /\ row.token = r /\ row.state = "in_flight"
         /\ row' = None /\ ended' = [ended EXCEPT ![r] = "released"]
    BY DEF Holds, DropRow
<1> HIDE DEF Release, Reply
<1>e. /\ ended' \in [Requests -> {"no", "released", "stale", "expired"}]
      /\ \A s \in Requests : ended'[s] = ended[s] \/ (s = r /\ ended'[s] = "released" /\ row' = None)
      /\ row' = row \/ (row' = None /\ row.token = r /\ ended'[r] = "released")
    BY <1>d DEF IdemTypeOK
<1>1. IdemTypeOK'
  <2>1. row' \in Rows \cup {None}
      BY <1>d DEF IdemTypeOK
  <2> QED
      BY <2>1, <1>m, <1>u, <1>p, <1>e DEF IdemTypeOK
<1>2. ClaimFirst'
  <2> SUFFICES ASSUME NEW s \in Requests
               PROVE  /\ request'[s].pc \in Claiming => ended'[s] = "no"
                      /\ request'[s].pc \in Claiming \cup {"lost"} => s \notin kept
                      /\ request'[s].pc \in {"run"} \cup Outcomes \/ s \in wrote \/ s \in kept =>
                           ended'[s] # "no" \/ (row' # None /\ row'.token = s)
                      /\ s \in wrote => request'[s].pc \notin Claiming \cup {"lost", "run"}
                      /\ ended'[s] # "no" => row' = None \/ row'.token # s
      BY <1>u DEF ClaimFirst
  <2>1. CASE s = r
      BY <2>1, <1>m, <1>u, <1>e DEF ClaimFirst
  <2>2. CASE s # r
      BY <2>2, <1>m, <1>u, <1>e DEF ClaimFirst
  <2> QED
      BY <2>1, <2>2
<1>3. RowIsOf'
  <2>1. CASE row' = None
      BY <2>1 DEF RowIsOf
  <2>2. CASE row' = row /\ row # None
    <3>1. row.token \in Requests /\ request'[row.token].body = request[row.token].body
        BY <2>2, <1>m DEF IdemTypeOK, Rows
    <3>2. request'[row.token].pc \in {request[row.token].pc, "answered"}
        BY <3>1, <1>m
    <3> QED
        BY <2>2, <3>1, <3>2, <1>u DEF RowIsOf
  <2> QED
      BY <2>1, <2>2, <1>e
<1>4. ReplayIsTrue'
  <2>1. \E answer \in Refusals \cup {r} : Reply(r, answer)
      BY DEF Release, Refusals
  <2> QED
      BY <2>1, <1>u, ReplyOwn
<1> QED
    BY <1>1, <1>2, <1>3, <1>4

LEMMA DieInv ==
    ASSUME NEW r \in Requests, IdemInv, ReplayIsTrue, Die(r)
    PROVE  IdemInv' /\ ReplayIsTrue'
<1> USE DEF IdemInv
<1>m. /\ request' \in [Requests -> [pc : Places, body : Bodies, round : 1 .. Rounds]]
      /\ request'[r].pc = "dead" /\ request'[r].body = request[r].body
      /\ \A s \in Requests \ {r} : request'[s] = request[s]
    BY DEF Die, IdemTypeOK
<1>u. UNCHANGED <<row, reply, wrote, ended, kept>> /\ request[r].pc # "answered"
    BY DEF Die
<1>1. IdemTypeOK'
    BY <1>m, <1>u DEF IdemTypeOK
<1>2. ClaimFirst'
    BY <1>m, <1>u DEF ClaimFirst
<1>3. RowIsOf'
    BY <1>m, <1>u DEF RowIsOf, IdemTypeOK, Rows
<1>4. ReplayIsTrue'
    BY <1>m, <1>u DEF ReplayIsTrue
<1> QED
    BY <1>1, <1>2, <1>3, <1>4

LEMMA AgeInv ==
    ASSUME IdemInv, ReplayIsTrue, Age
    PROVE  IdemInv' /\ ReplayIsTrue'
<1> USE DEF IdemInv, Age
<1>a. /\ row \in Rows /\ row' \in Rows /\ row' # None
      /\ row'.hash = row.hash /\ row'.token = row.token /\ row'.state = row.state
  <2>1. row \in Rows
      BY DEF IdemTypeOK
  <2>2. row' \in Rows
      BY <2>1 DEF Rows, Ages
  <2> QED
      BY <2>1, <2>2, IdempotencyAssumption DEF Rows
<1>1. IdemTypeOK'
    BY <1>a, IdempotencyAssumption DEF IdemTypeOK, Rows, Ages, Refusals
<1>2. ClaimFirst'
    BY <1>a, IdempotencyAssumption DEF ClaimFirst, RowIsOf, IdemTypeOK, Rows
<1>3. RowIsOf'
    BY <1>a, IdempotencyAssumption DEF ClaimFirst, RowIsOf, IdemTypeOK, Rows
<1>4. ReplayIsTrue'
    BY <1>a, IdempotencyAssumption DEF ReplayIsTrue, RowIsOf, IdemTypeOK, Rows, Refusals
<1> QED
    BY <1>1, <1>2, <1>3, <1>4

-----------------------------------------------------------------------------
LEMMA StepIdem ==
    ASSUME IdemInv, ReplayIsTrue, [Next]_vars
    PROVE  IdemInv' /\ ReplayIsTrue'
<1>1. CASE UNCHANGED vars
    BY <1>1 DEF vars, IdemInv, IdemTypeOK, ClaimFirst, RowIsOf, ReplayIsTrue
<1>2. ASSUME NEW r \in Requests, Middleware(r)
      PROVE  IdemInv' /\ ReplayIsTrue'
    BY <1>2, DropStaleInv, InsertInv, SelectInv, StoreFailsInv, DieInv, HandleInv, CompleteInv,
       ReleaseInv DEF Middleware
<1>3. CASE PurgeExpired
    BY <1>3, PurgeExpiredInv
<1>4. CASE Age
    BY <1>4, AgeInv
<1> QED
    BY <1>1, <1>2, <1>3, <1>4 DEF Next

LEMMA IdemHolds == Spec => [](IdemInv /\ ReplayIsTrue)
<1>1. Init => IdemInv /\ ReplayIsTrue
    BY InitIdem
<1>2. (IdemInv /\ ReplayIsTrue) /\ [Next]_vars => (IdemInv /\ ReplayIsTrue)'
    BY StepIdem
<1> QED
    BY <1>1, <1>2, PTL DEF Spec

\* Claims, rows and stored answers agree, whatever dies or is taken over
\* (Claim, Complete and Release under their claim token).
THEOREM IdemInvariant == Spec => []IdemInv
    BY IdemHolds, PTL

\* A replay is the stored answer of a request with the same body (answerHeldKey).
THEOREM ReplaysTrue == Spec => []ReplayIsTrue
    BY IdemHolds, PTL

\* Two requests with one key both write only if the claim of one was released, went
\* stale or expired (Claim, Release).
THEOREM WritesOnce == Spec => []WrittenOnce
<1>1. IdemInv => WrittenOnce
    BY DEF IdemInv, IdemTypeOK, ClaimFirst, WrittenOnce
<1> QED
    BY <1>1, IdemHolds, PTL

\* A stored answer is dropped by nothing but its expiry (Claim, purgeExpired, Release).
THEOREM AnswersKept == Spec => AnswerIsKept
<1> DEFINE Kept == \A r \in kept : ended'[r] # ended[r] => ended'[r] = "expired"
<1>1. ASSUME IdemInv, [Next]_vars PROVE [Kept]_vars
  <2>0. kept \subseteq Requests /\ ended \in [Requests -> {"no", "released", "stale", "expired"}]
        /\ (row # None => row \in Rows /\ (row.state = "done" <=> row.token \in kept))
      BY <1>1 DEF IdemInv, IdemTypeOK, RowIsOf
  <2>1. ASSUME NEW reason, DropRow(reason), row # None, row.token \in kept => reason = "expired"
        PROVE  Kept
      BY <2>0, <2>1 DEF DropRow, Rows
  <2>2. ASSUME NEW r \in Requests, Middleware(r)
        PROVE  Kept
    <3>1. CASE DropStale(r)
      <4>1. CASE Droppable
        <5>1. row.token \in kept => row.age = "expired"
            BY <4>1, <2>0 DEF Droppable
        <5> QED
            BY <3>1, <4>1, <5>1, <2>1 DEF DropStale, Droppable
      <4>2. CASE ~Droppable
          BY <3>1, <4>2 DEF DropStale
      <4> QED
          BY <4>1, <4>2
    <3>2. ASSUME NEW succeeds \in BOOLEAN, Release(r, succeeds)
          PROVE  Kept
      <4>1. CASE succeeds /\ Holds(r)
          BY <3>2, <4>1, <2>0, <2>1 DEF Release, Holds
      <4>2. CASE ~(succeeds /\ Holds(r))
          BY <3>2, <4>2 DEF Release
      <4> QED
          BY <4>1, <4>2
    <3> QED
        BY <2>2, <3>1, <3>2 DEF Middleware, Insert, Select, StoreFails, Die, Handle, Complete
  <2>3. CASE PurgeExpired
      BY <2>3, <2>1 DEF PurgeExpired
  <2>4. CASE Age
      BY <2>4 DEF Age
  <2> QED
      BY <1>1, <2>2, <2>3, <2>4 DEF Next
<1> QED
    BY <1>1, IdemHolds, PTL DEF Spec, AnswerIsKept

-----------------------------------------------------------------------------
(* The middleware keeps the promise of the header.                          *)

\* A request is answered once, when it leaves the middleware.
Pending == \A r \in Requests : request[r].pc # "answered" => reply[r] = None

\* What a step does to the place and the body of each request.
LEMMA RequestStep ==
    ASSUME IdemTypeOK, [Next]_vars
    PROVE  /\ BodyOf' = BodyOf
           /\ \A r \in Requests : /\ request'[r].body = request[r].body
                                  /\ request[r].pc = "answered" => request'[r].pc = "answered"
                                  /\ reply'[r] # reply[r] => request'[r].pc = "answered"
<1> DEFINE Kept(r) == /\ request'[r].body = request[r].body
                      /\ request[r].pc = "answered" => request'[r].pc = "answered"
                      /\ reply'[r] # reply[r] => request'[r].pc = "answered"
<1>t. /\ request \in [Requests -> [pc : Places, body : Bodies, round : 1 .. Rounds]]
      /\ reply \in [Requests -> Requests \cup Refusals \cup {None}]
    BY DEF IdemTypeOK
<1>1. ASSUME NEW r \in Requests, NEW s \in Requests,
             \/ DropStale(r) \/ Insert(r) \/ Die(r)
             \/ \E writes \in BOOLEAN, outcome \in Outcomes : Handle(r, writes, outcome)
      PROVE  Kept(s)
  <2>1. CASE DropStale(r) \/ Insert(r)
    <3>1. PICK pc \in Places : request' = [request EXCEPT ![r].pc = pc]
        BY <2>1 DEF DropStale, Insert, GoOn
    <3>2. request[r].pc # "answered" /\ reply' = reply
        BY <2>1 DEF DropStale, Insert
    <3> QED
        BY <1>t, <3>1, <3>2
  <2>2. CASE Die(r)
      BY <2>2, <1>t DEF Die
  <2>3. CASE \E writes \in BOOLEAN, outcome \in Outcomes : Handle(r, writes, outcome)
      BY <2>3, <1>t DEF Handle
  <2> QED
      BY <1>1, <2>1, <2>2, <2>3
<1>2. ASSUME NEW r \in Requests, NEW s \in Requests, NEW answer, request[r].pc # "answered", Reply(r, answer)
      PROVE  Kept(s)
    BY <1>2, <1>t DEF Reply
<1>3. ASSUME NEW r \in Requests, NEW s \in Requests,
             \/ Select(r) \/ StoreFails(r)
             \/ \E succeeds \in BOOLEAN : Complete(r, succeeds) \/ Release(r, succeeds)
      PROVE  Kept(s)
  <2>1. request[r].pc # "answered"
      BY <1>3 DEF Select, StoreFails, Complete, Release
  <2>2. CASE \E answer : Reply(r, answer)
      BY <1>2, <2>1, <2>2
  <2>3. CASE request' = [request EXCEPT ![r].pc = "drop", ![r].round = @ + 1] /\ UNCHANGED reply
      BY <1>t, <2>1, <2>3
  <2> QED
      BY <1>3, <2>2, <2>3 DEF Select, StoreFails, Complete, Release
<1>4. ASSUME NEW s \in Requests, PurgeExpired \/ Age \/ UNCHANGED vars PROVE Kept(s)
    BY <1>4 DEF PurgeExpired, Age, vars
<1>5. \A s \in Requests : Kept(s)
    BY <1>1, <1>3, <1>4 DEF Next, Middleware
<1> QED
    BY <1>5 DEF BodyOf

LEMMA PendingHolds == Spec => []Pending
<1>1. Init => Pending
    BY DEF Init, Pending
<1>2. IdemInv /\ Pending /\ [Next]_vars => Pending'
    BY RequestStep DEF Pending, IdemInv
<1> QED
    BY <1>1, <1>2, IdemHolds, PTL DEF Spec

\* The row as the key's owner.
LEMMA OwnerOf ==
    ASSUME IdemInv
    PROVE  /\ row = None => Owner = None
           /\ row # None => /\ row \in Rows /\ Owner = row.token /\ Owner \in Requests /\ Owner # None
                            /\ row.hash = BodyOf[Owner]
                            /\ row.state = "done" <=> Owner \in kept
    BY IdempotencyAssumption DEF IdemInv, IdemTypeOK, RowIsOf, Rows, Owner, BodyOf

\* Who claims or once claimed the key.
LEMMA AdmittedOf ==
    ASSUME IdemInv, NEW r \in Requests
    PROVE  /\ request[r].pc \in {"run"} \cup Outcomes => Key!Admitted(r)
           /\ request[r].pc \in Claiming => ~Key!Admitted(r)
           /\ request[r].pc \in {"lost", "run"} => r \notin wrote
<1>1. row # None => row.token \in Requests
    BY DEF IdemInv, IdemTypeOK, Rows
<1> QED
    BY <1>1, OwnerOf, IdempotencyAssumption DEF Key!Admitted, IdemInv, ClaimFirst, RowIsOf

\* The key goes as its claim ended.
LEMMA DropForgets ==
    ASSUME IdemInv, NEW reason \in {"stale", "expired"}, DropRow(reason), row # None,
           row.state = "done" => reason = "expired",
           BodyOf' = BodyOf, UNCHANGED <<kept, wrote, reply>>
    PROVE  Key!Next
<1>1. Owner \in Requests /\ Owner = row.token /\ (row.state = "done" <=> Owner \in kept)
    BY OwnerOf
<1>2. Owner' = None /\ ended' = [ended EXCEPT ![Owner] = reason]
    BY <1>1 DEF DropRow, Owner
<1>3. Key!Forget(Owner)
    BY <1>1, <1>2 DEF Key!Forget
<1> QED
    BY <1>1, <1>3 DEF Key!Next

\* Every step of the middleware is one the promise allows, or none.
LEMMA KeyStep ==
    ASSUME IdemInv, Pending, [Next]_vars
    PROVE  [Key!Next]_(Key!vars)
<1>b. BodyOf' = BodyOf
    BY RequestStep DEF IdemInv
<1>s. ASSUME Owner' = Owner, UNCHANGED <<kept, ended, wrote, reply>> PROVE UNCHANGED Key!vars
    BY <1>b, <1>s DEF Key!vars
<1>r. row' = row => Owner' = Owner
    BY DEF Owner
<1>1. ASSUME NEW r \in Requests, DropStale(r) PROVE [Key!Next]_(Key!vars)
  <2>1. CASE Droppable
    <3>1. row.age \in {"stale", "expired"} /\ (row.state = "done" => row.age = "expired")
        BY <2>1, OwnerOf DEF Droppable, Rows, Ages
    <3> QED
        BY <1>1, <1>b, <2>1, <3>1, DropForgets DEF DropStale, Droppable
  <2>2. CASE ~Droppable
      BY <1>1, <1>r, <1>s, <2>2 DEF DropStale
  <2> QED
      BY <2>1, <2>2
<1>2. ASSUME NEW r \in Requests, Insert(r) PROVE [Key!Next]_(Key!vars)
  <2>1. CASE row = None
    <3>1. Owner = None /\ ~Key!Admitted(r) /\ reply[r] = None
        BY <1>2, <2>1, OwnerOf, AdmittedOf DEF Insert, Pending
    <3>2. Owner' = r
        BY <1>2, <2>1, IdempotencyAssumption DEF Insert, Claimed, Owner, IdemInv, IdemTypeOK, Rows, Ages
    <3>3. Key!Claim(r)
        BY <1>2, <1>b, <3>1, <3>2 DEF Key!Claim, Insert
    <3> QED
        BY <3>3 DEF Key!Next
  <2>2. CASE row # None
      BY <1>2, <1>r, <1>s, <2>2 DEF Insert
  <2> QED
      BY <2>1, <2>2
<1>t. ASSUME NEW r \in Requests, NEW answer \in Key!Truth(r), Reply(r, answer), request[r].pc # "answered",
             UNCHANGED <<row, kept, ended, wrote>>
      PROVE  Key!Next
  <2>1. Key!Tell(r)
      BY <1>t, <1>b, <1>r DEF Key!Tell, Reply, Pending
  <2> QED
      BY <2>1 DEF Key!Next
<1>3. ASSUME NEW r \in Requests, Select(r) PROVE [Key!Next]_(Key!vars)
  <2>1. ~Key!Admitted(r) /\ request[r].pc # "answered"
      BY <1>3, AdmittedOf DEF Select
  <2>2. CASE UNCHANGED reply
      BY <1>3, <1>r, <1>s, <2>2 DEF Select
  <2>3. CASE Reply(r, "unavailable")
    <3>1. "unavailable" \in Key!Truth(r)
        BY <2>1 DEF Key!Truth
    <3> QED
        BY <1>3, <1>t, <2>1, <2>3, <3>1 DEF Select
  <2>4. CASE row # None /\ Reply(r, HeldKey(r))
    <3>1. /\ Owner # None /\ Owner = row.token /\ row.hash = BodyOf[Owner]
          /\ row.state = "done" <=> Owner \in kept
          /\ row.state \in {"in_flight", "done"} /\ BodyOf[r] = request[r].body
        BY <2>4, OwnerOf DEF Rows, BodyOf
    <3>2. HeldKey(r) \in Key!Truth(r)
        BY <2>1, <3>1 DEF HeldKey, Key!Truth
    <3> QED
        BY <1>3, <1>t, <2>1, <2>4, <3>2 DEF Select
  <2> QED
      BY <1>3, <2>2, <2>3, <2>4 DEF Select
<1>4. ASSUME NEW r \in Requests, StoreFails(r) PROVE [Key!Next]_(Key!vars)
  <2>1. "unavailable" \in Key!Truth(r) /\ request[r].pc # "answered"
      BY <1>4, AdmittedOf DEF StoreFails, Key!Truth
  <2> QED
      BY <1>4, <1>t, <2>1 DEF StoreFails
<1>5. ASSUME NEW r \in Requests, NEW writes \in BOOLEAN, NEW outcome \in Outcomes,
             Handle(r, writes, outcome)
      PROVE  [Key!Next]_(Key!vars)
  <2>1. Key!Admitted(r) /\ r \notin wrote /\ reply[r] = None
      BY <1>5, AdmittedOf DEF Handle, Pending
  <2>2. CASE writes
    <3>1. Key!TakeEffect(r)
        BY <1>5, <1>b, <1>r, <2>1, <2>2 DEF Key!TakeEffect, Handle
    <3> QED
        BY <3>1 DEF Key!Next
  <2>3. CASE ~writes
      BY <1>5, <1>r, <1>s, <2>3 DEF Handle
  <2> QED
      BY <2>2, <2>3
<1>6. ASSUME NEW r \in Requests, NEW succeeds \in BOOLEAN, Complete(r, succeeds) PROVE [Key!Next]_(Key!vars)
  <2>1. Key!Admitted(r) /\ reply[r] = None /\ request[r].pc = "complete"
      BY <1>6, AdmittedOf DEF Complete, Pending
  <2>2. CASE succeeds /\ Holds(r)
    <3>1. Owner = r /\ row # None
        BY <2>2, OwnerOf DEF Holds
    <3>2. Owner' = r
      <4>1. row' = [row EXCEPT !.state = "done"] /\ row \in Rows
          BY <1>6, <2>2, <3>1, OwnerOf DEF Complete
      <4>2. row' \in Rows /\ row'.token = row.token
          BY <4>1 DEF Rows
      <4> QED
          BY <3>1, <4>2, IdempotencyAssumption DEF Owner
    <3>3. Key!Keep(r)
        BY <1>6, <1>b, <2>1, <2>2, <3>1, <3>2 DEF Key!Keep, Complete, Reply
    <3> QED
        BY <3>3 DEF Key!Next
  <2>3. CASE ~(succeeds /\ Holds(r))
    <3>1. r \in Key!Truth(r)
        BY <2>1 DEF Key!Truth
    <3> QED
        BY <1>6, <1>t, <2>1, <2>3, <3>1 DEF Complete
  <2> QED
      BY <2>2, <2>3
<1>7. ASSUME NEW r \in Requests, NEW succeeds \in BOOLEAN, Release(r, succeeds) PROVE [Key!Next]_(Key!vars)
  <2>1. Key!Admitted(r) /\ reply[r] = None /\ request[r].pc \in {"release", "overflow"}
      BY <1>7, AdmittedOf DEF Release, Pending
  <2>2. CASE succeeds /\ Holds(r)
    <3>1. Owner = r /\ row.token = r /\ row # None
        BY <2>2, OwnerOf DEF Holds
    <3>2. Owner' = None /\ ended' = [ended EXCEPT ![r] = "released"]
        BY <1>7, <2>2, <3>1 DEF Release, DropRow, Owner
    <3>3. Key!GiveBack(r)
        BY <1>7, <1>b, <2>1, <3>1, <3>2 DEF Key!GiveBack, Release, Reply
    <3> QED
        BY <3>3 DEF Key!Next
  <2>3. CASE ~(succeeds /\ Holds(r))
    <3>1. {r, "server error"} \subseteq Key!Truth(r)
        BY <2>1 DEF Key!Truth
    <3> QED
        BY <1>7, <1>t, <2>1, <2>3, <3>1 DEF Release
  <2> QED
      BY <2>2, <2>3
<1>8. ASSUME NEW r \in Requests, Die(r) PROVE [Key!Next]_(Key!vars)
    BY <1>8, <1>r, <1>s DEF Die
<1>9. ASSUME PurgeExpired PROVE [Key!Next]_(Key!vars)
    BY <1>9, <1>b, DropForgets DEF PurgeExpired
<1>10. ASSUME Age PROVE [Key!Next]_(Key!vars)
  <2>1. row' \in Rows /\ row'.token = row.token /\ row # None
      BY <1>10, OwnerOf DEF Age, Rows, Ages
  <2>2. Owner' = Owner
      BY <2>1, IdempotencyAssumption DEF Owner
  <2> QED
      BY <1>10, <1>s, <2>2 DEF Age
<1>11. CASE UNCHANGED vars
    BY <1>11, <1>r, <1>s DEF vars
<1> QED
    BY <1>1, <1>2, <1>3, <1>4, <1>5, <1>6, <1>7, <1>8, <1>9, <1>10, <1>11 DEF Next, Middleware

\* The middleware implements the promise of the Idempotency-Key header.
THEOREM ImplementsIdempotentKey == Spec => KeySpec
<1>1. Init => Key!Init
  <2> SUFFICES ASSUME Init PROVE Key!Init
      OBVIOUS
  <2>1. PICK body \in [Requests -> Bodies] :
          request = [r \in Requests |-> [pc |-> "drop", body |-> body[r], round |-> 1]]
      BY DEF Init
  <2>2. BodyOf \in [Requests -> Bodies]
      BY <2>1 DEF BodyOf
  <2> QED
      BY <2>2 DEF Init, Owner, Key!Init
<1>2. IdemInv /\ Pending /\ [Next]_vars => [Key!Next]_(Key!vars)
    BY KeyStep
<1> QED
    BY <1>1, <1>2, IdemHolds, PendingHolds, PTL DEF Spec, KeySpec, Key!Spec
=============================================================================
