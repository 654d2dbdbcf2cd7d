-------------------------- MODULE AgentAuth_proofs --------------------------
(***************************************************************************)
(* The authentication cache keeps AuthInv, and accepts on a hit only what  *)
(* its check vouches for, for any number of requests, roles, kinds of key  *)
(* and changes.                                                            *)
(***************************************************************************)
EXTENDS AgentAuth, TLAPS

\* What TypeOK says of a request, and how a request that goes on stays one.
Calls == [pc : {"new", "hit", "checking", "queued", "stale", "miss", "flying"} \cup Answered,
          agent : Cached, by : {"check", "own", "other"}]

LEMMA InitAuth == Init => AuthInv
<1> SUFFICES ASSUME Init PROVE AuthInv
    OBVIOUS
<1>d. /\ database \in Databases /\ database.digest \in {NoDigest, 0}
      /\ entry \in Cached
  <2>1. {NoDigest, 0} \subseteq Digests
      BY AuthAssumption DEF Digests, NoDigest
  <2>2. database \in Databases /\ database.digest \in {NoDigest, 0}
      BY <2>1, AuthAssumption DEF Init, Databases
  <2>3. entry \in Cached
      BY <2>1, <2>2 DEF Init, Cached, Agents
  <2> QED
      BY <2>2, <2>3
<1>1. AuthTypeOK
    BY <1>d, AuthAssumption DEF Init, AuthTypeOK, Cached, Answered
<1>2. Awaited /\ VerdictIsCurrent
    BY DEF Init, Awaited, VerdictIsCurrent
<1>3. RowsInOrder
    BY <1>d DEF Init, RowsInOrder, Arrived, Original, NoDigest
<1> QED
    BY <1>1, <1>2, <1>3 DEF AuthInv

-----------------------------------------------------------------------------
(* Facts used by several actions.                                           *)

\* A request under way arrived at rows earlier than those of now.
LEMMA ArrivedEarlier ==
    ASSUME AuthInv, NEW r \in Arrived
    PROVE  /\ then[r] \in Databases /\ Earlier(then[r], database)
           /\ Given(database.grant) \subseteq since[r] /\ r \in Requests
BY DEF AuthInv, RowsInOrder, AuthTypeOK, Arrived

\* Rows that hold the original key held it before, too.
LEMMA OriginalEarlier ==
    ASSUME NEW at \in Databases, NEW now \in Databases, Earlier(at, now), Original(now)
    PROVE  Original(at)
<1>1. at.digest \in Digests /\ now.digest \in Digests
    BY DEF Databases
<1>2. \A d \in Digests : d \in {NoDigest, 0} <=> d <= 0
    BY AuthAssumption DEF Digests, NoDigest
<1>3. \A d \in Digests : d \in Int
    BY AuthAssumption DEF Digests, NoDigest
<1> QED
    BY <1>1, <1>2, <1>3 DEF Earlier, Original

\* Histories that are kept are in order while the rows stay as they are.
LEMMA SameRows ==
    ASSUME RowsInOrder, UNCHANGED database, UNCHANGED changes, Arrived' \subseteq Arrived,
           \A r \in Arrived' : then'[r] = then[r] /\ since'[r] = since[r]
    PROVE  RowsInOrder'
BY DEF RowsInOrder

\* What is remembered is remembered of every request that waits for none but itself.
LEMMA Remembered ==
    ASSUME AuthTypeOK, Remember
    PROVE  /\ \A r \in Arrived' : then'[r] = then[r] /\ since'[r] = since[r]
           /\ then' \in [Requests -> Databases \cup {None}] /\ since' \in [Requests -> SUBSET Roles]
BY DEF AuthTypeOK, Remember, Arrived

\* Nothing that the invariant says of the rows or the flight changes with a check.
LEMMA CheckStep ==
    ASSUME AuthInv, UNCHANGED <<rows, entry, call, queued, flight, history>>,
           NEW verdict \in {"keyed", "valid", "invalid"}, running # None,
           running' = [running EXCEPT !.verdict = verdict],
           verdict \in {"keyed", "valid"} =>
             \A r \in Requests : call[r].pc = "checking" => Vouched(running.agent, then[r]),
           verdict = "valid" =>
             \A r \in Requests : call[r].pc = "checking" => RoleGiven(running.agent, r)
    PROVE  AuthInv'
<1> USE DEF AuthInv, rows, history
<1>r. running \in Batches /\ running' \in Batches /\ running'.agent = running.agent
      /\ running'.verdict = verdict /\ running' # None
    BY AuthAssumption DEF AuthTypeOK, Batches
<1>1. AuthTypeOK'
    BY <1>r DEF AuthTypeOK
<1>2. Awaited'
    BY <1>r DEF Awaited
<1>3. RowsInOrder'
    BY SameRows DEF Arrived
<1>4. VerdictIsCurrent'
    BY <1>r DEF VerdictIsCurrent, Checking, Vouched, RoleGiven
<1> QED
    BY <1>1, <1>2, <1>3, <1>4

\* A verification goes on with what its read vouches for.
LEMMA VerifyStep ==
    ASSUME AuthInv, UNCHANGED <<rows, entry, call, running, queued, history>>,
           flight # None, flight' \in Flights,
           flight'.next \in {"agent", "store", "stored"} => flight'.found # None,
           flight'.next = "legacy" => database.kind = "home",
           \A r \in Requests : call[r].pc = "flying" /\ call[r].by = "own" =>
             /\ flight'.next \in {"grant", "legacy", "agent", "store", "stored"} => Presented(then[r])
             /\ flight'.next \in {"agent", "store", "stored"} =>
                  Resolved(then[r]) /\ RoleGiven(flight'.found, r)
             /\ flight'.next \in {"store", "stored"} => then[r].agent
    PROVE  AuthInv'
<1> USE DEF AuthInv, rows, history
<1>f. flight' # None
    BY AuthAssumption
<1>1. AuthTypeOK'
    BY DEF AuthTypeOK
<1>2. Awaited'
    BY <1>f DEF Awaited
<1>3. RowsInOrder'
    BY SameRows DEF Arrived
<1>4. VerdictIsCurrent'
    BY DEF VerdictIsCurrent, Checking, Vouched, RoleGiven
<1> QED
    BY <1>1, <1>2, <1>3, <1>4

\* A request that waits for its own verification is one whose history is kept.
LEMMA OwnArrived ==
    ASSUME NEW r \in Requests, call[r].pc = "flying", call[r].by = "own"
    PROVE  r \in Arrived
BY DEF Arrived, Answered

LEMMA DeniedStep ==
    ASSUME AuthInv, UNCHANGED <<rows, entry, call, running, queued, history>>,
           flight # None, flight' = Denied
    PROVE  AuthInv'
<1>1. flight' \in Flights /\ flight'.next = "denied"
    BY DEF Denied, Flights, Cached
<1> QED
    BY <1>1, VerifyStep

-----------------------------------------------------------------------------
(* A hit and its check: one lemma per action.                               *)

LEMMA LookupInv ==
    ASSUME NEW r \in Requests, AuthInv, Lookup(r)
    PROVE  AuthInv'
<1> USE DEF AuthInv, rows
<1>t. /\ call \in [Requests -> Calls] /\ then \in [Requests -> Databases \cup {None}]
      /\ since \in [Requests -> SUBSET Roles] /\ entry \in Cached /\ database \in Databases
      /\ call[r].pc = "new" /\ call[r].by = "check"
    BY DEF AuthTypeOK, Calls, Awaited, Lookup
<1>c. /\ call' \in [Requests -> Calls]
      /\ call'[r].pc = (IF entry = None THEN "miss" ELSE "hit")
      /\ entry # None => call'[r].agent = entry
      /\ call'[r].by = "check"
      /\ \A s \in Requests \ {r} : call'[s] = call[s]
    BY <1>t DEF Lookup, Calls, Cached
<1>h. /\ then' \in [Requests -> Databases \cup {None}] /\ since' \in [Requests -> SUBSET Roles]
      /\ then'[r] = database /\ since'[r] = Given(database.grant)
      /\ \A s \in Requests \ {r} : then'[s] = then[s] /\ since'[s] = since[s]
    BY <1>t DEF Lookup, Given
<1>u. UNCHANGED <<database, changes, entry, running, queued, flight>>
    BY DEF Lookup
<1>1. AuthTypeOK'
    BY <1>c, <1>h, <1>u DEF AuthTypeOK, Calls
<1>2. Awaited'
    BY <1>c, <1>u DEF Awaited
<1>3. RowsInOrder'
  <2>1. database # None /\ Earlier(database, database)
    <3>1. database.digest \in Int /\ database # None
        BY <1>t, AuthAssumption DEF Databases, Digests, NoDigest
    <3> QED
        BY <3>1 DEF Earlier
  <2>2. \A s \in Arrived' : s = r \/ s \in Arrived
      BY <1>c DEF Arrived
  <2> QED
      BY <2>1, <2>2, <1>h, <1>u DEF RowsInOrder, Arrived
<1>4. VerdictIsCurrent'
    BY <1>c, <1>h, <1>u DEF VerdictIsCurrent, Checking, RoleGiven
<1> QED
    BY <1>1, <1>2, <1>3, <1>4

LEMMA JoinCheckInv ==
    ASSUME NEW r \in Requests, AuthInv, JoinCheck(r)
    PROVE  AuthInv'
<1> USE DEF AuthInv, rows, history
<1>t. /\ call \in [Requests -> Calls] /\ call[r].pc = "hit" /\ call[r].by = "check"
      /\ call[r].agent \in Agents /\ call[r].agent # None
    BY DEF AuthTypeOK, Calls, Awaited, JoinCheck, Cached
<1>b. Batch(call[r].agent) \in Batches /\ Batch(call[r].agent) # None
      /\ Batch(call[r].agent).verdict = "unknown"
    BY <1>t, AuthAssumption DEF Batches, Batch
<1>c. /\ call' \in [Requests -> Calls]
      /\ call'[r].pc = (IF running = None THEN "checking" ELSE "queued")
      /\ call'[r].agent = call[r].agent /\ call'[r].by = "check"
      /\ \A s \in Requests \ {r} : call'[s] = call[s]
    BY <1>t DEF JoinCheck, Calls
<1>u. /\ UNCHANGED <<database, changes, entry, flight, then, since>>
      /\ running' = (IF running = None THEN Batch(call[r].agent) ELSE running)
      /\ queued' = (IF running # None /\ queued = None THEN call[r].agent ELSE queued)
    BY DEF JoinCheck
<1>1. AuthTypeOK'
    BY <1>b, <1>c, <1>t, <1>u DEF AuthTypeOK, Calls, Cached
<1>2. Awaited'
    BY <1>b, <1>c, <1>t, <1>u DEF Awaited
<1>3. RowsInOrder'
  <2>1. Arrived' \subseteq Arrived
      BY <1>c, <1>t DEF Arrived, Answered
  <2> QED
      BY <2>1, <1>u, SameRows
<1>4. VerdictIsCurrent'
  <2>1. CASE running = None
      BY <2>1, <1>b, <1>c, <1>u DEF VerdictIsCurrent, Checking, Awaited, RoleGiven
  <2>2. CASE running # None
      BY <2>2, <1>c, <1>u DEF VerdictIsCurrent, Checking, RoleGiven
  <2> QED
      BY <2>1, <2>2
<1> QED
    BY <1>1, <1>2, <1>3, <1>4

LEMMA CheckKeyInv ==
    ASSUME AuthInv, CheckKey
    PROVE  AuthInv'
<1>1. /\ UNCHANGED <<rows, entry, call, queued, flight, history>> /\ running # None
      /\ running \in Batches /\ database \in Databases
    BY DEF CheckKey, Checking, AuthInv, AuthTypeOK
<1>2. CASE database.workspace /\ KeyStands(running.agent)
  <2>1. ASSUME NEW r \in Requests, call[r].pc = "checking" PROVE Vouched(running.agent, then[r])
    <3>1. r \in Arrived
        BY <2>1 DEF Arrived, Answered, AuthInv, Awaited
    <3>2. then[r] \in Databases /\ Earlier(then[r], database)
        BY <3>1, ArrivedEarlier
    <3>3. running.agent.digest = 0 => Original(then[r])
      <4> SUFFICES ASSUME running.agent.digest = 0 PROVE Original(then[r])
          OBVIOUS
      <4>1. CASE database.kind = "additional"
          BY <3>2, <4>1 DEF Earlier, Original
      <4>2. CASE database.kind # "additional"
        <5>1. database.digest = 0
            BY <1>2, <4>2 DEF KeyStands, NoDigest
        <5> QED
            BY <1>1, <3>2, <5>1, OriginalEarlier DEF Original
      <4> QED
          BY <4>1, <4>2
    <3> QED
        BY <1>2, <3>2, <3>3 DEF Vouched, Earlier, KeyStands
  <2>2. running' = [running EXCEPT !.verdict = "keyed"]
      BY <1>2 DEF CheckKey
  <2> QED
      BY <1>1, <2>1, <2>2, CheckStep
<1>3. CASE ~(database.workspace /\ KeyStands(running.agent))
  <2>1. running' = [running EXCEPT !.verdict = "invalid"]
      BY <1>3 DEF CheckKey
  <2> QED
      BY <1>1, <2>1, CheckStep
<1> QED
    BY <1>2, <1>3

LEMMA CheckGrantInv ==
    ASSUME AuthInv, CheckGrant
    PROVE  AuthInv'
<1>1. /\ UNCHANGED <<rows, entry, call, queued, flight, history>> /\ running # None
      /\ running \in Batches /\ Checking("keyed")
    BY DEF CheckGrant, Checking, AuthInv, AuthTypeOK
<1>2. CASE running.agent.granted => database.grant = running.agent.role
  <2>1. ASSUME NEW r \in Requests, call[r].pc = "checking"
        PROVE  Vouched(running.agent, then[r]) /\ RoleGiven(running.agent, r)
    <3>1. r \in Arrived
        BY <2>1 DEF Arrived, Answered, AuthInv, Awaited
    <3>2. Given(database.grant) \subseteq since[r]
        BY <3>1, ArrivedEarlier
    <3>3. running.agent.role \in Roles
        BY <1>1 DEF Batches, Agents
    <3>4. RoleGiven(running.agent, r)
        BY <1>2, <3>2, <3>3 DEF RoleGiven, Given
    <3> QED
        BY <1>1, <2>1, <3>4 DEF AuthInv, VerdictIsCurrent
  <2>2. running' = [running EXCEPT !.verdict = "valid"]
      BY <1>2 DEF CheckGrant
  <2> QED
      BY <1>1, <2>1, <2>2, CheckStep
<1>3. CASE ~(running.agent.granted => database.grant = running.agent.role)
  <2>1. running' = [running EXCEPT !.verdict = "invalid"]
      BY <1>3 DEF CheckGrant
  <2> QED
      BY <1>1, <2>1, CheckStep
<1> QED
    BY <1>2, <1>3

LEMMA CheckFailsInv ==
    ASSUME AuthInv, CheckFails
    PROVE  AuthInv'
BY CheckStep DEF CheckFails, Checking

LEMMA RunValidBatchInv ==
    ASSUME AuthInv, RunValidBatch
    PROVE  AuthInv'
<1> USE DEF AuthInv, rows, history
<1>t. call \in [Requests -> Calls] /\ running # None /\ queued \in Cached
    BY DEF AuthTypeOK, Calls, RunValidBatch, Judged, Checking
<1>c. ASSUME NEW r \in Requests
      PROVE  /\ call'[r] \in Calls
             /\ call[r].pc = "checking" => call'[r] \in {Left("accepted"), Left("stale")}
             /\ call[r].pc = "queued" => call'[r] = [call[r] EXCEPT !.pc = "checking"]
             /\ call[r].pc \notin {"checking", "queued"} => call'[r] = call[r]
  <2>1. Left("accepted") \in Calls /\ Left("stale") \in Calls
      BY DEF Left, Calls, Cached, Answered
  <2>2. [call[r] EXCEPT !.pc = "checking"] \in Calls
      BY <1>t DEF Calls
  <2>3. call[r] \in Calls
      BY <1>t
  <2> QED
      BY <2>1, <2>2, <2>3 DEF RunValidBatch, Published
<1>f. call' \in [Requests -> Calls]
  <2> DEFINE C(r) == CASE call[r].pc = "checking" ->
                            Left(IF running.verdict = "valid" THEN "accepted" ELSE "stale")
                       [] call[r].pc = "queued" -> [call[r] EXCEPT !.pc = "checking"]
                       [] OTHER -> call[r]
  <2>1. call' = [r \in Requests |-> C(r)]
      BY DEF RunValidBatch, Published
  <2> HIDE DEF C
  <2>2. \A r \in Requests : C(r) \in Calls
      BY <2>1, <1>c
  <2> QED
      BY <2>1, <2>2
<1>p. ASSUME NEW r \in Requests
      PROVE  /\ call'[r].pc = "checking" => call[r].pc = "queued" /\ call'[r].agent = call[r].agent
                                            /\ call'[r].by = call[r].by
             /\ call'[r].pc # "queued"
             /\ call'[r].pc \in {"new", "hit", "flying"} => call'[r] = call[r]
             /\ call'[r].pc = "flying" <=> call'[r].by # "check"
  <2>1. call[r] \in Calls
      BY <1>t
  <2>2. CASE call[r].pc = "checking"
    <3>1. /\ Left("accepted").pc = "accepted" /\ Left("stale").pc = "stale"
          /\ Left("accepted").by = "check" /\ Left("stale").by = "check"
        BY DEF Left
    <3>2. call'[r].pc \in {"accepted", "stale"} /\ call'[r].by = "check"
        BY <2>2, <1>c, <3>1
    <3> QED
        BY <3>2
  <2>3. CASE call[r].pc = "queued"
    <3>1. call'[r] = [call[r] EXCEPT !.pc = "checking"]
        BY <2>3, <1>c
    <3> QED
        BY <2>1, <2>3, <3>1 DEF Calls, Awaited
  <2>4. CASE call[r].pc \notin {"checking", "queued"}
      BY <2>4, <1>c DEF Awaited
  <2> QED
      BY <2>2, <2>3, <2>4
<1>u. /\ UNCHANGED <<database, changes, entry, flight>> /\ Remember /\ queued' = None
      /\ running' = (IF queued = None THEN None ELSE Batch(queued))
    BY DEF RunValidBatch
<1>b. queued # None => /\ Batch(queued) \in Batches /\ Batch(queued) # None
                       /\ Batch(queued).verdict = "unknown"
    BY <1>t, AuthAssumption DEF Batch, Batches, Cached
<1>a. Arrived' \subseteq Arrived
    BY <1>c, <1>t DEF Arrived, Left, Answered, Awaited
<1>1. AuthTypeOK'
    BY <1>f, <1>u, <1>b, Remembered DEF AuthTypeOK, Calls, Cached
<1>2. Awaited'
    BY <1>p, <1>u, <1>b DEF Awaited
<1>3. RowsInOrder'
    BY <1>a, <1>u, SameRows, Remembered
<1>4. VerdictIsCurrent'
  <2>1. ~Checking("keyed")' /\ ~Checking("valid")'
      BY <1>u, <1>b DEF Checking
  <2>2. ASSUME NEW r \in Requests, call'[r].pc = "flying", call'[r].by = "own"
        PROVE  call[r].pc = "flying" /\ call[r].by = "own" /\ then'[r] = then[r] /\ since'[r] = since[r]
    <3>1. call'[r] = call[r] /\ r \in Arrived'
        BY <1>p, <2>2 DEF Arrived, Answered
    <3> QED
        BY <3>1, <2>2, <1>u, Remembered
  <2> QED
      BY <2>1, <2>2, <1>u DEF VerdictIsCurrent, RoleGiven
<1> QED
    BY <1>1, <1>2, <1>3, <1>4


LEMMA EvictInv ==
    ASSUME NEW r \in Requests, AuthInv, Evict(r)
    PROVE  AuthInv'
<1> USE DEF AuthInv, rows, history
<1>t. call \in [Requests -> Calls] /\ call[r].pc = "stale" /\ call[r].by = "check"
    BY DEF AuthTypeOK, Calls, Evict, Awaited
<1>c. /\ call' \in [Requests -> Calls] /\ call'[r].pc = "miss" /\ call'[r].by = "check"
      /\ \A s \in Requests \ {r} : call'[s] = call[s]
    BY <1>t DEF Evict, Calls
<1>u. UNCHANGED <<database, changes, running, queued, flight, then, since>> /\ entry' = None
    BY DEF Evict
<1>1. AuthTypeOK'
    BY <1>c, <1>u DEF AuthTypeOK, Calls, Cached
<1>2. Awaited'
    BY <1>c, <1>u DEF Awaited
<1>3. RowsInOrder'
  <2>1. Arrived' \subseteq Arrived
      BY <1>c, <1>t DEF Arrived, Answered
  <2> QED
      BY <2>1, <1>u, SameRows
<1>4. VerdictIsCurrent'
    BY <1>c, <1>u DEF VerdictIsCurrent, Checking, RoleGiven
<1> QED
    BY <1>1, <1>2, <1>3, <1>4

-----------------------------------------------------------------------------
(* A miss and its verification: one lemma per action.                       *)

LEMMA JoinFlightInv ==
    ASSUME NEW r \in Requests, AuthInv, JoinFlight(r)
    PROVE  AuthInv'
<1> USE DEF AuthInv, rows
<1>t. call \in [Requests -> Calls] /\ call[r].pc = "miss"
    BY DEF AuthTypeOK, Calls, JoinFlight
<1>c. /\ call' \in [Requests -> Calls] /\ call'[r].pc = "flying"
      /\ call'[r].by = (IF flight = None THEN "own" ELSE "other")
      /\ \A s \in Requests \ {r} : call'[s] = call[s]
    BY <1>t DEF JoinFlight, Calls
<1>u. /\ UNCHANGED <<database, changes, entry, running, queued>> /\ Remember
      /\ flight' = (IF flight = None THEN [next |-> "key", found |-> None] ELSE flight)
    BY DEF JoinFlight
<1>f. /\ flight' \in Flights /\ flight' # None
      /\ flight = None => flight'.next = "key"
    BY <1>u, AuthAssumption DEF AuthTypeOK, Flights, Cached
<1>a. Arrived' \subseteq Arrived
    BY <1>c, <1>t DEF Arrived, Answered, Awaited
<1>1. AuthTypeOK'
    BY <1>c, <1>f, <1>u, Remembered DEF AuthTypeOK, Calls
<1>2. Awaited'
    BY <1>c, <1>f, <1>u DEF Awaited
<1>3. RowsInOrder'
    BY <1>a, <1>u, SameRows, Remembered
<1>4. VerdictIsCurrent'
  <2>1. ASSUME NEW s \in Requests, call'[s].pc = "checking"
        PROVE  call[s].pc = "checking" /\ then'[s] = then[s] /\ since'[s] = since[s]
    <3>1. call'[s] = call[s] /\ call[s].by = "check"
        BY <1>c, <2>1 DEF Awaited
    <3>2. s \in Arrived'
        BY <2>1, <3>1 DEF Arrived, Answered
    <3> QED
        BY <3>1, <3>2, <2>1, <1>u, Remembered
  <2>2. ASSUME NEW s \in Requests, call'[s].pc = "flying", call'[s].by = "own"
        PROVE  /\ then'[s] = then[s] /\ since'[s] = since[s]
               /\ flight'.next = "key" \/ (call[s] = call'[s] /\ flight' = flight)
    <3>1. s \in Arrived'
        BY <2>2 DEF Arrived, Answered
    <3>2. then'[s] = then[s] /\ since'[s] = since[s]
        BY <3>1, <1>u, Remembered
    <3>3. CASE s = r
      <4>1. flight = None
          BY <3>3, <2>2, <1>c
      <4>2. flight'.next = "key"
          BY <4>1, <1>f
      <4> QED
          BY <3>2, <4>2
    <3>4. CASE s # r
        BY <3>2, <3>4, <2>2, <1>c, <1>u DEF Awaited
    <3> QED
        BY <3>3, <3>4
  <2> QED
      BY <2>1, <2>2, <1>u DEF VerdictIsCurrent, Checking, RoleGiven
<1> QED
    BY <1>1, <1>2, <1>3, <1>4

LEMMA VerifyKeyInv ==
    ASSUME AuthInv, VerifyKey
    PROVE  AuthInv'
<1> DEFINE Live == database.workspace /\ (database.kind = "additional" => database.key /\ database.agent)
<1>1. /\ UNCHANGED <<rows, entry, call, running, queued, history>> /\ flight # None
      /\ flight \in Flights
    BY DEF VerifyKey, Verifying, AuthInv, AuthTypeOK
<1>2. CASE Live
  <2>1. /\ flight' = [flight EXCEPT !.next = "grant"]
        /\ flight' \in Flights /\ flight'.next = "grant"
      BY <1>1, <1>2 DEF VerifyKey, Flights
  <2>2. ASSUME NEW r \in Requests, call[r].pc = "flying", call[r].by = "own"
        PROVE  Presented(then[r])
    <3>1. then[r] \in Databases /\ Earlier(then[r], database)
        BY <2>2, OwnArrived, ArrivedEarlier
    <3> QED
        BY <1>2, <3>1 DEF Earlier, Presented
  <2> QED
      BY <1>1, <2>1, <2>2, VerifyStep
<1>3. CASE ~Live
    BY <1>1, <1>3, DeniedStep DEF VerifyKey
<1> QED
    BY <1>2, <1>3

LEMMA VerifyGrantInv ==
    ASSUME AuthInv, VerifyGrant
    PROVE  AuthInv'
<1> DEFINE additional == database.kind = "additional"
           found == [role |-> database.grant, digest |-> NoDigest, granted |-> TRUE]
<1>1. /\ UNCHANGED <<rows, entry, call, running, queued, history>> /\ flight # None
      /\ flight \in Flights /\ database \in Databases /\ flight.next = "grant"
    BY DEF VerifyGrant, Verifying, AuthInv, AuthTypeOK
<1>p. ASSUME NEW r \in Requests, call[r].pc = "flying", call[r].by = "own"
      PROVE  Presented(then[r])
    BY <1>1, <1>p DEF AuthInv, VerdictIsCurrent
<1>2. CASE (additional \/ database.matches) /\ database.grant # Revoked
  <2>1. flight' = [next |-> IF additional THEN "store" ELSE "agent", found |-> found]
      BY <1>2 DEF VerifyGrant
  <2>2. found \in Agents /\ found # None
    <3>1. database.grant \in Roles /\ NoDigest \in Digests
        BY <1>1, <1>2, AuthAssumption DEF Databases, Digests, NoDigest
    <3>2. found \in Agents
        BY <3>1 DEF Agents
    <3> QED
        BY <3>2, AuthAssumption
  <2>3. /\ flight' \in Flights /\ flight'.found = found
        /\ flight'.next = IF additional THEN "store" ELSE "agent"
      BY <2>1, <2>2 DEF Flights, Cached
  <2>4. ASSUME NEW r \in Requests, call[r].pc = "flying", call[r].by = "own"
        PROVE  /\ Presented(then[r]) /\ Resolved(then[r]) /\ RoleGiven(found, r)
               /\ additional => then[r].agent
    <3>1. /\ then[r] \in Databases /\ Earlier(then[r], database)
          /\ Given(database.grant) \subseteq since[r]
        BY <2>4, OwnArrived, ArrivedEarlier
    <3>2. Presented(then[r])
        BY <2>4, <1>p
    <3>3. Original(then[r])
      <4>1. CASE additional
          BY <3>1, <4>1 DEF Earlier, Original
      <4>2. CASE ~additional
        <5>1. Original(database)
            BY <1>2, <4>2 DEF AuthInv, RowsInOrder
        <5> QED
            BY <1>1, <3>1, <5>1, OriginalEarlier
      <4> QED
          BY <4>1, <4>2
    <3>4. then[r].kind = "guest" => then[r].matches
        BY <1>2, <3>1 DEF Earlier
    <3>5. RoleGiven(found, r)
        BY <1>1, <1>2, <3>1 DEF RoleGiven, Given, Databases
    <3>6. additional => then[r].agent
        BY <3>1, <3>2 DEF Earlier, Presented
    <3> QED
        BY <3>2, <3>3, <3>4, <3>5, <3>6 DEF Resolved
  <2> HIDE DEF found, additional
  <2>5. flight'.next \in {"store", "agent"} /\ (flight'.next = "store" => additional)
      BY <2>3
  <2> QED
      BY <1>1, <2>2, <2>3, <2>4, <2>5, VerifyStep
<1>3. CASE ~(additional \/ database.matches) /\ database.kind = "home"
  <2>1. flight' = [flight EXCEPT !.next = "legacy"]
      BY <1>3 DEF VerifyGrant
  <2>2. flight' \in Flights /\ flight'.next = "legacy"
      BY <1>1, <2>1 DEF Flights
  <2> QED
      BY <1>1, <1>3, <1>p, <2>2, VerifyStep
<1>4. CASE /\ ~((additional \/ database.matches) /\ database.grant # Revoked)
           /\ ~(~(additional \/ database.matches) /\ database.kind = "home")
    BY <1>1, <1>4, DeniedStep DEF VerifyGrant
<1> QED
    BY <1>2, <1>3, <1>4

LEMMA VerifyAgentInv ==
    ASSUME AuthInv, VerifyAgent
    PROVE  AuthInv'
<1>1. /\ UNCHANGED <<rows, entry, call, running, queued, history>> /\ flight # None
      /\ flight \in Flights /\ database \in Databases /\ flight.next = "agent"
      /\ flight.found \in Agents
    BY DEF VerifyAgent, Verifying, AuthInv, AuthTypeOK, Awaited, Flights, Cached
<1>2. CASE database.agent
  <2> DEFINE found == [flight.found EXCEPT !.digest = database.digest]
  <2>1. flight' = [flight EXCEPT !.next = "store", !.found = found]
      BY <1>2 DEF VerifyAgent
  <2>2. /\ found \in Agents /\ found # None /\ found.role = flight.found.role
        /\ found.granted = flight.found.granted
      BY <1>1, AuthAssumption DEF Agents, Databases
  <2> HIDE DEF found
  <2>3. flight' \in Flights /\ flight'.found = found /\ flight'.next = "store"
      BY <1>1, <2>1, <2>2 DEF Flights, Cached
  <2>4. ASSUME NEW r \in Requests, call[r].pc = "flying", call[r].by = "own"
        PROVE  Presented(then[r]) /\ Resolved(then[r]) /\ RoleGiven(found, r) /\ then[r].agent
    <3>1. Presented(then[r]) /\ Resolved(then[r]) /\ RoleGiven(flight.found, r)
        BY <1>1, <2>4 DEF AuthInv, VerdictIsCurrent
    <3>2. Earlier(then[r], database)
        BY <2>4, OwnArrived, ArrivedEarlier
    <3> QED
        BY <1>2, <2>2, <3>1, <3>2 DEF Earlier, RoleGiven
  <2> QED
      BY <1>1, <2>2, <2>3, <2>4, VerifyStep
<1>3. CASE ~database.agent
    BY <1>1, <1>3, DeniedStep DEF VerifyAgent
<1> QED
    BY <1>2, <1>3

LEMMA VerifyLegacyInv ==
    ASSUME NEW writes \in BOOLEAN, AuthInv, VerifyLegacy(writes)
    PROVE  AuthInv'
<1> DEFINE owns == database.agent /\ database.digest \in {NoDigest, 0}
           digest == IF writes THEN 0 ELSE database.digest
           login == [role |-> LegacyRole, digest |-> digest, granted |-> FALSE]
<1>1. /\ UNCHANGED <<changes, entry, call, running, queued, then, since>> /\ flight # None
      /\ database \in Databases /\ flight.next = "legacy" /\ database.kind = "home"
      /\ changes \in Nat
    BY AuthAssumption DEF VerifyLegacy, Verifying, AuthInv, AuthTypeOK, Awaited, history
<1>2. CASE owns
  <2>1. /\ flight' = [next |-> "store", found |-> login]
        /\ database' = [database EXCEPT !.digest = digest]
      BY <1>2 DEF VerifyLegacy
  <2>2. digest \in {NoDigest, 0} /\ digest \in Digests /\ database.digest <= digest /\ digest <= changes
    <3>1. NoDigest \in Digests /\ 0 \in Digests /\ NoDigest <= 0 /\ 0 <= changes /\ NoDigest <= changes
          /\ 0 <= 0 /\ NoDigest <= NoDigest
        BY <1>1, AuthAssumption DEF Digests, NoDigest
    <3> QED
        BY <1>2, <3>1
  <2>3. login \in Agents /\ login # None /\ login.granted = FALSE
    <3>1. login \in Agents
        BY <2>2, AuthAssumption DEF Agents
    <3> QED
        BY <3>1, AuthAssumption
  <2> HIDE DEF login, digest
  <2>4. flight' \in Flights /\ flight' # None /\ flight'.found = login /\ flight'.next = "store"
      BY <2>1, <2>3, AuthAssumption DEF Flights, Cached
  <2>5. /\ database' \in Databases /\ database'.digest = digest
        /\ database'.kind = database.kind /\ database'.workspace = database.workspace
        /\ database'.agent = database.agent /\ database'.key = database.key
        /\ database'.matches = database.matches /\ database'.grant = database.grant
      BY <1>1, <2>1, <2>2 DEF Databases
  <2>6. ASSUME NEW r \in Arrived
        PROVE  then[r] \in Databases /\ Earlier(then[r], database) /\ Earlier(then[r], database')
    <3>1. then[r] \in Databases /\ Earlier(then[r], database)
        BY ArrivedEarlier
    <3>2. then[r].digest <= digest
      <4>1. \A d \in Digests : d \in Int
          BY DEF Digests, NoDigest
      <4>2. /\ then[r].digest \in Int /\ database.digest \in Int /\ digest \in Int
            /\ then[r].digest <= database.digest
          BY <1>1, <3>1, <2>2, <4>1 DEF Databases, Earlier
      <4> QED
          BY <4>2, <2>2
    <3> QED
        BY <3>1, <3>2, <2>5 DEF Earlier
  <2>7. Original(database)
      BY <1>2 DEF Original
  <2>8. AuthTypeOK'
      BY <1>1, <2>4, <2>5 DEF AuthInv, AuthTypeOK
  <2>9. Awaited'
      BY <1>1, <2>3, <2>4, <2>5 DEF AuthInv, Awaited
  <2>10. RowsInOrder'
    <3>1. Arrived' = Arrived
        BY <1>1 DEF Arrived
    <3>2. database'.digest <= changes' /\ Original(database')
        BY <1>1, <2>2, <2>5 DEF Original
    <3> QED
        BY <1>1, <2>5, <2>6, <3>1, <3>2 DEF AuthInv, RowsInOrder
  <2>11. VerdictIsCurrent'
    <3>1. ASSUME NEW r \in Requests, call[r].pc = "flying", call[r].by = "own"
          PROVE  Presented(then[r]) /\ Resolved(then[r]) /\ then[r].agent
      <4>1. then[r] \in Databases /\ Earlier(then[r], database)
          BY <2>6, <3>1, OwnArrived
      <4>2. Presented(then[r])
          BY <1>1, <3>1 DEF AuthInv, VerdictIsCurrent
      <4>3. Original(then[r])
          BY <1>1, <2>7, <4>1, OriginalEarlier
      <4>4. then[r].kind = "home"
          BY <1>1, <4>1 DEF Earlier
      <4> QED
          BY <1>2, <4>1, <4>2, <4>3, <4>4 DEF Resolved, Earlier
    <3> QED
        BY <1>1, <2>3, <2>4, <3>1 DEF AuthInv, VerdictIsCurrent, Checking, Vouched, RoleGiven
  <2> QED
      BY <2>8, <2>9, <2>10, <2>11 DEF AuthInv
<1>3. CASE ~owns
    BY <1>1, <1>3, DeniedStep DEF VerifyLegacy, rows, history
<1> QED
    BY <1>2, <1>3

LEMMA VerifyFailsInv ==
    ASSUME AuthInv, VerifyFails
    PROVE  AuthInv'
BY DeniedStep DEF VerifyFails, Verifying

LEMMA StoreVerifiedInv ==
    ASSUME AuthInv, StoreVerified
    PROVE  AuthInv'
<1> USE DEF AuthInv, rows, history
<1>1. /\ UNCHANGED <<database, changes, call, running, queued, then, since>> /\ flight # None
      /\ flight \in Flights /\ flight.next = "store" /\ entry' = flight.found
      /\ flight' = [flight EXCEPT !.next = "stored"]
    BY DEF StoreVerified, Verifying, AuthTypeOK
<1>2. /\ flight' \in Flights /\ flight' # None /\ flight'.next = "stored"
      /\ flight'.found = flight.found /\ entry' \in Cached
    BY <1>1, AuthAssumption DEF Flights
<1>3. AuthTypeOK'
    BY <1>1, <1>2 DEF AuthTypeOK
<1>4. Awaited'
    BY <1>1, <1>2 DEF Awaited
<1>5. RowsInOrder'
    BY <1>1, SameRows DEF Arrived
<1>6. VerdictIsCurrent'
    BY <1>1, <1>2 DEF VerdictIsCurrent, Checking, RoleGiven
<1> QED
    BY <1>3, <1>4, <1>5, <1>6

\* Requests leave what they waited for, and the verification may end with them.
LEMMA LeaveStep ==
    ASSUME AuthInv, UNCHANGED <<rows, entry, running, queued>>, Remember,
           call' \in [Requests -> Calls],
           \A r \in Requests :
             \/ call'[r] = call[r]
             \/ /\ call'[r].pc \in Answered \cup {"stale"} /\ call'[r].by = "check"
                /\ call'[r].pc = "stale" => call[r].pc \in {"checking", "queued"},
           \/ flight' = flight
           \/ flight' = None /\ (\A r \in Requests : call'[r].pc # "flying")
    PROVE  AuthInv'
<1> USE DEF AuthInv, rows
<1>a. Arrived' \subseteq Arrived
  <2>1. ASSUME NEW r \in Arrived' PROVE r \in Arrived
    <3>1. CASE call'[r] = call[r]
        BY <3>1 DEF Arrived
    <3>2. CASE call[r].pc \in {"checking", "queued"}
        BY <3>2 DEF Arrived, Answered, Awaited
    <3> QED
        BY <3>1, <3>2 DEF Arrived, Answered
  <2> QED
      BY <2>1
<1>s. ASSUME NEW r \in Requests, call'[r].pc \in {"hit", "checking", "queued", "flying"}
      PROVE  call'[r] = call[r]
    BY <1>s DEF Answered
<1>k. ASSUME NEW r \in Requests, call'[r].pc \in {"hit", "checking", "queued", "flying"},
             call'[r].by # "other"
      PROVE  then'[r] = then[r] /\ since'[r] = since[r]
    BY <1>k, Remembered DEF Arrived, Answered
<1>1. AuthTypeOK'
    BY AuthAssumption, Remembered DEF AuthTypeOK, Calls
<1>2. Awaited'
  <2>1. ASSUME NEW r \in Requests PROVE call'[r].pc = "flying" <=> call'[r].by # "check"
      BY DEF Awaited, Answered
  <2> QED
      BY <1>s, <2>1 DEF Awaited
<1>3. RowsInOrder'
    BY <1>a, SameRows, Remembered
<1>4. VerdictIsCurrent'
  <2>1. ASSUME NEW r \in Requests, call'[r].pc = "checking"
        PROVE  call[r].pc = "checking" /\ then'[r] = then[r] /\ since'[r] = since[r]
      BY <1>s, <1>k, <2>1 DEF Awaited
  <2>2. ASSUME NEW r \in Requests, call'[r].pc = "flying", call'[r].by = "own"
        PROVE  /\ call[r].pc = "flying" /\ call[r].by = "own" /\ flight' = flight
               /\ then'[r] = then[r] /\ since'[r] = since[r]
      BY <1>s, <1>k, <2>2
  <2> QED
      BY <2>1, <2>2 DEF VerdictIsCurrent, Checking, RoleGiven
<1> QED
    BY <1>1, <1>2, <1>3, <1>4

\* What a request is that leaves.
LEMMA LeftCall ==
    ASSUME NEW pc \in Answered \cup {"stale"}
    PROVE  Left(pc) \in Calls /\ Left(pc).pc = pc /\ Left(pc).by = "check"
BY DEF Left, Calls, Cached

LEMMA EndFlightInv ==
    ASSUME AuthInv, EndFlight
    PROVE  AuthInv'
<1>1. call \in [Requests -> Calls]
    BY DEF AuthInv, AuthTypeOK, Calls
<1> DEFINE Result == IF flight.next = "stored" THEN "accepted" ELSE "denied"
<1>2. Result \in Answered
    BY DEF Answered
<1>3. call' = [r \in Requests |-> IF call[r].pc # "flying" THEN call[r] ELSE Left(Result)]
    BY DEF EndFlight
<1> HIDE DEF Result
<1>4. /\ Left(Result) \in Calls /\ Left(Result).pc = Result /\ Left(Result).by = "check"
      /\ Result # "flying"
    BY <1>2, LeftCall DEF Answered
<1>5. call' \in [Requests -> Calls]
    BY <1>1, <1>3, <1>4
<1>6. \A r \in Requests : /\ call'[r].pc # "flying"
                          /\ \/ call'[r] = call[r]
                             \/ call'[r].pc \in Answered /\ call'[r].by = "check"
    BY <1>1, <1>2, <1>3, <1>4
<1> QED
    BY <1>5, <1>6, LeaveStep DEF EndFlight, Answered

LEMMA GiveUpInv ==
    ASSUME NEW r \in Requests, AuthInv, GiveUp(r)
    PROVE  AuthInv'
<1>1. call \in [Requests -> Calls]
    BY DEF AuthInv, AuthTypeOK, Calls
<1> DEFINE Result == IF call[r].pc = "flying" THEN "denied" ELSE "stale"
<1>2. /\ Result \in Answered \cup {"stale"}
      /\ Result = "stale" => call[r].pc \in {"checking", "queued"}
    BY DEF GiveUp, Answered
<1>3. call' = [call EXCEPT ![r] = Left(Result)]
    BY DEF GiveUp
<1> HIDE DEF Result
<1>4. Left(Result) \in Calls /\ Left(Result).pc = Result /\ Left(Result).by = "check"
    BY <1>2, LeftCall
<1>5. call' \in [Requests -> Calls]
    BY <1>1, <1>3, <1>4
<1>6. \A s \in Requests :
        \/ call'[s] = call[s]
        \/ /\ call'[s].pc \in Answered \cup {"stale"} /\ call'[s].by = "check"
           /\ call'[s].pc = "stale" => call[s].pc \in {"checking", "queued"}
    BY <1>1, <1>2, <1>3, <1>4
<1> QED
    BY <1>5, <1>6, LeaveStep DEF GiveUp

-----------------------------------------------------------------------------
(* The changes of the rows.                                                 *)

\* A change that loses rows only for good keeps every verdict.
LEMMA ChangeInv ==
    ASSUME NEW changed \in Databases, AuthInv, Change(changed), Earlier(database, changed),
           changed.digest <= changes + 1, changed.matches => Original(changed)
    PROVE  AuthInv'
<1> USE DEF AuthInv
<1>1. /\ UNCHANGED <<entry, call, running, queued, flight, then>>
      /\ database' = changed /\ changes' = changes + 1 /\ changes' \in 0 .. MaxChanges
      /\ database \in Databases
    BY AuthAssumption DEF Change, AuthTypeOK
<1>2. ASSUME NEW r \in Requests
      PROVE  since'[r] = IF r \in Arrived THEN since[r] \cup Given(changed.grant) ELSE since[r]
    BY DEF Change
<1>3. since' \in [Requests -> SUBSET Roles]
    BY DEF AuthTypeOK, Change, Given
<1>4. \A r \in Requests : since[r] \subseteq since'[r]
    BY <1>2
<1>5. AuthTypeOK'
    BY <1>1, <1>3 DEF AuthTypeOK
<1>6. Awaited'
    BY <1>1 DEF Awaited, Earlier
<1>7. RowsInOrder'
  <2>1. ASSUME NEW r \in Arrived'
        PROVE  /\ then'[r] # None /\ Earlier(then'[r], database')
               /\ Given(database'.grant) \subseteq since'[r]
    <3>1. r \in Arrived /\ r \in Requests
        BY <1>1, <2>1 DEF Arrived
    <3>2. then[r] \in Databases /\ Earlier(then[r], database) /\ then[r] # None
        BY <3>1, ArrivedEarlier, AuthAssumption
    <3>3. then[r].digest <= changed.digest
      <4>1. \A d \in Digests : d \in Int
          BY DEF Digests, NoDigest
      <4>2. /\ then[r].digest \in Int /\ database.digest \in Int /\ changed.digest \in Int
            /\ then[r].digest <= database.digest /\ database.digest <= changed.digest
          BY <1>1, <3>2, <4>1 DEF Databases, Earlier
      <4> QED
          BY <4>2
    <3>4. Earlier(then[r], changed)
        BY <3>2, <3>3 DEF Earlier
    <3> QED
        BY <1>1, <1>2, <3>1, <3>2, <3>4
  <2> QED
      BY <1>1, <2>1 DEF RowsInOrder, Original
<1>8. VerdictIsCurrent'
    BY <1>1, <1>4 DEF VerdictIsCurrent, Checking, RoleGiven
<1> QED
    BY <1>5, <1>6, <1>7, <1>8

\* Rows and a connection's key that go for good, with the digest as it is.
LEMMA LossInv ==
    ASSUME NEW changed \in Databases, AuthInv, Change(changed),
           changed.kind = database.kind, changed.digest = database.digest,
           changed.workspace => database.workspace, changed.agent => database.agent,
           changed.key => database.key, changed.matches => database.matches
    PROVE  AuthInv'
<1>1. database.digest \in Int /\ changes \in Int /\ database.digest <= changes
    BY DEF AuthInv, AuthTypeOK, RowsInOrder, Databases, Digests, NoDigest
<1>2. Earlier(database, changed) /\ changed.digest <= changes + 1
    BY <1>1 DEF Earlier
<1>3. changed.matches => Original(changed)
    BY DEF Original, AuthInv, RowsInOrder
<1> QED
    BY <1>2, <1>3, ChangeInv

LEMMA RotateHomeGrantKeyInv ==
    ASSUME AuthInv, RotateHomeGrantKey
    PROVE  AuthInv'
<1> DEFINE changed == [database EXCEPT !.digest = changes + 1,
                                       !.matches = @ /\ database.kind # "home"]
<1>1. Change(changed)
    BY DEF RotateHomeGrantKey
<1>2. /\ database \in Databases /\ database.digest \in Int /\ changes \in Int
      /\ database.digest <= changes /\ changes + 1 \in Digests
    BY <1>1, AuthAssumption
    DEF AuthInv, AuthTypeOK, RowsInOrder, Databases, Digests, NoDigest, Change
<1>3. /\ changed \in Databases /\ changed.digest = changes + 1 /\ changed.kind = database.kind
      /\ changed.workspace = database.workspace /\ changed.agent = database.agent
      /\ changed.key = database.key
      /\ changed.matches => database.matches /\ database.kind # "home"
  <2>1. (database.matches /\ database.kind # "home") \in BOOLEAN
      OBVIOUS
  <2> QED
      BY <1>2, <2>1 DEF Databases
<1> HIDE DEF changed
<1>4. Earlier(database, changed) /\ changed.digest <= changes + 1
    BY <1>2, <1>3 DEF Earlier
<1>5. changed.matches => Original(changed)
    BY <1>3 DEF Original
<1> QED
    BY <1>1, <1>3, <1>4, <1>5, ChangeInv

LEMMA ElsewhereInv ==
    ASSUME AuthInv, Elsewhere
    PROVE  AuthInv'
<1>t. database \in Databases
    BY DEF AuthInv, AuthTypeOK
<1>1. ASSUME NEW role \in Roles, UpdateRole(role) PROVE AuthInv'
    BY <1>t, <1>1, LossInv DEF UpdateRole, Databases
<1>2. ASSUME NEW role \in Roles, Reactivate(role) PROVE AuthInv'
    BY <1>t, <1>2, LossInv DEF Reactivate, Databases
<1>3. CASE RevokeGrant
    BY <1>t, <1>3, LossInv DEF RevokeGrant, Databases
<1>4. CASE RevokeKey
    BY <1>t, <1>4, LossInv DEF RevokeKey, Databases
<1>5. CASE DeleteAgent
    BY <1>t, <1>5, LossInv DEF DeleteAgent, Databases
<1>6. CASE DeleteWorkspace
    BY <1>t, <1>6, LossInv DEF DeleteWorkspace, Databases
<1> QED
    BY <1>1, <1>2, <1>3, <1>4, <1>5, <1>6, RotateHomeGrantKeyInv DEF Elsewhere

LEMMA InvalidateInv ==
    ASSUME AuthInv, Invalidate
    PROVE  AuthInv'
<1> USE DEF AuthInv, rows, history
<1>1. UNCHANGED <<database, changes, call, running, queued, flight, then, since>> /\ entry' = None
    BY DEF Invalidate
<1>2. AuthTypeOK'
    BY <1>1 DEF AuthTypeOK, Cached
<1>3. Awaited'
    BY <1>1 DEF Awaited
<1>4. RowsInOrder'
    BY <1>1, SameRows DEF Arrived
<1>5. VerdictIsCurrent'
    BY <1>1 DEF VerdictIsCurrent, Checking, RoleGiven
<1> QED
    BY <1>2, <1>3, <1>4, <1>5

-----------------------------------------------------------------------------
(* Every step, and the theorems.                                            *)

LEMMA StepAuth == AuthInv /\ [Next]_vars => AuthInv'
<1> SUFFICES ASSUME AuthInv, [Next]_vars PROVE AuthInv'
    OBVIOUS
<1>1. ASSUME NEW r \in Requests, Lookup(r) \/ Authenticate(r) \/ GiveUp(r) PROVE AuthInv'
    BY <1>1, LookupInv, JoinCheckInv, EvictInv, JoinFlightInv, GiveUpInv DEF Authenticate
<1>2. CASE Background
    BY <1>2, CheckKeyInv, CheckGrantInv, CheckFailsInv, RunValidBatchInv, VerifyKeyInv, VerifyGrantInv,
       VerifyAgentInv, VerifyLegacyInv, VerifyFailsInv, StoreVerifiedInv, EndFlightInv DEF Background
<1>3. CASE UNCHANGED vars
  <2>1. UNCHANGED <<database, changes, entry, call, running, queued, flight, then, since>>
      BY <1>3 DEF vars
  <2>2. AuthTypeOK' /\ Awaited'
      BY <2>1 DEF AuthInv, AuthTypeOK, Awaited
  <2>3. RowsInOrder'
      BY <2>1, SameRows DEF AuthInv, Arrived
  <2>4. VerdictIsCurrent'
      BY <2>1 DEF AuthInv, VerdictIsCurrent, Checking, RoleGiven
  <2> QED
      BY <2>2, <2>3, <2>4 DEF AuthInv
<1> QED
    BY <1>1, <1>2, <1>3, ElsewhereInv, InvalidateInv DEF Next

\* The rows keep their order, nobody waits for nothing, and a verdict under way vouches,
\* for each of those who wait for it, for what was read at that request's arrival.
THEOREM AuthInvariant == Spec => []AuthInv
<1> QED
    BY InitAuth, StepAuth, PTL DEF Spec

-----------------------------------------------------------------------------
(* Who is accepted.                                                         *)

\* An accepted request leaves a check found valid or a verification that was stored, or
\* was accepted before.
LEMMA AcceptedFrom ==
    ASSUME AuthInv, [Next]_vars, NEW r \in Requests, Accepts(r)
    PROVE  \/ call[r].pc = "checking" /\ Checking("valid") /\ call[r].by = "check"
           \/ call[r].pc = "flying" /\ flight.next = "stored" /\ call[r].by \in {"own", "other"}
<1>t. call \in [Requests -> Calls]
    BY DEF AuthInv, AuthTypeOK, Calls
<1>a. call[r].pc # "accepted" /\ call'[r].pc = "accepted"
    BY DEF Accepts
<1>1. ASSUME NEW s \in Requests, Lookup(s) \/ Authenticate(s) PROVE FALSE
    BY <1>t, <1>a, <1>1 DEF Authenticate, Lookup, JoinCheck, Evict, JoinFlight, Calls
<1>2. ASSUME NEW s \in Requests, GiveUp(s) PROVE FALSE
    BY <1>t, <1>a, <1>2 DEF GiveUp, Left
<1>3. ASSUME call' = call PROVE FALSE
    BY <1>a, <1>3
<1>4. CASE RunValidBatch
  <2>1. call[r].pc = "queued" => call'[r].pc = "checking"
      BY <1>4, <1>t DEF RunValidBatch, Published, Calls
  <2>2. call[r].pc = "checking" /\ running.verdict = "valid"
      BY <1>4, <1>a, <2>1 DEF RunValidBatch, Published, Left
  <2> QED
      BY <1>4, <2>2 DEF RunValidBatch, Judged, Checking, AuthInv, Awaited
<1>5. CASE EndFlight
  <2>1. call[r].pc = "flying" /\ flight.next = "stored"
      BY <1>5, <1>a DEF EndFlight, Left
  <2> QED
      BY <1>t, <2>1 DEF AuthInv, Awaited, Calls
<1> QED
    BY <1>1, <1>2, <1>3, <1>4, <1>5
    DEF Next, Background, Elsewhere, Change, UpdateRole, RevokeGrant, Reactivate, RevokeKey,
        RotateHomeGrantKey, DeleteAgent, DeleteWorkspace, Invalidate, CheckKey, CheckGrant, CheckFails,
        VerifyKey, VerifyGrant, VerifyAgent, VerifyLegacy, VerifyFails, StoreVerified, vars

\* A request that arrives after its key died is not accepted on a hit, as far as the check
\* reads, nor on a verification of its own.
THEOREM RevokedRefused == Spec => RevokedKeyRefused
<1>1. ASSUME AuthInv, [Next]_vars, NEW r \in Requests, Accepts(r)
      PROVE  /\ call[r].by = "check" =>
                  Vouched(running.agent, then[r]) /\ (running.agent.granted => since[r] # {})
             /\ call[r].by = "own" =>
                  Resolved(then[r]) /\ then[r].agent /\ (flight.found.granted => since[r] # {})
  <2>1. CASE call[r].pc = "checking" /\ Checking("valid") /\ call[r].by = "check"
      BY <1>1, <2>1 DEF AuthInv, VerdictIsCurrent, RoleGiven
  <2>2. CASE call[r].pc = "flying" /\ flight.next = "stored" /\ call[r].by \in {"own", "other"}
      BY <1>1, <2>2 DEF AuthInv, VerdictIsCurrent, RoleGiven
  <2> QED
      BY <1>1, <2>1, <2>2, AcceptedFrom
<1>2. AuthInv /\ [Next]_vars => [\A r \in Requests : Accepts(r) => 
          /\ call[r].by = "check" =>
               Vouched(running.agent, then[r]) /\ (running.agent.granted => since[r] # {})
          /\ call[r].by = "own" =>
               Resolved(then[r]) /\ then[r].agent /\ (flight.found.granted => since[r] # {})]_vars
    BY <1>1
<1> QED
    BY <1>2, AuthInvariant, PTL DEF Spec, RevokedKeyRefused

\* Whoever is accepted by a check of its own agent, or by its own verification, acts in a
\* role that the connection gave since the request arrived.
THEOREM CheckedRolesApply == Spec => CheckedRoleApplies
<1>1. ASSUME AuthInv, [Next]_vars, NEW r \in Requests, Accepts(r)
      PROVE  \/ call[r].by = "other"
             \/ call[r].by = "check" /\ call[r].agent # running.agent
             \/ RoleGiven(Returned(r), r)
  <2>1. CASE call[r].pc = "checking" /\ Checking("valid") /\ call[r].by = "check"
      BY <1>1, <2>1 DEF AuthInv, VerdictIsCurrent, Returned
  <2>2. CASE call[r].pc = "flying" /\ flight.next = "stored" /\ call[r].by \in {"own", "other"}
      BY <1>1, <2>2 DEF AuthInv, VerdictIsCurrent, Returned
  <2> QED
      BY <1>1, <2>1, <2>2, AcceptedFrom
<1>2. AuthInv /\ [Next]_vars => [\A r \in Requests : Accepts(r) => 
          \/ call[r].by = "other"
          \/ call[r].by = "check" /\ call[r].agent # running.agent
          \/ RoleGiven(Returned(r), r)]_vars
    BY <1>1
<1> QED
    BY <1>2, AuthInvariant, PTL DEF Spec, CheckedRoleApplies
=============================================================================
