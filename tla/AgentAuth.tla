----------------------------- MODULE AgentAuth -----------------------------
(***************************************************************************)
(* Authentication of an agent's requests on one API instance: the cache of *)
(* verified keys in front of the bcrypt comparison, for one presented key  *)
(* of an agent that has a connection to the workspace.                     *)
(* A hit is re-checked against the database, concurrent re-checks share a  *)
(* run of the check, and concurrent misses share one full verification.    *)
(*                                                                         *)
(* The check and the verification read different rows, in different        *)
(* orders, while any process may change them.  The check never reads       *)
(* whether the agent is deleted, nor whose key the connection holds now.   *)
(***************************************************************************)
EXTENDS Integers, FiniteSets

CONSTANTS
    Requests,    \* requests carrying the key
    Roles,       \* the roles a connection may give
    LegacyRole,  \* the role of a login without a connection
    Kinds,       \* the kinds of key considered
    MaxChanges,  \* bound on changes made to the database
    Revoked, None

\* An additional key; the agent's original key, in its home workspace; the key of an
\* agent's connection to another workspace.
AllKinds == {"additional", "home", "guest"}

\* The digest of the agent's original key as its row stores it: none, that of the first
\* key, or the one written by a change, named by its number.
NoDigest == -1
Digests == NoDigest .. MaxChanges

\* What Authenticate returns: the role, the digest in the agent's row, and whether the
\* login was resolved through a connection.
Agents == [role : Roles, digest : Digests, granted : BOOLEAN]
Cached == Agents \cup {None}

Databases == [kind : AllKinds, workspace : BOOLEAN, agent : BOOLEAN, key : BOOLEAN,
              matches : BOOLEAN, digest : Digests, grant : Roles \cup {Revoked}]

\* validBatch, and a call of the singleflight group.
Batches == [agent : Agents, verdict : {"unknown", "keyed", "valid", "invalid"}]
Flights == [next : {"key", "grant", "agent", "legacy", "store", "stored", "denied"},
            found : Cached]

ASSUME AuthAssumption ==
    /\ MaxChanges \in Nat /\ Kinds \subseteq AllKinds
    /\ LegacyRole \in Roles /\ Revoked \notin Roles
    /\ None \notin Databases /\ None \notin Agents /\ None \notin Batches /\ None \notin Flights

VARIABLES
    database,  \* the rows: workspace, agent and additional key live, the connection's role
               \* or Revoked, whether it holds the presented key, the agent's digest
    changes,   \* how often they changed
    entry,     \* the cached agent, or None
    call,      \* where each request is in Authenticate, the agent it would return, and
               \* whether by a check, its own verification or another request's
    running,   \* the check being run, for the requests at "checking"
    queued,    \* the agent of the check to be run next, for those at "queued", or None
    flight,    \* the verification under way, for those at "flying"
    then,      \* history: the rows as they were when each request under way arrived
    since      \* history: the roles the connection gave since then

vars == <<database, changes, entry, call, running, queued, flight, then, since>>
rows == <<database, changes>>
history == <<then, since>>

Answered == {"accepted", "denied"}
Arrived == {r \in Requests : call[r].pc \notin {"new"} \cup Answered /\ call[r].by # "other"}


\* A request leaves its check or its verification, with no use for what it was found.
Left(pc) == [pc |-> pc, agent |-> None, by |-> "check"]
\* The histories are kept of the requests under way that wait for none but themselves.
Remember ==
    LET kept == {r \in Requests : call'[r].pc \notin Answered /\ call'[r].by # "other"}
    IN /\ then' = [r \in Requests |-> IF r \in kept THEN then[r] ELSE None]
       /\ since' = [r \in Requests |-> IF r \in kept THEN since[r] ELSE {}]

\* The roles the connection gives: none while it is revoked.
Given(grant) == {grant} \cap Roles

-----------------------------------------------------------------------------
(* A hit and its check.                                                     *)

\* lookup: a hit hands out a copy of the cached agent.
Lookup(r) ==
    /\ call[r].pc = "new"
    /\ call' = [call EXCEPT ![r] =
                  IF entry = None THEN [@ EXCEPT !.pc = "miss"]
                                  ELSE [@ EXCEPT !.pc = "hit", !.agent = entry]]
    /\ then' = [then EXCEPT ![r] = database]
    /\ since' = [since EXCEPT ![r] = Given(database.grant)]
    /\ UNCHANGED <<rows, entry, running, queued, flight>>

Batch(agent) == [agent |-> agent, verdict |-> "unknown"]

\* Mutant of JoinCheck: a request joins the check that is already running.
JoinRunning(r) ==
    /\ call[r].pc = "hit"
    /\ running' = IF running = None THEN Batch(call[r].agent) ELSE running
    /\ call' = [call EXCEPT ![r].pc = "checking"]
    /\ UNCHANGED <<rows, entry, queued, flight, history>>

\* cachedAuthStillValidShared: a request joins the check that is queued, never the
\* running one, and opens it, with its own agent, when there is none.
JoinCheck(r) ==
    /\ call[r].pc = "hit"
    /\ running' = IF running = None THEN Batch(call[r].agent) ELSE running
    /\ queued' = IF running # None /\ queued = None THEN call[r].agent ELSE queued
    /\ call' = [call EXCEPT ![r].pc = IF running = None THEN "checking" ELSE "queued"]
    /\ UNCHANGED <<rows, entry, flight, history>>

\* IsAgentKeyRevoked, IsPrimaryKeyStale: an additional key by its row, any other by the
\* digest in the agent's row, deleted or not; a login without a digest is never stale.
KeyStands(agent) ==
    IF database.kind = "additional" THEN database.key
    ELSE agent.digest \in {NoDigest, database.digest}

Checking(verdict) == running # None /\ running.verdict = verdict

\* stillValidUncoalesced: the workspace and the key.
CheckKey ==
    /\ Checking("unknown")
    /\ running' = [running EXCEPT !.verdict =
                     IF database.workspace /\ KeyStands(running.agent) THEN "keyed" ELSE "invalid"]
    /\ UNCHANGED <<rows, entry, call, queued, flight, history>>

\* Mutant of CheckGrant: the role is not compared.
CheckGrantAnyRole ==
    /\ Checking("keyed")
    /\ running' = [running EXCEPT !.verdict =
                     IF running.agent.granted => database.grant # Revoked THEN "valid" ELSE "invalid"]
    /\ UNCHANGED <<rows, entry, call, queued, flight, history>>

\* GrantState: then the connection and its role, if the login has one.
CheckGrant ==
    /\ Checking("keyed")
    /\ running' = [running EXCEPT !.verdict =
                     IF running.agent.granted => database.grant = running.agent.role
                     THEN "valid" ELSE "invalid"]
    /\ UNCHANGED <<rows, entry, call, queued, flight, history>>

\* What it cannot read counts as invalid.
CheckFails ==
    /\ Checking("unknown") \/ Checking("keyed")
    /\ running' = [running EXCEPT !.verdict = "invalid"]
    /\ UNCHANGED <<rows, entry, call, queued, flight, history>>

Judged == Checking("valid") \/ Checking("invalid")

\* Those who wait for the running check get its verdict, those queued go to pc.
Published(pc) ==
    [r \in Requests |->
        CASE call[r].pc = "checking" ->
               Left(IF running.verdict = "valid" THEN "accepted" ELSE "stale")
          [] call[r].pc = "queued" -> [call[r] EXCEPT !.pc = pc]
          [] OTHER -> call[r]]

\* Mutant of RunValidBatch: the queued check is not started.
RunOnlyBatch ==
    /\ Judged
    /\ running' = None /\ UNCHANGED queued
    /\ call' = Published("queued") /\ Remember
    /\ UNCHANGED <<rows, entry, flight>>

\* The end of runValidBatch: the queued check starts, and the waiters of this one
\* get its verdict.
RunValidBatch ==
    /\ Judged
    /\ running' = IF queued = None THEN None ELSE Batch(queued)
    /\ queued' = None
    /\ call' = Published("checking") /\ Remember
    /\ UNCHANGED <<rows, entry, flight>>

\* A hit that did not pass its check is evicted, and the request goes on as a miss.
Evict(r) ==
    /\ call[r].pc = "stale"
    /\ entry' = None
    /\ call' = [call EXCEPT ![r] = [@ EXCEPT !.pc = "miss"]]
    /\ UNCHANGED <<rows, running, queued, flight, history>>

-----------------------------------------------------------------------------
(* A miss and its verification: agentService.Authenticate.                  *)

\* flight.DoChan: a miss starts a verification or joins the one under way.
JoinFlight(r) ==
    /\ call[r].pc = "miss"
    /\ flight' = IF flight = None THEN [next |-> "key", found |-> None] ELSE flight
    /\ call' = [call EXCEPT ![r] =
                  [@ EXCEPT !.pc = "flying", !.by = IF flight = None THEN "own" ELSE "other"]]
    /\ Remember
    /\ UNCHANGED <<rows, entry, running, queued>>

Verifying(next) == flight # None /\ flight.next = next
Denied == [next |-> "denied", found |-> None]

\* The workspace is live; of an additional key also its row and its agent.
VerifyKey ==
    /\ Verifying("key")
    /\ flight' = IF database.workspace /\ (database.kind = "additional" => database.key /\ database.agent)
                 THEN [flight EXCEPT !.next = "grant"] ELSE Denied
    /\ UNCHANGED <<rows, entry, call, running, queued, history>>

\* The connection: an additional key's agent has a live one; any other key is looked up
\* in it, and if it is nobody's, in the agents' rows.
VerifyGrant ==
    /\ Verifying("grant")
    /\ LET additional == database.kind = "additional"
       IN flight' =
            IF additional \/ database.matches
            THEN IF database.grant = Revoked THEN Denied
                 ELSE [next |-> IF additional THEN "store" ELSE "agent",
                       found |-> [role |-> database.grant, digest |-> NoDigest, granted |-> TRUE]]
            ELSE IF database.kind = "home" THEN [flight EXCEPT !.next = "legacy"] ELSE Denied
    /\ UNCHANGED <<rows, entry, call, running, queued, history>>

\* authenticateViaGrant: the agent is live; its digest is read with it, after the key.
VerifyAgent ==
    /\ Verifying("agent")
    /\ flight' = IF database.agent
                 THEN [flight EXCEPT !.next = "store", !.found.digest = database.digest] ELSE Denied
    /\ UNCHANGED <<rows, entry, call, running, queued, history>>

\* authenticateLegacy: the agent is live and the key its own; a missing digest is
\* written, if that succeeds.
VerifyLegacy(writes) ==
    /\ Verifying("legacy")
    /\ LET owns == database.agent /\ database.digest \in {NoDigest, 0}
           digest == IF writes THEN 0 ELSE database.digest
           login == [role |-> LegacyRole, digest |-> digest, granted |-> FALSE]
       IN /\ flight' = IF owns THEN [next |-> "store", found |-> login] ELSE Denied
          /\ database' = IF owns THEN [database EXCEPT !.digest = digest] ELSE database
    /\ UNCHANGED <<changes, entry, call, running, queued, history>>

\* An error denies, at any of these reads.
VerifyFails ==
    /\ \E next \in {"key", "grant", "agent", "legacy"} : Verifying(next)
    /\ flight' = Denied
    /\ UNCHANGED <<rows, entry, call, running, queued, history>>

\* store: only a success is cached.
StoreVerified ==
    /\ Verifying("store")
    /\ entry' = flight.found
    /\ flight' = [flight EXCEPT !.next = "stored"]
    /\ UNCHANGED <<rows, call, running, queued, history>>

\* The verification ends and everyone who joined it, up to now, gets its result.
EndFlight ==
    /\ Verifying("stored") \/ Verifying("denied")
    /\ call' = [r \in Requests |->
                  IF call[r].pc # "flying" THEN call[r]
                  ELSE Left(IF flight.next = "stored" THEN "accepted" ELSE "denied")]
    /\ flight' = None /\ Remember
    /\ UNCHANGED <<rows, entry, running, queued>>

\* A request's context ends: its check counts as failed, its verification as denied.
GiveUp(r) ==
    /\ call[r].pc \in {"checking", "queued", "flying"}
    /\ call' = [call EXCEPT ![r] = Left(IF @.pc = "flying" THEN "denied" ELSE "stale")]
    /\ Remember
    /\ UNCHANGED <<rows, entry, running, queued, flight>>

-----------------------------------------------------------------------------
(* What changes the rows, in this process or another.                       *)

Change(changed) ==
    /\ changes < MaxChanges /\ changes' = changes + 1
    /\ database' = changed
    /\ since' = [r \in Requests |->
                    IF r \in Arrived THEN since[r] \cup Given(changed.grant) ELSE since[r]]
    /\ UNCHANGED <<entry, call, running, queued, flight, then>>

\* UpdateRoleWithAudit: of a live connection only.
UpdateRole(role) ==
    /\ database.grant \notin {Revoked, role}
    /\ Change([database EXCEPT !.grant = role])

\* Revoke, of a connection.
RevokeGrant ==
    /\ database.grant # Revoked
    /\ Change([database EXCEPT !.grant = Revoked])

\* Reactivate: the same row lives again, with a role and key material of its own.
Reactivate(role) ==
    /\ database.grant = Revoked /\ database.workspace /\ database.agent
    /\ Change([database EXCEPT !.grant = role, !.matches = FALSE])

\* Revoke, of an additional key.
RevokeKey ==
    /\ database.kind = "additional" /\ database.key /\ database.agent
    /\ Change([database EXCEPT !.key = FALSE])

\* RotateHomeGrantKey, of a rotation or of a revoked original key: the agent's row and
\* its home connection get the new material.
RotateHomeGrantKey ==
    /\ database.kind # "additional" /\ database.agent /\ (database.kind = "home" => database.workspace)
    /\ Change([database EXCEPT !.digest = changes + 1,
                               !.matches = @ /\ database.kind # "home"])

DeleteAgent == database.agent /\ Change([database EXCEPT !.agent = FALSE])

DeleteWorkspace == database.workspace /\ Change([database EXCEPT !.workspace = FALSE])

\* The entry leaves the cache: InvalidateAgent after a rotation or a delete made
\* here, its ttl or the key's own expiry, or a purge of a full cache.
Invalidate ==
    /\ entry # None
    /\ entry' = None
    /\ UNCHANGED <<rows, call, running, queued, flight, history>>

-----------------------------------------------------------------------------
Init ==
    /\ database \in [kind : Kinds, workspace : {TRUE}, agent : {TRUE}, key : {TRUE}, matches : {TRUE},
                     digest : {NoDigest, 0}, grant : Roles \cup {Revoked}]
    /\ database.kind = "additional" => database.digest = NoDigest
    /\ changes = 0
    /\ entry \in {None} \cup [role : Roles, digest : {database.digest}, granted : {TRUE}]
    /\ call = [r \in Requests |-> [pc |-> "new", agent |-> None, by |-> "check"]]
    /\ running = None /\ queued = None /\ flight = None
    /\ then = [r \in Requests |-> None]
    /\ since = [r \in Requests |-> {}]

Authenticate(r) == JoinCheck(r) \/ Evict(r) \/ JoinFlight(r)

Background ==
    \/ CheckKey \/ CheckGrant \/ CheckFails \/ RunValidBatch
    \/ VerifyKey \/ VerifyGrant \/ VerifyAgent \/ (\E writes \in BOOLEAN : VerifyLegacy(writes))
    \/ VerifyFails \/ StoreVerified \/ EndFlight

Elsewhere ==
    \/ \E role \in Roles : UpdateRole(role) \/ Reactivate(role)
    \/ RevokeGrant \/ RevokeKey \/ RotateHomeGrantKey \/ DeleteAgent \/ DeleteWorkspace

Next ==
    \/ \E r \in Requests : Lookup(r) \/ Authenticate(r) \/ GiveUp(r)
    \/ Background
    \/ Elsewhere
    \/ Invalidate

Spec == Init /\ [][Next]_vars

\* Every goroutine that can go on does: the requests, the runs and the flight.
FairSpec ==
    /\ Spec
    /\ \A r \in Requests : WF_vars(Authenticate(r))
    /\ WF_vars(Background)

-----------------------------------------------------------------------------
(* Properties.                                                              *)

AuthTypeOK ==
    /\ database \in Databases /\ changes \in 0 .. MaxChanges
    /\ entry \in Cached
    /\ call \in [Requests -> [pc : {"new", "hit", "checking", "queued", "stale", "miss", "flying"} \cup Answered,
                              agent : Cached, by : {"check", "own", "other"}]]
    /\ running \in Batches \cup {None} /\ queued \in Cached
    /\ flight \in Flights \cup {None}
    /\ then \in [Requests -> Databases \cup {None}] /\ since \in [Requests -> SUBSET Roles]

\* Nobody waits for nothing: a check is queued only behind a running one, and a request
\* waits only for a check that runs or is queued, or a verification under way.
Awaited ==
    /\ queued # None => running # None
    /\ \A r \in Requests :
         /\ call[r].pc \in {"hit", "checking", "queued"} => call[r].agent # None
         /\ call[r].pc = "checking" => running # None
         /\ call[r].pc = "queued" => queued # None
         /\ call[r].pc = "flying" => flight # None
         /\ call[r].pc = "flying" <=> call[r].by # "check"
    /\ flight # None =>
         /\ flight.next \in {"agent", "store", "stored"} => flight.found # None
         /\ flight.next = "legacy" => database.kind = "home"

\* The rows as an earlier moment: all they lose is lost for good, and digests are new.
Earlier(at, now) ==
    /\ at.kind = now.kind /\ at.digest <= now.digest
    /\ now.workspace => at.workspace
    /\ now.agent => at.agent
    /\ now.key => at.key
    /\ now.matches => at.matches

\* The agent's row holds the presented key as the original one, if it ever did.
Original(at) == at.kind = "home" => at.digest \in {NoDigest, 0}

\* The rows' history: a key that a home connection holds is the original one.
RowsInOrder ==
    /\ database.digest <= changes
    /\ database.matches => Original(database)
    /\ \A r \in Arrived :
         then[r] # None /\ Earlier(then[r], database) /\ Given(database.grant) \subseteq since[r]

\* What the check of an agent vouches for: the workspace, an additional key, and an
\* original key if its digest is the one the login read.
Vouched(agent, at) ==
    /\ at.workspace
    /\ at.kind = "additional" => at.key
    /\ agent.digest = 0 => Original(at)

\* What a verification vouches for before it reads the agent's row, and after.
Presented(at) ==
    /\ at.workspace
    /\ at.kind = "additional" => at.key /\ at.agent
Resolved(at) == Presented(at) /\ Original(at) /\ (at.kind = "guest" => at.matches)

\* An agent acts in a role its connection, if it has one, gave since a request arrived.
RoleGiven(agent, r) == agent.granted => agent.role \in since[r]

\* A check vouches for what it read at the arrival of each request that waits for it,
\* and a verification at the arrival of the request that started it.
VerdictIsCurrent ==
    /\ \A r \in Requests : call[r].pc = "checking" =>
         /\ Checking("keyed") \/ Checking("valid") => Vouched(running.agent, then[r])
         /\ Checking("valid") => RoleGiven(running.agent, r)
    /\ \A r \in Requests : call[r].pc = "flying" /\ call[r].by = "own" =>
         /\ flight.next \in {"grant", "legacy", "agent", "store", "stored"} => Presented(then[r])
         /\ flight.next \in {"agent", "store", "stored"} =>
              Resolved(then[r]) /\ RoleGiven(flight.found, r)
         /\ flight.next \in {"store", "stored"} => then[r].agent

\* The inductive invariant of the authentication.
AuthInv == AuthTypeOK /\ Awaited /\ RowsInOrder /\ VerdictIsCurrent

\* A request is accepted, and gets the agent of its hit or of the verification.
Returned(r) == IF call[r].by = "check" THEN call[r].agent ELSE flight.found
Accepts(r) == call[r].pc # "accepted" /\ call'[r].pc = "accepted"

\* However many requests share its check, and although a verification that began earlier
\* may store the key again after it was invalidated, a request that arrives after its
\* key died is not accepted on the strength of the cache, as far as the check reads: the
\* workspace deleted, the additional key revoked, the original key replaced since the
\* login read its digest, the connection revoked and not renewed.  One that verified for
\* itself found all of the rows live after it arrived.  Those that joined another's
\* verification have no such guarantee, and no check sees that the agent was deleted, that
\* the connection was renewed for another key, or a login's missing or newer digest.
RevokedKeyRefused == [][
    \A r \in Requests : Accepts(r) =>
        /\ call[r].by = "check" =>
             Vouched(running.agent, then[r]) /\ (running.agent.granted => since[r] # {})
        /\ call[r].by = "own" =>
             Resolved(then[r]) /\ then[r].agent /\ (flight.found.granted => since[r] # {})]_vars

\* A role change applies to the next request as far as roles are compared: whoever is
\* accepted by a check of the agent it carries, or by its own verification, acts in a
\* role that the connection gave at some moment since the request arrived, however many
\* changes, evictions and shared runs come between.
CheckedRoleApplies == [][
    \A r \in Requests : Accepts(r) =>
        \/ call[r].by = "other"
        \/ call[r].by = "check" /\ call[r].agent # running.agent
        \/ RoleGiven(Returned(r), r)]_vars

\* Every request is eventually answered, so that again and again nobody waits: no check
\* is queued and never run.
RequestAnswered ==
    []<>(\A r \in Requests : call[r].pc \in {"new"} \cup Answered)

-----------------------------------------------------------------------------
(* What comments say of the code, refuted by it.                            *)

\* "a role change committed by any process must apply to the very next request on a
\* warm entry": a request accepted on a hit acts in a role that the connection gave at
\* some moment since the request arrived.
RoleAppliesToNext == [][
    \A r \in Requests : Accepts(r) /\ call[r].by = "check" => RoleGiven(call[r].agent, r)]_vars

\* Replacing the original key "must end a login on every API instance at once": no hit
\* with a digest is accepted for a request that arrives after the key was replaced.
ReplacedKeyRefused == [][
    \A r \in Requests :
        Accepts(r) /\ call[r].by = "check" /\ call[r].agent.digest # NoDigest => Original(then[r])]_vars
=============================================================================
