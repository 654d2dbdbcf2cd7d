---------------------------- MODULE MCAgentAuth ----------------------------
(* Small instances of AgentAuth for TLC. *)
EXTENDS AgentAuth
CONSTANTS r1, r2, r3

\* Requests are alike, and are numbered as they arrive.
InOrder ==
    /\ call[r2].pc # "new" => call[r1].pc # "new"
    /\ call[r3].pc # "new" => call[r2].pc # "new"

\* Three requests with the original key, two with any other.
ThreeAtHome == call[r3].pc # "new" => database.kind = "home"

\* The cache is cold, or warm with the connection as it was then or revoked since, and
\* an original key has its digest.
FirstRows ==
    changes = 0 =>
        /\ database.grant \in {"viewer", Revoked}
        /\ entry # None => entry.role = "viewer"
        /\ database.kind = "home" => database.digest = 0

Bounds == InOrder /\ ThreeAtHome /\ FirstRows
===========================================================================
