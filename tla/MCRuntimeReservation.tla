----------------------- MODULE MCRuntimeReservation -----------------------
(* Small instances of RuntimeReservation.                                   *)
EXTENDS RuntimeReservation, TLC

CONSTANTS a1, a2, k1, k2, t1, t2, w1, w2, q1, q2, p1, p2

\* One attempt each.
KeyAgentsTwo == (k1 :> a1) @@ (k2 :> a2)
\* Two attempts of one agent.
KeyAgentsSame == (k1 :> a1) @@ (k2 :> a1)

OnePool == {{q1}}

Handlers == Permutations({p1, p2}) \cup Permutations({w1, w2})
\* The attempts of one agent and their tasks are interchangeable too.
Interchangeable == Handlers \cup Permutations({t1, t2}) \cup Permutations({k1, k2})

\* The saves of the catalog and of the two admissions, which count from 1.
Changes == catalog.revision + admission[a1].revision + admission[a2].revision - 3
\* Two checkouts of the task, one and a change, or two changes.
CheckoutsAndChanges == lease[t1].generation + Changes <= 2
=============================================================================
