--------------------------- MODULE MCParkedWait ---------------------------
(* Small instances of ParkedWait for TLC. *)
EXTENDS ParkedWait, TLC
CONSTANTS a1, a2, b1, b2, w1, w2, r1, r2, t1, e1, e2
Interchangeable == Permutations(Agents) \cup Permutations(Waits) \cup Permutations(ReleaseIds)
                     \cup Permutations(Blockers)
===========================================================================
