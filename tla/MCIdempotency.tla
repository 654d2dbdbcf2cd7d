--------------------------- MODULE MCIdempotency ---------------------------
(* Small instances of Idempotency for TLC. *)
EXTENDS Idempotency, TLC
CONSTANTS r1, r2, r3
Interchangeable == Permutations(Requests)
===========================================================================
