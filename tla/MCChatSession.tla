-------------------------- MODULE MCChatSession ---------------------------
(* Small instances of ChatSession for TLC. *)
EXTENDS ChatSession, TLC
CONSTANTS m1, m2, r1, r2, b1, b2, b3

SwapBearers == Permutations(Bearers)
===========================================================================
