-------------------------- MODULE MCTaskCheckout --------------------------
(* Small instances of TaskCheckout for TLC. *)
EXTENDS TaskCheckout, TLC
CONSTANTS c1, c2, r1, r2, a1, a2

\* Clients of two agents, and two clients (worker runs) of one agent.
TwoAgents == (c1 :> a1) @@ (c2 :> a2)
OneAgent == (c1 :> a1) @@ (c2 :> a1)
OneClient == c1 :> a1

\* The instance is unchanged by swapping the clients and their agents together.
SwapTwoAgents ==
    {(c1 :> c2) @@ (c2 :> c1) @@ (a1 :> a2) @@ (a2 :> a1)}
===========================================================================
