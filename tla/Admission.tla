----------------------------- MODULE Admission -----------------------------
(***************************************************************************)
(* What the reservation API promises a fleet of controllers that start     *)
(* processes on shared tasks, workers and pools: an attempt is admitted at *)
(* most once, alone on its task and worker and with slots of its own, what *)
(* it was given does not change as long as it is admitted, and a process   *)
(* starts and runs only while its attempt is.  RuntimeReservation          *)
(* implements this specification.                                          *)
(***************************************************************************)
EXTENDS Integers

CONSTANTS Attempts, Tasks, Workers, Pools

VARIABLES
    held,     \* what each admitted attempt occupies
    spent,    \* the attempts whose admission has ended
    process   \* "none", "live" or "gone"

vars == <<held, spent, process>>

Admitted == DOMAIN held
Holdings == [task : Tasks, worker : Workers, slots : SUBSET (Pools \X Nat)]

Apart(g, h) ==
    g.task # h.task /\ g.worker # h.worker /\ g.slots \cap h.slots = {}

\* An admission may end while no process relies on it.
MayEnd == {k \in Admitted : process[k] # "live"}

Init ==
    /\ held = [k \in {} |-> k]
    /\ spent = {}
    /\ process = [k \in Attempts |-> "none"]

\* Admitting one attempt may end others, whose places it may take at once.
Admit(k) ==
    /\ k \notin Admitted \cup spent
    /\ k \in Admitted' /\ held'[k] \in Holdings
    /\ \E over \in SUBSET MayEnd :
        /\ \A j \in Admitted \ over : Apart(held[j], held'[k])
        /\ held' = [j \in (Admitted \ over) \cup {k} |-> IF j = k THEN held'[k] ELSE held[j]]
        /\ spent' = spent \cup over
    /\ UNCHANGED process

EndAdmission(k) ==
    /\ k \in MayEnd
    /\ held' = [j \in Admitted \ {k} |-> held[j]]
    /\ spent' = spent \cup {k}
    /\ UNCHANGED process

Start(k) ==
    /\ k \in Admitted /\ process[k] = "none"
    /\ process' = [process EXCEPT ![k] = "live"]
    /\ UNCHANGED <<held, spent>>

\* The process is over, or will never start.
Exit(k) ==
    /\ k \in Admitted \cup spent
    /\ process[k] # "gone"
    /\ process' = [process EXCEPT ![k] = "gone"]
    /\ UNCHANGED <<held, spent>>

Next == \E k \in Attempts : Admit(k) \/ EndAdmission(k) \/ Start(k) \/ Exit(k)

Spec == Init /\ [][Next]_vars
=============================================================================
