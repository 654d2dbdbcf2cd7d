----------------------------- MODULE ThreadLife -----------------------------
(***************************************************************************)
(* What a chat thread promises its user and its runners: one message is    *)
(* worked on at a time; it is handed out at most Max times, each time      *)
(* under a new claim and a new epoch of the thread, and never again once a *)
(* runner was heard on it; a holder that fell silent goes on only under a  *)
(* new epoch; and what the user is told of the message's delivery is true  *)
(* and final.  ChatTurn implements this specification.                     *)
(***************************************************************************)
EXTENDS Integers

CONSTANTS Messages, Max

VARIABLES
    phase,   \* "none", "open" (nobody was heard yet), "heard", "over"
    claim,   \* how often the message was handed out
    silent,  \* the messages whose holder's lease has lapsed
    heard,   \* the claims of each message under which a runner was heard
    told,    \* what the user is told: "queued", "done", "failed", "cancelled"
    at,      \* the epoch each message is worked on under
    epoch    \* the thread's

vars == <<phase, claim, silent, heard, told, at, epoch>>

Working(m) == phase[m] \in {"open", "heard"}
Idle == \A m \in Messages : ~Working(m)

Init ==
    /\ phase = [m \in Messages |-> "none"]
    /\ claim = [m \in Messages |-> 0]
    /\ silent = {}
    /\ heard = [m \in Messages |-> {}]
    /\ told = [m \in Messages |-> "queued"]
    /\ at = [m \in Messages |-> 0]
    /\ epoch = 0

Send(m) ==
    /\ Idle /\ phase[m] = "none"
    /\ phase' = [phase EXCEPT ![m] = "open"]
    /\ UNCHANGED <<claim, silent, heard, told, at, epoch>>

\* The message goes on under a new epoch, and its holder is not silent.
Renewed(m) ==
    /\ epoch' > epoch
    /\ at' = [at EXCEPT ![m] = epoch']
    /\ silent' = silent \ {m}

Hand(m) ==
    /\ phase[m] = "open" /\ claim[m] < Max
    /\ claim[m] = 0 \/ m \in silent
    /\ claim' = [claim EXCEPT ![m] = @ + 1]
    /\ Renewed(m)
    /\ UNCHANGED <<phase, heard, told>>

Lapse(m) ==
    /\ Working(m) /\ claim[m] > 0
    /\ silent' = silent \cup {m}
    /\ UNCHANGED <<phase, claim, heard, told, at, epoch>>

\* A call of the holder: if it was silent, it goes on under a new epoch.
Called(m) ==
    /\ Working(m) /\ claim[m] > 0
    /\ IF m \in silent THEN Renewed(m) ELSE UNCHANGED <<silent, at, epoch>>

Return(m) ==
    /\ Called(m)
    /\ UNCHANGED <<phase, claim, heard, told>>

Speak(m) ==
    /\ Called(m)
    /\ phase' = [phase EXCEPT ![m] = "heard"]
    /\ heard' = [heard EXCEPT ![m] = @ \cup {claim[m]}]
    /\ told' = [told EXCEPT ![m] = "done"]
    /\ UNCHANGED claim

\* The holder ends the message, heard before or not.
Finish(m) ==
    /\ Called(m)
    /\ phase' = [phase EXCEPT ![m] = "over"]
    /\ heard' = [heard EXCEPT ![m] = @ \cup {claim[m]}]
    /\ UNCHANGED <<claim, told>>

\* Somebody else ends it: a Stop, a deletion, the sweep, the attempt cap.  Only of a
\* message on which nobody was heard the user is told that it was not delivered.
Abandon(m) ==
    /\ Working(m)
    /\ phase' = [phase EXCEPT ![m] = "over"]
    /\ told' \in {told} \cup (IF phase[m] = "open"
                              THEN {[told EXCEPT ![m] = "failed"], [told EXCEPT ![m] = "cancelled"]}
                              ELSE {})
    /\ silent' = silent \ {m}
    /\ epoch' >= epoch
    /\ UNCHANGED <<claim, heard, at>>

\* A Stop or a deletion fences off what runs.
Fence ==
    /\ epoch' > epoch
    /\ UNCHANGED <<phase, claim, silent, heard, told, at>>

Next ==
    \/ \E m \in Messages :
        Send(m) \/ Hand(m) \/ Lapse(m) \/ Return(m) \/ Speak(m) \/ Finish(m) \/ Abandon(m)
    \/ Fence

Spec == Init /\ [][Next]_vars
=============================================================================
