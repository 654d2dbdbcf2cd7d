---------------------------- MODULE MCChatTurn ----------------------------
(* Small instances of ChatTurn for TLC. *)
EXTENDS ChatTurn, TLC
CONSTANTS m1, m2, r1, r2

\* The second message follows the first under narrower bounds than the first alone has:
\* the default expiry, no late call, a first turn claimed once at most and a second twice.
SecondMessageBound ==
    turns[m2].state # "none" =>
        /\ turns[m1].state # "none"
        /\ setting = 0 /\ late = 0
        /\ turns[m1].attempt <= 1 /\ turns[m2].attempt <= 2
        /\ \A m \in Messages : turns[m].lastSeq <= 1
===========================================================================
