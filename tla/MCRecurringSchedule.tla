------------------------ MODULE MCRecurringSchedule ------------------------
(* Small instances of RecurringSchedule.                                     *)
EXTENDS RecurringSchedule, TLC

CONSTANTS r1, r2, c1, c2
=============================================================================
