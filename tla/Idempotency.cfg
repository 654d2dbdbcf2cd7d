SPECIFICATION Spec
CONSTANTS
  r1 = r1  r2 = r2  r3 = r3  None = None
  Requests = {r1, r2, r3}  Bodies = {1, 2}  Rounds = 2
SYMMETRY Interchangeable
INVARIANTS IdemInv WrittenOnce ReplayIsTrue
PROPERTIES KeySpec
CHECK_DEADLOCK FALSE
