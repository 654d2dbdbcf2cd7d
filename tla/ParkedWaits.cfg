SPECIFICATION Spec
CONSTANTS
  a1 = a1  a2 = a2  b1 = b1  b2 = b2  w1 = w1  w2 = w2  r1 = r1  r2 = r2  t1 = t1  e1 = e1  e2 = e2  None = None
  Agents = {a1, a2}  Blockers = {b1}  Waits = {w1, w2}  ReleaseIds = {r1, r2}
  Requests = {t1}  Evals = {e1}  MaxVersion = 4
SYMMETRY Interchangeable
INVARIANTS ParkedInv
PROPERTIES WakesOnlyFreed AutomaticHonoursCard
CHECK_DEADLOCK FALSE
