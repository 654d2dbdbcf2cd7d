SPECIFICATION SessionSpec
CONSTANTS
  m1 = m1  m2 = m2  r1 = r1  r2 = r2  NoRunner = NoRunner
  b1 = b1  b2 = b2  b3 = b3  NoBearer = NoBearer
  Messages = {m1}  Runners = {r1, r2}
  MaxAttempts = 2  Settings = {0}  DefaultTTL = 1  MaxSeq = 1  MaxLate = 1
  Controllers = {r1}  Bearers = {b1, b2}
SYMMETRY SwapBearers
INVARIANTS SessionInv StopIsFinal StoppedTurnIsMute OneExecution
CHECK_DEADLOCK FALSE
