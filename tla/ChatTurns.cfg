SPECIFICATION SweepSpec
CONSTANTS
  m1 = m1  m2 = m2  r1 = r1  r2 = r2  NoRunner = NoRunner
  Messages = {m1, m2}  Runners = {r1, r2}
  MaxAttempts = 3  Settings = {0, 1, 2}  DefaultTTL = 1  MaxSeq = 2  MaxLate = 2
INVARIANTS ChatInv OneVoice DeliveryTold
PROPERTIES ThreadLifeSpec FinishedIsFinal QueuedTurnLeaves ClaimedTurnResolves
CONSTRAINT SecondMessageBound
CHECK_DEADLOCK FALSE
