SPECIFICATION FairSpec
CONSTANTS
  w1 = w1  w2 = w2  p1 = p1  None = None
  Transitions = 2  Posts = {p1}  Workers = {w1, w2}
  Expiring = {1} MaxCopies = 1
INVARIANTS DeliveryInv
PROPERTIES TaskEventsSpec CommitIsDelivered ExpiredLeavesFeed
CHECK_DEADLOCK FALSE
