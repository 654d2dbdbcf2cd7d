SPECIFICATION FairSpec
CONSTANTS
    r1 = r1
    r2 = r2
    c1 = c1
    c2 = c2
    None = None
    Replicas = {r1}
    Callers = {c1}
    Period = 1
    Limits = {None, 1}
    Ends = {None}
    Statuses = {"done", "cancelled"}
    Reopened = {}
    BrokenCron = FALSE
    MaxConsecutiveFailures = 2
    MaxConsecutiveMissed = 2
    MaxFaults = 1
    MaxTime = 2
INVARIANT RecurringInv
PROPERTIES StrandedOnlyByWriteBack DueIsServed
CHECK_DEADLOCK FALSE
