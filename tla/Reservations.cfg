SPECIFICATION Spec
CONSTANTS
    a1 = a1  a2 = a2  k1 = k1  k2 = k2  q1 = q1  q2 = q2
    t1 = t1  t2 = t2  w1 = w1  w2 = w2  p1 = p1  p2 = p2
    Agents = {a1, a2}
    Tasks = {t1}
    Workers = {w1, w2}
    Pools = {q1}
    Keys = {k1, k2}
    AgentOf <- KeyAgentsTwo
    Procs = {p1, p2}
    ProfilePools <- OnePool
    TTL = 1
    RunLease = 1
    CheckoutTTL = 1
    Capacities = {1}
    Caps = {1}
    MaxTime = 2
    MaxGeneration = 2
    MaxRevision = 2
    MaxGrantKey = 1
    None = None
SYMMETRY Handlers
CONSTRAINT CheckoutsAndChanges
INVARIANTS ReservationInv
PROPERTIES AdmissionSpec
CHECK_DEADLOCK FALSE
