SPECIFICATION Spec
CONSTANTS
    a1 = a1
    a2 = a2
    k1 = k1
    k2 = k2
    q1 = q1
    q2 = q2
    t1 = t1
    t2 = t2
    w1 = w1
    w2 = w2
    p1 = p1
    p2 = p2
    Agents = {a1}
    Tasks = {t1, t2}
    Workers = {w1, w2}
    Pools = {q1}
    Keys = {k1, k2}
    AgentOf <- KeyAgentsSame
    Procs = {p1, p2}
    ProfilePools <- OnePool
    TTL = 1
    RunLease = 1
    CheckoutTTL = 1
    Capacities = {1, 2}
    Caps = {1, 2}
    MaxTime = 0
    MaxGeneration = 1
    MaxRevision = 1
    MaxGrantKey = 2
    None = None
SYMMETRY Interchangeable
PROPERTY AdmitsWithinLimits
