SPECIFICATION Spec
CONSTANTS
  c1 = c1  c2 = c2  r1 = r1  r2 = r2  a1 = a1  a2 = a2
  None = None  User = User  Reaper = Reaper
  Clients = {c1, c2}  AgentOf <- TwoAgents  Requests = {r1}
  Statuses = {"todo", "in_progress", "done"}
  TTLs = {1}  HeartbeatTTL = 1  NextTTL = 1  Grace = 2  WaitCap = 1
  CASAttempts = 1  MaxTime = 2  MaxGeneration = 2  MaxInFlight = 2
  GateAuthors = {}  Markers = {}  Shipments = {}
  Commenting = {Reaper}  ReviewerUsable = {TRUE}
SYMMETRY SwapTwoAgents
INVARIANTS LeaseHonored
PROPERTIES GenerationFences LeaseSpec
