SPECIFICATION Spec
CONSTANTS
  c1 = c1  c2 = c2  r1 = r1  r2 = r2  a1 = a1  a2 = a2
  None = None  User = User  Reaper = Reaper
  Clients = {c1}  AgentOf <- OneClient  Requests = {r1}
  Statuses = {"todo", "in_progress", "review"}
  TTLs = {1}  HeartbeatTTL = 1  NextTTL = 1  Grace = 1  WaitCap = 1
  CASAttempts = 3  MaxTime = 2  MaxGeneration = 1  MaxInFlight = 2
  GateAuthors = {}  Markers = {FALSE}  Shipments = {}
  Commenting = {}  ReviewerUsable = {FALSE}
PROPERTY ExplainedMoveGoesOn
