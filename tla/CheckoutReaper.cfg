SPECIFICATION FairSpec
CONSTANTS
  c1 = c1  c2 = c2  r1 = r1  r2 = r2  a1 = a1  a2 = a2
  None = None  User = User  Reaper = Reaper
  Clients = {c1}  AgentOf <- OneClient  Requests = {r1}
  Statuses = {"todo", "in_progress", "review", "done"}
  TTLs = {1}  HeartbeatTTL = 1  NextTTL = 1  Grace = 0  WaitCap = 2
  CASAttempts = 1  MaxTime = 2  MaxGeneration = 1  MaxInFlight = 1
  GateAuthors = {a1}  Markers = {TRUE}  Shipments = {TRUE}
  Commenting = {c1, Reaper}  ReviewerUsable = {TRUE, FALSE}
INVARIANTS IInv
PROPERTIES ReaperTakesOnlyDeadWork GatedCardClosedByPerson ExpiredLeaseReclaimed StaleCardHandedBack
