SPECIFICATION FairSpec
CONSTANTS
  r1 = r1  r2 = r2  r3 = r3  None = None  Revoked = Revoked
  Requests = {r1, r2, r3}  Roles = {"member", "viewer"}  LegacyRole = "member"
  Kinds = {"additional", "home", "guest"}  MaxChanges = 1
 
PROPERTIES  CheckedRoleApplies RequestAnswered
CONSTRAINT Bounds
CHECK_DEADLOCK FALSE
