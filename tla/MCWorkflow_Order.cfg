CONSTANTS
  admin1 = admin1
  admin2 = admin2
  teacher = teacher
  outsider = outsider
  Users <- MCUsers
  RoleOf <- MCRoleOf
  TenantOf <- MCTenantOf
  Tenants = {"north", "south"}
  Kinds = {"OfficialDoc"}
  Workflows = {w1, w2}
  NoInstance = NoInstance
  MaxRequests = 4
  Workers = 2
SPECIFICATION Spec
INVARIANT NoDecisionLost
PROPERTY ImplementsFlow
CHECK_DEADLOCK FALSE
