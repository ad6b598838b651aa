CONSTANTS
  admin1 = admin1
  admin2 = admin2
  teacher = teacher
  outsider = outsider
  Users <- MCUsers
  RoleOf <- MCRoleOf
  TenantOf <- MCTenantOf
  Tenants = {"north", "south"}
  Kinds = {"OfficialDoc", "Seal"}
  Workflows = {w1}
  NoInstance = NoInstance
  MaxRequests = 4
  Workers = 2
SPECIFICATION Spec
INVARIANT TypeOK StoreSound SignaturesAudited
PROPERTY ApplicantTold
CHECK_DEADLOCK FALSE
