SPECIFICATION FairSpec
CONSTANTS
  o1 = o1
  o2 = o2
  Nobody = Nobody
  NoRow = NoRow
  Deleted = Deleted
  NoRequest = NoRequest
  Op = {o1, o2}
  UserCount = 2
  Kind = {"CREATE", "EMAIL", "ROLE", "STATUS", "DELETE"}
INVARIANTS
  CircleNeedsAuditRow
PROPERTIES
  LastAdminLostOnlyToStaleTarget
  AdministratorsAreNotDeleted
  EveryOperationEnds
CHECK_DEADLOCK FALSE
