SPECIFICATION Spec
CONSTANTS
  o1 = o1
  o2 = o2
  Nobody = Nobody
  NoRow = NoRow
  Deleted = Deleted
  NoRequest = NoRequest
  Op = {o1, o2}
  UserCount = 2
  Kind = {"ROLE", "STATUS"}
SYMMETRY OpSymmetry
INVARIANTS
  LastAdminKept
CHECK_DEADLOCK FALSE
