SPECIFICATION Spec
CONSTANTS
  o1 = o1
  o2 = o2
  r1 = r1
  UserCount = 3
  Admin = {1, 2}
  Profile <- MCProfile
  Change <- MCChange
  Op = {o1, o2}
  Reader = {r1}
  List = {0, 3}
  PageSize = 2
  MaxRequests = 3
  NoRow = NoRow
  NoRequest = NoRequest
  NoWalk = NoWalk
SYMMETRY Symmetry
INVARIANTS
  KeysAreUnique
  TrailTellsTheRow
  CircleNeedsNewKey
  PagesSkipNothing
