SPECIFICATION Spec
CONSTANTS
  o1 = o1
  o2 = o2
  o3 = o3
  Op = {o1, o2, o3}
  MaxLinks = 3
  NoLink = NoLink
  NoRequest = NoRequest
SYMMETRY OpSymmetry
INVARIANTS
  RedeemedOnce
  SupersededIsDead
  NobodyIsStranded
  NoCircle
