SPECIFICATION Spec
CONSTANTS
  t1 = t1
  t2 = t2
  u1 = u1
  u2 = u2
  r1 = r1
  r2 = r2
  r3 = r3
  s1 = s1
  s2 = s2
  Nobody = Nobody
  NoWork = NoWork
  NoLocation = NoLocation
  MaxAccuracy = 1
  Tenant = {t1}
  User = {u1}
  TenantOf <- OneTenant
  Request = {r1, r2}
  Sweeper = {s1}
  MaxQrVersion = 0
  Sites <- ShortAndLong
  Readings <- InsideAndOutside
  DefaultMaxShift = 2
  MaxTime = 4
  MaxFaults = 1
SYMMETRY RequestSymmetry
INVARIANTS
  EventsAlternate
  StoredOrderIsCommitOrder
  AutoCloseIsDue
  NoOrphanEvents
  AuditTellsTheEvents
  SuccessesAreTheEvents
PROPERTIES
  AnswersTellTheState
  ImplementsLedger
