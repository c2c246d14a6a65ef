SPECIFICATION Spec
CONSTANTS
  t1 = t1
  t2 = t2
  Thread = {t1, t2}
  Client = {c1}
  Account = {a1}
  Route = {"login", "onboarding"}
  Limit <- Limits
  WindowSeconds <- Windows
  SweepInterval <- Minute
  Hour <- HourLength
  MaxKeys = 2
  MaxDelay = 1
  MaxTime = 7
  NoAccount = NoAccount
SYMMETRY Symmetry
INVARIANTS
  AtMostTwiceTheLimit
  GuessesBounded
PROPERTIES
  WindowsLast
