SPECIFICATION Spec
CONSTANTS
  t1 = t1
  t2 = t2
  a = a
  c1 = c1
  c2 = c2
  Tab = {t1, t2}
  User = {a}
  Call = {c1, c2}
  CallsOf <- MCCallsOf
  PasswordCall = {c2}
  MaxTokens = 3
  MaxFaults = 1
  Nobody = Nobody
  NoToken = NoToken
  NoRequest = NoRequest
INVARIANTS
  NoSessionIsForgotten
  WaitersHaveARefresh

  
