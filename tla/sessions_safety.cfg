SPECIFICATION Spec
CONSTANTS
  o1 = o1
  o2 = o2
  p1 = p1
  p2 = p2
  Op = {o1, o2}
  Password = {p1, p2}
  MaxTokens = 4
  Nobody = Nobody
  NoToken = NoToken
  NoRequest = NoRequest
SYMMETRY Symmetry
INVARIANTS
  ExchangesOverlap
  ExchangedIsRevoked
  CircleNeedsRotation
PROPERTIES
  DeactivationRevokesAll
