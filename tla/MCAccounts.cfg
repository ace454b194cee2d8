SPECIFICATION Spec
CONSTANTS
  u1 = u1
  u2 = u2
  n1 = n1
  n2 = n2
  n3 = n3
  s1 = s1
  s2 = s2
  d1 = d1
  NoUser = NoUser
  NoSession = NoSession
  NoToken = NoToken
  Requests = {p1, p2}
  Users = {u1, u2}
  Names = {n1, n2, n3}
  Sessions = {s1, s2}
  Tokens = {d1}
  Orders <- AllOrders
  Idle = 1
  Absolute = 1
  Lifetime = 1
  MaxClock = 1
  MaxRequests = 4
SYMMETRY RequestSymmetry
INVARIANTS TypeOK AdminRemains DisabledHoldNoTokens IdentityChangeRevokes NoLostUpdate
