SPECIFICATION Spec
CONSTANTS
  u1 = u1
  u2 = u2
  s1 = s1
  n1 = n1
  n2 = n2
  x1 = x1
  x2 = x2
  NoKey = NoKey
  NoRow = NoRow
  Requests = {p1, p2}
  Users = {u1, u2}
  Sources = {s1}
  EnabledSources = {s1}
  Names = {n1, n2}
  Secrets = {x1, x2}
  Ids = {i1, i2, i3}
  Keys = {k1, k2}
  Asks <- ServiceAsks
  MaxRequests = 3
  MaxStarts = 2
SYMMETRY Symmetric
INVARIANTS SecretsInv ReadyStaysTrue
PROPERTIES RotationRekeysAll
