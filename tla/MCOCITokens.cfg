SPECIFICATION Spec
CONSTANTS
  Requests = {p1}
  Users = {u1, u2}
  Usernames = {n1, n2, n3}
  Hashes = {h1, h2}
  Repositories = {r1}
  NoScope = NoScope
  Nobody = Nobody
  Lifetime = 2
  MaxClock = 2
  MaxProcesses = 2
  MaxBearers = 2
INVARIANTS BearersInv ServedWasEntitled
SYMMETRY Symmetric
