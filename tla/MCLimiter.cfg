SPECIFICATION Spec
CONSTANTS
  Callers = {p1, p2}
  Surfaces = {"token", "request"}
  Addresses = {a1}
  Accounts = {c1}
  NoAccount = NoAccount
  NoEntry = NoEntry
  NoCall = NoCall
  MaxFailures = 2
  Window = 2
  BlockFor = 3
  MaxClock = 8
SYMMETRY CallerSymmetry
INVARIANTS FailuresInv
PROPERTIES BlockHolds
