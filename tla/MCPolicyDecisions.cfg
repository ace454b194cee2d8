SPECIFICATION PolicySpec
CONSTANTS
  s1 = s1
  s2 = s2
  s3 = s3
  a = a
  b = b
  c = c
  None = None
  Repositories <- Repos
  PolicySources = {s1, s2}
  RouteSet <- MixedRoutes
  MaxRoutes = 2
INVARIANTS PolicyTypeOK LowestPrecedenceDecides AuthorityIsLast
