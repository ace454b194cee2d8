SPECIFICATION Spec
CONSTANTS
  u1 = u1
  u2 = u2
  r1 = r1
  r2 = r2
  ra = ra
  rb = rb
  s1 = s1
  s2 = s2
  t1 = t1
  m1 = m1
  m2 = m2
  l0 = l0
  k1 = k1
  k2 = k2
  Anonymous = Anonymous
  NoKey = NoKey
  NoRow = NoRow
  Tags = {t1}
  Requests = {p1, p2}
  Users = {u1, u2}
  Repos = {r1, r2}
  Routes = {ra, rb}
  Sources = {s1}
  Manifests = {m1}
  Blobs = {l0}
  BlobsOf <- MCBlobsOf
  SourceRank <- MCSourceRank
  Keys = {k1, k2}
  Configs <- IsolationConfigs
  Asks <- IsolationAsks
  TTL = 1
  MaxClock = 0
  MaxRequests = 2
SYMMETRY PullSymmetry
INVARIANTS TypeOK ReplayAuthorized ReplayComplete
PROPERTIES KeepsImages
