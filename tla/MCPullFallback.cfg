SPECIFICATION FairSpec
CONSTANTS
  u1 = u1
  u2 = u2
  r1 = r1
  r2 = r2
  ra = ra
  rb = rb
  s1 = s1
  s2 = s2
  t1 = t1
  m1 = m1
  m2 = m2
  l0 = l0
  k1 = k1
  k2 = k2
  Anonymous = Anonymous
  NoKey = NoKey
  NoRow = NoRow
  Tags = {t1}
  Requests = {p1, p2}
  Users = {u1}
  Repos = {r1}
  Routes = {ra}
  Sources = {s1, s2}
  Manifests = {m1, m2}
  Blobs = {l0}
  BlobsOf <- MCBlobsOf
  SourceRank <- MCSourceRank
  Keys = {k1}
  Configs <- FallbackConfigs
  Asks <- FallbackAsks
  TTL = 0
  MaxClock = 1
  MaxRequests = 2
INVARIANTS CacheSound CredentialFailureEndsFallback
PROPERTIES RequestsAnswered
