SPECIFICATION Spec
CONSTANTS
  u1 = u1
  r1 = r1
  r2 = r2
  x1 = x1
  s1 = s1
  t1 = t1
  c1 = c1
  c2 = c2
  m1 = m1
  m2 = m2
  k1 = k1
  Anonymous = Anonymous
  NoKey = NoKey
  Denied = Denied
  NoUpload = NoUpload
  Requests = {p1, p2}
  Users = {u1}
  Repos = {r1, r2}
  Physical = {x1}
  Sources = {s1}
  Tags = {t1}
  Chunks = {c1, c2}
  Bodies <- MCBodies
  Manifests = {m1, m2}
  BlobsOf <- MCBlobsOf
  Keys = {k1}
  Workloads <- PushWorkloads
  MaxUploads = 2
SYMMETRY RequestSymmetry
INVARIANTS StoreInv DestinationComplete
PROPERTIES PublishesImages
