SPECIFICATION Spec
CONSTANTS
    c1 = c1  c2 = c2  b1 = b1  b2 = b2  a1 = a1  a2 = a2  root = root  y1 = y1  y2 = y2
    h1 = h1  h2 = h2
    Commands = {c1, c2}
    Blobs = {b1, b2}
    Archives = {a1, a2}
    Roots = {root}
    ConfigOutputs = {y1, y2}
    Hosts = {h1, h2}
    Workloads <- MCWorkloads
    CertLife = 1
    CALife = 2
    Absent = Absent  Created = Created  NoAsk = NoAsk  Nothing = Nothing
    MaxCrashes = 1
SYMMETRY Symmetry
INVARIANTS FilesInv ServesWhatIsKept IssuedForHosts ArchivesWhole RestoresAll
PROPERTIES NothingOverwritten
CHECK_DEADLOCK FALSE
