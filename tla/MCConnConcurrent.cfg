SPECIFICATION Spec
CONSTANTS
  s1 = s1
  s2 = s2
  t1 = t1
  t2 = t2
  Threads = {t1, t2}
  Servers = {s1}
  NoServer = NoServer
  MaxAttempts = 2
  MaxCands = 1
  VerifyAttempts = 1
  Catalogs <- FixedCatalog
  Fingerprinted = TRUE
SYMMETRY Symmetry
INVARIANTS TypeOK NoOrphanedPhase HandlesAreCurrent
