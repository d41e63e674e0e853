SPECIFICATION FairSpec
CONSTANTS
  s1 = s1
  s2 = s2
  t1 = t1
  t2 = t2
  Threads = {t1}
  Servers = {s1, s2}
  NoServer = NoServer
  MaxAttempts = 2
  MaxCands = 2
  VerifyAttempts = 2
  Catalogs <- SwappingCatalog
  Fingerprinted = TRUE
INVARIANTS NoStrayCore CoreIsReachable ConnectedIsCurrent UnprobedOnlyAfterDeath
PROPERTIES OnlyOwnSessionFails DeadTunnelNoticed RequestsReturn
