SPECIFICATION FairSpec
CONSTANTS
  s1 = s1
  s2 = s2
  t1 = t1
  t2 = t2
  Threads = {t1, t2}
  Servers = {s1}
  NoServer = NoServer
  MaxAttempts = 1
  MaxCands = 1
  VerifyAttempts = 2
  Catalogs <- AnyCatalog
  Fingerprinted = FALSE
PROPERTY RequestsReturn
