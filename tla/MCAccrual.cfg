SPECIFICATION Spec
CONSTANTS
  u1 = u1
  u2 = u2
  w1 = w1
  w2 = w2
  c1 = c1
  c2 = c2
  l1 = l1
  l2 = l2
  g1 = g1
  a1 = a1
  Users = {u1, u2}
  NoUser = NoUser
  NoOrder = NoOrder
  Poller = Poller
  Workers = {w1, w2}
  CryptoInvoices = {c1}
  LavaInvoices = {l1}
  Gifts = {g1}
  AdminCredits = {a1}
  MaxCrashes = 1
  Threads <- MCThreads
  Owner <- MCOwner
  Days <- MCDays
  Referrer <- MCReferrer
  Start <- MCStart
  FirstKnown = {u2}
SYMMETRY Symmetry
INVARIANTS TypeOK CreditedAtMostOnce InviteTellsTruth DaysLostOnlyInRaces
PROPERTY InvitesStayBound
CHECK_DEADLOCK FALSE
