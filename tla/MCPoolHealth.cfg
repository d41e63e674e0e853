SPECIFICATION PoolSpec
CONSTANTS
    Tags = {t1, t2}
    Forbidden = {}
    Udp = {t2}
    Groups = {g1}
    Eligible <- EligibleOfAll
    GroupCap = 2
    Threshold = 1
    FailCap = 1
    VerifyAll = FALSE
    Checkers = {h1, h2}
    MaxFaults = 2
SYMMETRY PoolSymmetry
INVARIANTS PoolTypeOK CandidatesRemembered FailuresAreConsecutive QuietMeansInSync
CHECK_DEADLOCK FALSE
