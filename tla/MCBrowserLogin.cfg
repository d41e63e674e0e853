SPECIFICATION LoginSpec
CONSTANTS
    Requests = {r1}
    Accounts = {a1, a2}
    Nobody = Nobody
    Threads = {t1, t2, t3}
    MaxAttempts = 2
    MaxGuesses = 4
INVARIANTS LoginTypeOK OneApproverUnlessStale
PROPERTY LoginIsOneTimeGrant
CHECK_DEADLOCK FALSE
