SPECIFICATION BillingSpec
CONSTANTS
    Accounts = {a1}
    Runners = {w1, w2}
    Creditors = {c1, c2}
    Prices = {1, 4}
    TopUp = 1
    MaxDay = 2
    MaxRuns = 2
SYMMETRY BillingSymmetry
INVARIANTS BillingTypeOK WalletMatchesLedger DebitIsSettled PaidDayNotDisabled
PROPERTY RevokedStaysRevoked
CHECK_DEADLOCK FALSE
