SPECIFICATION FunnelSpec
CONSTANTS
    u1 = u1
    b1 = b1
    Users = {u1}
    Requests = {b1}
    Instants = {0, 2, 144, 240}
    Trial = 72
    Terms = {24}
    MaxBills = 2
    MaxFaults = 1
INVARIANTS MessagedOnce WarnedUnlessSilenced
CHECK_DEADLOCK FALSE
