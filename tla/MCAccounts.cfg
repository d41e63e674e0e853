CONSTANTS
    Webs = {1}
    Chats = {11, 12}
    Emails = {e1}
    LinkCodes = {l1, l2}
    AppCodes = {a1}
    BindCodes = {b1}
    ResetCodes = {r1}
    Tokens = {s1}
    Threads = {p1, p2}
    Nobody = Nobody
    NoEmail = NoEmail
    NoCode = NoCode
    MaxEra = 2
    MaxCodes = 2
SYMMETRY AccountsSymmetry
SPECIFICATION AccountsSpec
INVARIANTS AccountsTypeOK ResetRevokes BoundChatHasNoProfile
PROPERTY CodesAreOneTimeGrants
CHECK_DEADLOCK FALSE
