SPECIFICATION Spec
SYMMETRY Symmetry
CONSTANTS
    Account = {steve}
    Casing = {c1, c2}
    Slot = {s1, s2}
    NoNick = NoNick
    NoToken = NoToken
    MaxTokens = 3
    MaxFaults = 1
CHECK_DEADLOCK FALSE
INVARIANTS
    TypeOK
    SessionKept
    RestartRestores
    LogoutEndsAlone
