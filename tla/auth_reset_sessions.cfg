SPECIFICATION Spec
CONSTANTS
    Nick = {alice}
    NoNick = NoNick
    Proc = {p1, p2}
    TOKEN_TTL = 1
    REFRESH_TTL = 1
    MaxClock = 0
    MaxPw = 2
    MaxMinted = 4
SYMMETRY Slots
CHECK_DEADLOCK FALSE
INVARIANT ResetEndsSessions
