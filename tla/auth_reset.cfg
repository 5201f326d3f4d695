SPECIFICATION Spec
CONSTANTS
    Nick = {alice, bob}
    NoNick = NoNick
    Proc = {p1}
    TOKEN_TTL = 1
    REFRESH_TTL = 1
    MaxClock = 0
    MaxPw = 2
    MaxMinted = 4
SYMMETRY SlotsAndNicks
CHECK_DEADLOCK FALSE
INVARIANTS
    HandedCredentialStaysGood
    ResetEndsSessionsUnlessLate
