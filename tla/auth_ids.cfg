SPECIFICATION Spec
CONSTANTS
    Nick = {alice}
    NoNick = NoNick
    Proc = {p1, p2}
    TOKEN_TTL = 1
    REFRESH_TTL = 2
    MaxClock = 2
    MaxPw = 1
    MaxMinted = 4
SYMMETRY Slots
CHECK_DEADLOCK FALSE
INVARIANTS
    TypeOK
    SingleUseUnlessTangled
    RotationNeverForks
    HandedCredentialStaysGood
