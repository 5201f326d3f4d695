SPECIFICATION Spec
CONSTANTS
    Attempt = {a1, a2, a3}
    WINDOW = 3
    LIMIT = 2
    SUCCESS_LIMIT = 1
    MaxVerify = 2
    MaxClock = 6
SYMMETRY Slots
CHECK_DEADLOCK FALSE
INVARIANTS
    TypeOK
    FailuresBoundedUnlessSwapped
    FailuresBoundedByOverlap
    RefusalJustified
    SuccessesBounded
