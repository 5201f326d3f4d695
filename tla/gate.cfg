SPECIFICATION FairSpec
CONSTANTS
    Player = {steve, alex}
    NoEntry = NoEntry
    MaxJoins = 2
    MaxTokens = 1
CHECK_DEADLOCK FALSE
INVARIANTS
    TypeOK
    HeldUntilResolved
    OneReleasePerToken
    OneCallPerJoin
    NoStaleFreezeUnlessSaved
PROPERTIES
    EveryJoinResolved
    ImplementsAdmission
