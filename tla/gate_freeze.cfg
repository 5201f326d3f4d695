SPECIFICATION Spec
CONSTANTS
    Player = {steve}
    NoEntry = NoEntry
    MaxJoins = 2
    MaxTokens = 1
CHECK_DEADLOCK FALSE
INVARIANT NoStaleFreeze
