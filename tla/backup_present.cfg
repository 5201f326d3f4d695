SPECIFICATION Spec
CONSTANTS
    File <- MCFile
    Level = "level.dat"
    None = None
    Keep = 1
    MaxStamp = 2
    MaxTrouble = 0
CHECK_DEADLOCK FALSE
INVARIANT PresentKept
