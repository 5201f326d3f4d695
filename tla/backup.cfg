SPECIFICATION Spec
CONSTANTS
    File <- MCFile
    Level = "level.dat"
    None = None
    Keep = 1
    MaxStamp = 1
    MaxTrouble = 3
CHECK_DEADLOCK FALSE
INVARIANTS
    TypeOK
    ArchiveSound
    NothingLeftOff
    RestoredWhole
    WorldKept
    LastBackupKept
