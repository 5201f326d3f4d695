SPECIFICATION Spec
SYMMETRY Symmetry
CONSTANTS
    Path <- MCPath
    Content = {c1, c2}
    Fetched = {"mod"}
    Overridden = {"Logs"}
    Config = {"Cfg", "cfg", "cfg/x"}
    Jar = {"auth"}
    Inside <- MCInside
    Absent = Absent
    Empty = Empty
    NoManifest = NoManifest
    FirstTrees <- MCFirst
    MaxChanges = 2
    MaxPublishes = 2
    MaxTrouble = 1
    Key <- MCKey
    Fold <- MCFold
    Above <- MCAbove
    Options = "options.txt"
    Edited = {"cfg", "cfg/own", "options.txt"}
    Refused = {"Logs"}
    Protected = {"Logs"}
    User = User
    Seeded = Seeded
    Dir = Dir
    Mixed = Mixed
    Slots = 2
CHECK_DEADLOCK FALSE
INVARIANTS
    TypeOK
    SyncedExactly
    NothingStale
    OnlyPromised
    FailureExplained
PROPERTIES
    UserFilesKept
    ReplaceBeforeRemove
