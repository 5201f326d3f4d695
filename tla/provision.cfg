SPECIFICATION Spec
CONSTANTS
    Os = "osx"
    None = None
    Child <- MCChild
    Parent <- MCParent
    Client = "client"
    Asset = "asset"
    Json = "json"
    Entry <- MCEntry
    OpenAL = "openal.dylib"
    Java = "java"
    Cache = "cache"
    MaxTrouble = 2
    Rule <- MCRule
    MaxRules = 4
    Library <- MCLibrary
    MaxLibraries = 3
CHECK_DEADLOCK FALSE
INVARIANTS
    TypeOK
    StartedComplete
    RulesAgree
    MergeShadows

    
