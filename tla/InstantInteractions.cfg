SPECIFICATION FairSpec
CONSTANTS
    NoRow = NoRow
    Keys <- MCKeys
    Fields <- MCFields
    Values <- MCValues
    MaxCommands = 2
    Clicks <- MCClicks
    MaxForeign = 1
    MaxFaults = 1
INVARIANTS
    TypeOK
    CacheIsExplained
    CheckpointIsBacked
    
PROPERTIES
    
    
    EveryClickSettles
CHECK_DEADLOCK FALSE
