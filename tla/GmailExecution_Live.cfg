SPECIFICATION FairSpec
CONSTANTS
    Workers = {w1, w2}
    Kinds = {"poll"}
    PageSize = 2
    RunLimit = 1
    MaxMail = 2
    MaxBoxes = 2
    MaxSweeps = 0
    MaxFaults = 1
INVARIANT TypeOK
INVARIANT Covered
PROPERTIES
    CursorNeverGoesBack
    EveryMessageAccounted
