SPECIFICATION FairSpec
CONSTANTS
    Tabs = {t1}
    Commands = {c1}
    Compact = {c1}
    Visible = {t1}
    Verdicts = {"write"}
    MaxForeign = 1
    MaxFaults = 1
PROPERTY
    CacheConverges
CHECK_DEADLOCK FALSE
