SPECIFICATION FairSpec
CONSTANTS
    Tabs = {t1}
    Commands = {c1}
    Compact = {c1}
    Visible = {t1}
    Verdicts = {"write", "noop", "invalid"}
    MaxForeign = 1
    MaxFaults = 1
INVARIANTS
    ConfirmedIsTrue
    NoIntentIsForgotten
PROPERTIES
    CheckpointNeverGoesBack
    SnapshotNeverGoesBack
    EveryIntentSettles
CHECK_DEADLOCK FALSE
