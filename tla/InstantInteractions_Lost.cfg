SPECIFICATION RacedSpec
CONSTANTS
    NoRow = NoRow
    Keys <- MCKeys
    Fields <- MCFields
    Values <- MCValues
    MaxCommands = 3
    Clicks <- SetClicks
    MaxForeign = 0
    MaxFaults = 2
INVARIANTS
    RejectedWasNotCommitted
CHECK_DEADLOCK FALSE
