SPECIFICATION Spec
CONSTANTS
    s1 = s1
    s2 = s2
    SourceOrder <- MCSourceOrder
    QueryCount <- MCQueryCount
    BatchSize = 3
    SearchPrice = 1
    ModelPrice = 1
    Cap = 6
    MaxTicks = 2
    MaxActive = 2
    MaxBucket = 2
    MaxFaults = 1
INVARIANTS
    TypeOK
    SpendWithinCap
    EachRequestOnce
    FactsMatchScope
    DeclinedIsFinal
    NoClaimIsForgotten
CHECK_DEADLOCK FALSE
