SPECIFICATION Spec
CONSTANTS
    Handlers = {h1, h2}
    Commands = {c1, c2}
    Polls = {p1, p2, p3}
    Rewriting = {c2}
    Managed = {c1}
    Nobody = Nobody
    MaxPending = 2
    MaxAttempts = 2
    MaxCalls = 3
    MaxEvents = 2
INVARIANTS
    SnapshotsAreExact
    NothingPastItsGrant
PROPERTIES
    ImplementsWorkspaceHistory
CHECK_DEADLOCK FALSE
SYMMETRY
    StoreSymmetry
