SPECIFICATION Spec
CONSTANTS
    Workers = {w1, w2}
    Kinds = {"poll", "sweep"}
    PageSize = 2
    RunLimit = 1
    MaxMail = 3
    MaxBoxes = 1
    MaxSweeps = 1
    MaxFaults = 1
INVARIANT AppliedOnce
PROPERTY SweepCoversMailbox
CHECK_DEADLOCK FALSE
SYMMETRY WorkerSymmetry
