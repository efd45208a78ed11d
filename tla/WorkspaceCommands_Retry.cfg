SPECIFICATION Spec
CONSTANTS
    a1 = a1  a2 = a2  b1 = b1  A = A  B = B
    fact = fact  flip = flip  stage = stage  move = move  poll = poll
    c1 = c1  c2 = c2  c3 = c3  c4 = c4  h1 = h1  h2 = h2
    NoEntry = NoEntry
    Handlers = {h1, h2}
    CommandIds = {c1, c2, c3, c4}
    Objects = {A, B}
    Payloads <- MCPayloads
    Cells <- MCCells
    Values <- MCValues
    ObjectOf <- MCObjectOf
    Intent <- MCIntent
    Effect <- MCEffect
    InitialData <- MCInitialData
    Requests <- RetryRequests
    Undoable = {fact, flip, stage}
    Compensation <- MCCompensation
    EmptyPolls = {poll}
    TypedFacts = {fact}
    Proposals = {move}
    Confirmable = {move}
    Managed = {stage}
    MaxAttempts = 2
PROPERTIES
    RetryNeverRefused
