SPECIFICATION Spec
CONSTANTS
    Messages = {"m1", "m2"}
    SourceOf <- MCSourceOf
    DateOf <- MCDateOf
    FactsOf <- MCFactsOf
    Slots = {2}
    Marks = {"doing", "done"}
    MaxCommands = 5
INVARIANTS
    TypeOK
    RecordedOnce
PROPERTIES
    UndoRestores
    ReceiptsAreHonest
    HistoryIsKept
CHECK_DEADLOCK FALSE
