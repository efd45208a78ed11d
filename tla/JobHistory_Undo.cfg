SPECIFICATION Spec
CONSTANTS
    Messages = {}
    SourceOf <- None
    DateOf <- None
    FactsOf <- None
    Slots = {2}
    Marks = {}
    MaxCommands = 4
PROPERTIES
    NewerFactsSurvive
CHECK_DEADLOCK FALSE
