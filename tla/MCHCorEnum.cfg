SPECIFICATION EvenSpec
CONSTANTS
    MaxLists = 2
    MaxRows = 3
    PageSize = 2
    MaxEntries = 6
    MaxRead = 3
INVARIANTS
    CursorsAgree
    ReadInOrder
PROPERTIES
    ImplementsTokenStream
    ResetReachesPosition
    CallEnds
CHECK_DEADLOCK FALSE
