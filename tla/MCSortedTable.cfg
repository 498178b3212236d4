SPECIFICATION DisciplinedSpec
CONSTANTS
    Half = 16
    MaxRows = 4
    KeyCount = 2
    Descending = {2}
    MaxValue = 2
INVARIANTS
    FlagIsSound
    FindsPrimaryKey
    RangeIsComplete
CHECK_DEADLOCK FALSE
