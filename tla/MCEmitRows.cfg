CONSTANTS
    Half = 64
    Count <- MCCount
    Data <- MCData
    MaxEvents = 2
    MaxRows = 4
    MaxTables = 2
SPECIFICATION DisciplinedSpec
INVARIANTS
    FlagsMeanRows
    OneRowPerParent
    OneMethodPerSemantic
CHECK_DEADLOCK FALSE
