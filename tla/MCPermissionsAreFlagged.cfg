CONSTANTS
    Half = 64
    Count <- MCCount
    Data <- MCData
    MaxEvents = 2
    MaxRows = 3
    MaxTables = 2
SPECIFICATION Spec
INVARIANTS
    PermissionsAreFlagged
CHECK_DEADLOCK FALSE
