SPECIFICATION CarefulSpec
CONSTANTS
    Tables <- MCTables
    CreateOps <- MCCreateOps
    Base <- MCBase
    Deltas <- MCDeltas
    Editions <- MCEditions
INVARIANTS
    AppliedAsEdited
    OnlyEditedRowsChange
PROPERTIES
    MergeEnds
CHECK_DEADLOCK FALSE
