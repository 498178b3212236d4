SPECIFICATION LoopSpec
CONSTANTS
    Half = 5
    MaxLength = 7
    Numbers <- MCNumbers
INVARIANTS
    WindowHoldsKey
    FindsKey
    MissIsAdjacent
    AgreesWithFunction
PROPERTY
    Terminates
CHECK_DEADLOCK FALSE
