SPECIFICATION Spec
CONSTANTS
    Half = 16
    MaxOwners = 3
    MaxMembers = 4
    SortValues = {0, 1}
INVARIANTS
    TypeOK
    ListColumnsInTable
    PtrIsPermutation
PROPERTIES
    MembersNeverMove
    NoRowNoChange
CHECK_DEADLOCK FALSE
