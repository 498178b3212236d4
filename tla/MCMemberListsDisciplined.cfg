SPECIFICATION DisciplinedSpec
CONSTANTS
    Half = 16
    MaxOwners = 3
    MaxMembers = 4
    SortValues = {0, 1}
INVARIANTS
    ListsAscend
    OwnedOnce
    OwnerFoundFromMember
PROPERTIES
    AddReachesItsOwner
    SortedInsertKeepsOrder
    ImplementsListStore
CHECK_DEADLOCK FALSE
