SPECIFICATION PresentSpec
CONSTANTS
    Half = 16
    MaxOwners = 3
    MaxMembers = 4
    SortValues = {0, 1}
PROPERTY
    OtherListsKept
CHECK_DEADLOCK FALSE
