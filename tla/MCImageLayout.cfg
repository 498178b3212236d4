SPECIFICATION DisciplinedSpec
CONSTANTS
    Tables = {"Owner", "Member"}
    Heaps = {"strings", "guids"}
    Columns <- MCColumns
    GuidHeap = "guids"
    GuidSize = 2
    HasPdb = FALSE
    InitialTables = {"Owner"}
    LoadedEntries <- MCLoadedEntries
    DeltaSizes <- MCDeltaSizes
    Strings <- MCStrings
    Max16 = 7
    MaxRows <- MCMaxRows
    MaxHeap <- MCMaxHeap
INVARIANTS
    TypeOK
    WidthsMatchImage
PROPERTIES
    ImplementsRowStore
CHECK_DEADLOCK FALSE
