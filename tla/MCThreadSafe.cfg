SPECIFICATION Spec
CONSTANTS
    t1 = t1
    t2 = t2
    app = app
    net = net
    library = library
    e1 = e1
    e2 = e2
    Threads <- MCThreads
    Writable = {app, net}
    ReadOnly = {library}
    Enumerations = {e1, e2}
    EnumerationsOf <- MCEnumerations
    Imports <- MCImports
    MaxRefs <- MCMaxRefs
INVARIANTS
    
    DeletedOnceUnused
PROPERTIES
    QueriesReturn
    CallsReturn
CHECK_DEADLOCK FALSE
