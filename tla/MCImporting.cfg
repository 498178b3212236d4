SPECIFICATION Spec
CONSTANTS
    Images = {"app", "net", "lib", "core"}
    Mvid <- MCMvid
    ModuleName <- MCModuleName
    TypeDefs <- MCTypeDefs
    Assembly <- MCAssembly
    Loaded <- MCLoaded
    TypeSpecs <- MCTypeSpecs
    Signatures <- MCSignatures
    Sources <- MCSources
    Targets <- MCTargets
    LooseNames <- MCLooseNames
    BadKeys = {"bad"}
    EcmaKey = "ecma"
    MaxAdded = 2
INVARIANTS
    ScopeNamesSameAssembly
    ManifestKnowsReferences
PROPERTIES
    ImportsWriteTargets
CHECK_DEADLOCK FALSE
