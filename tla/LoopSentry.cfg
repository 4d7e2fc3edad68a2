SPECIFICATION LoopSpec
CONSTANTS
    Units <- ChainUnits
    Packages <- ChainUnits
    Deps <- ChainDeps
    Root = 1
    Order <- ChainOrder
    JobsArg = 1
    NoArg = NoArg
    NumCpus = 1
    MaxBuildIterations = 1000
INVARIANTS
    NoSpuriousAbort
