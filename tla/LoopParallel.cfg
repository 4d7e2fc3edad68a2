SPECIFICATION FairLoopSpec
CONSTANTS
    Units <- TreeUnits
    Packages <- TreePackages
    Deps <- TreeDeps
    Root = "root"
    Order <- TreeOrder
    JobsArg = NoArg
    NoArg = NoArg
    NumCpus = 2
    MaxBuildIterations <- TreeSentry
INVARIANTS
    DepsFirst
    JobLimit
    SuccessMeansAllBuilt
    LoopInv
    ProgressInv
    NoSpuriousAbort
PROPERTIES
    ImplementsPlan
    Termination
