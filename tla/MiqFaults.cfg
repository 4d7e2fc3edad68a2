SPECIFICATION FairMiqSpec
CONSTANTS
    Units <- ForkUnits
    Packages <- ForkPackages
    Deps <- ForkDeps
    Root = "root"
    Order <- ForkOrder
    JobsArg = NoArg
    NoArg = NoArg
    NumCpus = 2
    MaxBuildIterations = 1000
    NoUnit = NoUnit
    Faults = {"builder", "io", "rmio", "stray", "interrupt", "kill"}
    Commands = {"build", "rm", "rm --all", "rm --all-packages", "add"}
    BuildArgs <- EachArg
INVARIANTS
    MiqConsistent
    StoreInv
    SuccessMeansAvailable
PROPERTIES
    CommandEnds
    OnlyRemovalOrOrphansMutate
