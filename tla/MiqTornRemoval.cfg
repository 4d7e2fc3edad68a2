SPECIFICATION MiqSpec
CONSTANTS
    Units <- DiamondUnits
    Packages <- DiamondPackages
    Deps <- DiamondDeps
    Root = "root"
    Order <- DiamondOrder
    JobsArg = NoArg
    NoArg = NoArg
    NumCpus = 2
    MaxBuildIterations = 1000
    NoUnit = NoUnit
    Faults = {"interrupt"}
    Commands = {"build"}
    BuildArgs <- AnyArgs
INVARIANTS
    RowsAreWhole
