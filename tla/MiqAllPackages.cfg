SPECIFICATION MiqSpec
CONSTANTS
    Units <- DiamondUnits
    Packages <- DiamondPackages
    Deps <- DiamondDeps
    Root = "root"
    Order <- DiamondOrder
    JobsArg = NoArg
    NoArg = NoArg
    NumCpus = 2
    MaxBuildIterations = 1000
    NoUnit = NoUnit
    Faults = {}
    Commands = {"build", "rm --all-packages"}
    BuildArgs <- OnlyPlainArgs
INVARIANTS
    AllPackagesRemoved
