SPECIFICATION MiqSpec
CONSTANTS
    Units <- DiamondUnits
    Packages <- DiamondPackages
    Deps <- DiamondDeps
    Root = "root"
    Order <- DiamondOrder
    JobsArg = NoArg
    NoArg = NoArg
    NumCpus = 2
    MaxBuildIterations = 1000
    NoUnit = NoUnit
    Faults = {"builder", "io", "rmio", "interrupt"}
    Commands = {"build", "rm", "rm --all", "add"}
    BuildArgs <- EachArg
INVARIANTS
    StoreInv
    RegisteredIsWhole
    SuccessMeansAvailable
    ScriptSeesDeps
    RebuildHeals
PROPERTIES
    DepsEnterFirst
