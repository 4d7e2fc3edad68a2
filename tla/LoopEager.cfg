SPECIFICATION LoopSpec
CONSTANTS
    Units <- TreeUnits
    Packages <- TreePackages
    Deps <- TreeDeps
    Root = "root"
    Order <- TreeOrder
    JobsArg = NoArg
    NoArg = NoArg
    NumCpus = 2
    MaxBuildIterations <- TreeSentry
PROPERTIES
    StartedWhenReady
