SPECIFICATION FairLoopSpec
CONSTANTS
    Units <- PairUnits
    Packages <- PairPackages
    Deps <- PairDeps
    Root = "root"
    Order <- PairOrder
    JobsArg = 0
    NoArg = NoArg
    NumCpus = 2
    MaxBuildIterations = 1000
PROPERTIES
    Termination
    StepsRunOut
