SPECIFICATION FrontSpec
CONSTANTS
    Names <- MCNames
    Fetches <- MCFetches
    Packages <- MCPackages
    Folders <- MCFolders
    NoUnit = NoUnit
    NoInput = NoInput
    MaxTexts = 2
    MaxDagCycles = 20
INVARIANTS
    EvalInv
    DagInv
    ClosedOnDisk
    PathsTracked
    NoCycleOnDisk
    EvaluatedIsBuildable
    SinglePass
    OkMeansClosure
    VerdictIsRight
    NoUnitTwiceOnStack
    MeetsGraphAssumption
PROPERTIES
    WholeStaysWhole
    DagTermination
