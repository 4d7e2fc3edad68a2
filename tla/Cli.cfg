SPECIFICATION CliSpec
SYMMETRY ProcSymmetry
CONSTANTS
    Procs = {p1, p2}
    NoProc = NoProc
    StoreLocations <- MCStore
    OtherLocations <- MCOther
    Cwd <- MCCwd
    Spellings <- AbsoluteSpellings
INVARIANTS
    CliInv
    WorksAloneInFolders
    SomeoneRuns
    RemovedIsGone
    AnswersAgree
PROPERTIES
    OnlyNamedChanges
