SPECIFICATION CliSpec
SYMMETRY ProcSymmetry
CONSTANTS
    Procs = {p1, p2}
    NoProc = NoProc
    StoreLocations <- MCStore
    OtherLocations <- MCOther
    Cwd <- MCCwd
    Spellings <- AllSpellings
PROPERTIES
    OnlyNamedChanges
