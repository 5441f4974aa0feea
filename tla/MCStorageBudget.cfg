SPECIFICATION BudgetSpec
CONSTANTS
    Sizes = {1, 9}
    Count = 2
    Releases <- MCReleases
    Slacks <- MCSlacks
    Unit = 2
    Fixed = 1
    Reserve = 8
    ZipSize = 1
    Directories = 1
    MaxCuts = 3
INVARIANTS NeverFull WorkIsAnnounced
