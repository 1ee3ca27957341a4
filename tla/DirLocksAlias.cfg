\* Two path strings naming one lock file, try_lock = true only.
CONSTANTS
    p1 = p1
    p2 = p2
    p3 = p3
    d1 = d1
    d2 = d2
    d3 = d3
    NoProc = NoProc
    Procs <- MCProcs
    Paths <- AliasPaths
    Files <- AliasFiles
    FileOf <- AliasFileOf
    TryLockArgs = {TRUE}
SPECIFICATION Spec
SYMMETRY ProcSymmetry
INVARIANT ClaimedLocksHeld
