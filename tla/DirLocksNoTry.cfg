\* As DirLocks.cfg, but callers may also pass try_lock = false.
CONSTANTS
    p1 = p1
    p2 = p2
    p3 = p3
    d1 = d1
    d2 = d2
    d3 = d3
    NoProc = NoProc
    Procs <- MCProcs
    Paths <- DistinctPaths
    Files <- DistinctPaths
    FileOf <- DistinctFileOf
    TryLockArgs = {TRUE, FALSE}
SPECIFICATION Spec
SYMMETRY ProcSymmetry
INVARIANT ClaimedLocksHeld
