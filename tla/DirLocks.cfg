\* Three processes, three directories with distinct lock files, callers
\* always ask for an exclusive lock (try_lock = true).
CONSTANTS
    p1 = p1
    p2 = p2
    p3 = p3
    d1 = d1
    d2 = d2
    d3 = d3
    NoProc = NoProc
    Procs <- MCProcs
    Paths <- DistinctPaths
    Files <- DistinctPaths
    FileOf <- DistinctFileOf
    TryLockArgs = {TRUE}
SPECIFICATION Spec
INVARIANT ClaimedLocksHeld
INVARIANT NoOrphanLocks
