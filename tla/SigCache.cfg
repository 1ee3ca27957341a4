\* Two worker threads verifying up to three inputs against a two-slot
\* presence set that three valid signatures compete for, with kicks up to
\* depth 2, one generation advance, sweeps and resizes in between.
CONSTANTS
    t1 = t1
    t2 = t2
    Threads <- MCThreads
    Slots = {1, 2}
    Checks <- MCChecks
    Valid <- MCValid
    Bucket <- MCBucket
    Jobs <- MCJobs
    MaxDepth = 2
    MaxGen = 1
    MaxCalls = 3
    Nobody = Nobody
    Nil = Nil
    NoJob = NoJob
SPECIFICATION Spec
INVARIANT TypeOK
INVARIANT CallsTransparent
INVARIANT RetainedPresent
PROPERTY CallsReturn
\* Once MaxCalls calls have returned, nothing is left to do: the pool is
\* idle and waits for work that the model does not send.
CHECK_DEADLOCK FALSE
