\* One job that operators retry below three attempts, in any order of reads and writes,
\* and two workers that may die.
CONSTANTS
    Apps = {}
    Starter = starter
    Names = {starter}
    Named <- OwnNames
    Renames = {}
    Workers = {w1, w2}
    MaxJobs = 1
    MaximumAttempts = 1
    RetryLimit = 3
    MayCrash = TRUE
    NULL = NULL
SYMMETRY Symmetry
SPECIFICATION Spec
CHECK_DEADLOCK FALSE
CONSTRAINT FewReads
CONSTRAINT OneCopy
INVARIANT AttemptsGranted
