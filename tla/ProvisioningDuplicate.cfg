\* An application and its update, submitted by two workers at once.
CONSTANTS
    Apps = {app}
    Starter = starter
    Names = {app, starter}
    Named <- OwnNames
    Renames = {}
    Workers = {w1, w2}
    MaxJobs = 2
    MaximumAttempts = 1
    RetryLimit = 0
    MayCrash = FALSE
    NULL = NULL
SYMMETRY Symmetry
SPECIFICATION Spec
CHECK_DEADLOCK FALSE
INVARIANT NoDuplicateApplication
