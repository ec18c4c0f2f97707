\* Two jobs, tried once each, two workers, no crashes, no operator.
CONSTANTS
    Apps = {app}
    Starter = starter
    Names = {app, starter}
    Named <- OwnNames
    Renames = {}
    Workers = {w1, w2}
    MaxJobs = 2
    MaximumAttempts = 1
    RetryLimit = 0
    MayCrash = FALSE
    NULL = NULL
SYMMETRY Symmetry
SPECIFICATION Spec
CHECK_DEADLOCK FALSE
INVARIANT TypeOK
INVARIANT OneWorkerPerJob
INVARIANT AcceptedHasResource
PROPERTY SucceededIsFinal
PROPERTY AcceptedIsOnlyPolled
