\* One job that may be tried twice, two workers, no crashes, under fairness.
CONSTANTS
    Apps = {app}
    Starter = starter
    Names = {app, starter}
    Named <- OwnNames
    Renames = {}
    Workers = {w1, w2}
    MaxJobs = 1
    MaximumAttempts = 2
    RetryLimit = 0
    MayCrash = FALSE
    NULL = NULL
SPECIFICATION FairSpec
CHECK_DEADLOCK FALSE
PROPERTY JobsSettle
