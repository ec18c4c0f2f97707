\* One transfer job, two worker runs.
CONSTANTS
    Parts = {"transfers"}
    Codes <- OneCode
    Plans <- AppPlan
    Most <- OneApp
    Limit <- OneApp
    Movable = {}
    MoveCode <- Apps
    Creators = {r1, r2}
    Pool = 2
    NoMove = NoMove
    MaxDatabases = 3
    Names = {"a", "b", "c"}
    Clients = {r1, r2}
    Kinds = {"create", "rename", "destroy"}
    Unused = Unused
    MaxJobs = 1
    MaxAttempts = 2
    MaxKeys = 1
    Runners = {w1, w2}
    Retriers = {q1}
    NoJob = NoJob
    Hosted = {d1}
    Ports = {1, 2}
    Policies = {p1}
    Savers = {q1}
    MaxRules = 1
    MaxPosted = 1
    NoRule = NoRule
    Logins = {l1, l2}
    Levels = {"read_only"}
    MaxGrants = 2
    Askers = {q1}
    Sweepers = {s1}
    Batch = 2
    Engine = "postgresql"
    NoGrant = NoGrant
    Visitors = {v1, v2}
    MaxReleases = 2
    MaxRestarts = 1
    Nothing = Nothing
SPECIFICATION MCSpec
CHECK_DEADLOCK FALSE
PROPERTY CancelSettles
