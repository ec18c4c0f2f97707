\* Clones and moves, one request at a time.
CONSTANTS
    Parts = {"databases"}
    Codes <- AllCodes
    Plans <- AllPlans
    Most <- FewEach
    Limit <- FewEach
    Movable = {k1}
    MoveCode <- DatabaseCount
    Creators = {r1, r2}
    Pool = 2
    NoMove = NoMove
    MaxDatabases = 3
    Names = {"a", "b", "c"}
    Clients = {r1}
    Kinds = {"create", "clone", "move"}
    Unused = Unused
    MaxJobs = 2
    MaxAttempts = 2
    MaxKeys = 2
    Runners = {w1, w2}
    Retriers = {q1}
    NoJob = NoJob
    Hosted = {d1, d2}
    Ports = {1, 2}
    Policies = {p1, p2}
    Savers = {q1, q2}
    MaxRules = 2
    MaxPosted = 2
    NoRule = NoRule
    Logins = {l1, l2}
    Levels = {"read_only"}
    MaxGrants = 2
    Askers = {q1}
    Sweepers = {s1}
    Batch = 2
    Engine = "postgresql"
    NoGrant = NoGrant
    Visitors = {v1, v2}
    MaxReleases = 2
    MaxRestarts = 1
    Nothing = Nothing
SPECIFICATION MCSpec
CHECK_DEADLOCK FALSE
INVARIANT RowsHaveTheirData
