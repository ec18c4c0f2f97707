\* Two requests, workers or savers at a time; a pool of two connections; two
\* databases and a third name for one of them.
CONSTANTS
    Parts = {"applications", "moves", "databases", "transfers", "ports", "agent", "panel"}
    Codes <- AllCodes
    Plans <- AllPlans
    Most <- FewEach
    Limit <- FewEach
    Movable = {k1}
    MoveCode <- DatabaseCount
    Creators = {r1, r2}
    Pool = 2
    NoMove = NoMove
    MaxDatabases = 2
    Names = {na, nb, nc}
    Clients = {r1, r2}
    Kinds = {"create", "rename", "destroy"}
    Unused = Unused
    MaxJobs = 2
    MaxAttempts = 2
    MaxKeys = 2
    Runners = {w1, w2}
    Retriers = {q1}
    NoJob = NoJob
    Hosted = {d1, d2}
    Ports = {1, 2}
    Policies = {p1, p2}
    Savers = {q1, q2}
    MaxRules = 2
    MaxPosted = 2
    NoRule = NoRule
    Logins = {l1, l2}
    Levels = {"read_only"}
    MaxGrants = 2
    Askers = {q1}
    Sweepers = {s1}
    Batch = 2
    Engine = "postgresql"
    NoGrant = NoGrant
    Visitors = {v1, v2}
    MaxReleases = 2
    MaxRestarts = 1
    Nothing = Nothing
SPECIFICATION MCSpec
SYMMETRY Interchangeable
CHECK_DEADLOCK FALSE
 
INVARIANT AnsweredHoldsNothing
INVARIANT LossNeedsOverlap
INVARIANT OneExecution
INVARIANT DownloadExists
INVARIANT ActiveWasApplied
INVARIANT PortsNeverConflict
