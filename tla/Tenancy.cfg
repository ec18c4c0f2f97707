\* One purchased workspace and two replacements, two customers, two transfers,
\* two requests at a time.
CONSTANTS
    Customers = {alice, bob}
    MaxWorkspaces = 3
    MaxPurchases = 1
    MaxTransfers = 2
    MaxProfiles = 2
    Requests = {r1, r2}
    Purchased <- Bought
    Rollout <- Gained
    AddOns = {addon}
    NULL = NULL
    Identities = {root, newcomer}
    Seeded = root
    Newcomer = newcomer
    Handlers = {r1, r2}
    MaxAttempts = 1
    MaxUsers = 2
    MaxChallenges = 2
    MaxHandoffs = 1
    MaxSessions = 2
    MaxVersion = 3
    NONE = NONE
    site1 = site1
    site2 = site2
    tenant1 = tenant1
    tenant2 = tenant2
    apex = apex
    below = below
    Tenants = {tenant1, tenant2}
    Sites = {site1, site2}
    Hostnames = {apex, below}
    HomeOf <- Home
    Scopes <- Path
    Zones <- Published
    Agents = {r1, r2}
    MaxBindings = 2
    Nowhere = Nowhere
SYMMETRY Symmetry
SPECIFICATION MCSpec
CHECK_DEADLOCK FALSE
INVARIANT AlwaysOwned
INVARIANT BillingNeverConflicts
INVARIANT ScheduledIsLive
INVARIANT CodesOnce
PROPERTY OwnershipIsConsented
INVARIANT OneSessionPerProof
INVARIANT RegistrationsNeverCollide
PROPERTY RefusedStaysRefused
INVARIANT RoutedIsEntitled
