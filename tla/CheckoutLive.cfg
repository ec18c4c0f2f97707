\* Two quotes of one customer, one attempt, two setup requests at a time, no
\* crashes, under fairness.
CONSTANTS
    Checkouts = {c1, c2}
    Stranger  = NULL
    Customers = {"one", "other"}
    Packages  = {"package"}
    Owner    <- TwoCustomers
    Package  <- OnePackage
    Attempts  = {a1}
    Providers = {"mock", "razorpay"}
    Requests  = {r1, r2}
    MayCrash  = FALSE
    NULL      = NULL
SPECIFICATION FairSpec
CHECK_DEADLOCK FALSE
INVARIANT OneTrialPerPackage
INVARIANT OneWorkspacePerCheckout
PROPERTY CaptureIsRecorded
PROPERTY SetupIsQueued
