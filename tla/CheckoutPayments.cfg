\* One checkout, two payment attempts and one setup request at a time.
CONSTANTS
    Checkouts = {c1}
    Stranger  = NULL
    Customers = {"one", "other"}
    Packages  = {"package"}
    Owner    <- TwoCustomers
    Package  <- OnePackage
    Attempts  = {a1, a2}
    Providers = {"razorpay"}
    Requests  = {r1}
    MayCrash  = TRUE
    NULL      = NULL
SYMMETRY Symmetry
SPECIFICATION Spec
CHECK_DEADLOCK FALSE
INVARIANT TypeOK
INVARIANT PurchaseIsBacked
INVARIANT ClaimedCaptureIsRecorded
PROPERTY VerifiedAttemptIsFinal
PROPERTY FollowsLifecycle
