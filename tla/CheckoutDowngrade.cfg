\* One checkout and two payment attempts: an initiate request that answers late.
CONSTANTS
    Checkouts = {c1}
    Stranger  = NULL
    Customers = {"one", "other"}
    Packages  = {"package"}
    Owner    <- TwoCustomers
    Package  <- OnePackage
    Attempts  = {a1, a2}
    Providers = {"razorpay"}
    Requests  = {r1}
    MayCrash  = FALSE
    NULL      = NULL
SPECIFICATION Spec
CHECK_DEADLOCK FALSE
PROPERTY CompletedIsFinal
