------------------------------ MODULE Checkout ------------------------------
(***************************************************************************)
(* A customer's purchase, from the signed quote to the running workspace:  *)
(* CheckoutController.purchase and configure, PaymentController.initiate,  *)
(* callback and webhook, and queueInitialProvisioning.                     *)
(*                                                                         *)
(* A handler that reads, waits (for a payment provider, for another        *)
(* transaction) and then writes is split at the wait; a database           *)
(* transaction is one step.  The payment providers are the environment:    *)
(* they may report any stage of a payment, and a report may reach the      *)
(* panel late, repeatedly, out of order, or never.                         *)
(***************************************************************************)
EXTENDS Naturals, FiniteSets

CONSTANTS
    Checkouts,   \* signed quotes; a quote becomes at most one checkout row
    Customers,
    Packages,
    Owner,       \* the customer a quote was signed for
    Package,     \* the package a quote is about
    Attempts,    \* rows of payment_attempts
    Providers,   \* the enabled providers, out of "mock", "payu", "razorpay"
    Requests,    \* concurrent requests of the workspace setup page
    MayCrash,    \* may a panel process die between two of its steps?
    NULL

ASSUME OwnerAssumption == Owner \in [Checkouts -> Customers]
ASSUME PackageAssumption == Package \in [Checkouts -> Packages]
ASSUME ProvidersAssumption == Providers \subseteq {"mock", "payu", "razorpay"}
ASSUME MayCrashAssumption == MayCrash \in BOOLEAN

VARIABLES
    status,      \* customer_checkouts.status, "absent" before the row exists
    trial,       \* checkouts with trial_selected
    buying,      \* per quote: the purchase transaction in flight, "idle", "payment" or "trial"
    initiating,  \* per attempt: what an initiate request read before calling the provider
    attempts,    \* payment_attempts
    events,      \* claimed keys of payment_webhook_events
    reported,    \* external: stages the provider has reached for an order
    exact,       \* external: orders captured for the checkout's amount and currency
    configuring, \* per request: the checkout a setup transaction has read
    workspaces,  \* number of workspaces (and subscriptions) created for a checkout
    unqueued,    \* checkouts whose setup committed and whose request has yet to queue the job
    job          \* the initial provisioning job of a checkout's subscription

purchaseVars == <<trial, buying>>
paymentVars  == <<initiating, attempts, events>>
providerVars == <<reported, exact>>
setupVars    == <<configuring, workspaces, unqueued, job>>
vars == <<status, purchaseVars, paymentVars, providerVars, setupVars>>

Payable   == {"awaiting_payment", "payment_failed", "payment_pending"}
Completed == {"workspace_setup_pending", "provisioning", "active"}
Status    == Payable \union Completed

ResultStatus  == {"verified", "pending", "failed", "cancelled"}
EventName     == ResultStatus \union {"callback", "order.paid"}
AttemptRow    == [checkout: Checkouts, provider: Providers, first: BOOLEAN,
                  status: ResultStatus, verifiedAt: BOOLEAN]
InitiateInput == [checkout: Checkouts, provider: Providers, first: BOOLEAN]

ASSUME NullAssumption == /\ NULL \notin Checkouts
                         /\ NULL \notin AttemptRow
                         /\ NULL \notin InitiateInput

Exists(a) == attempts[a] # NULL
AttemptsOf(c) == {a \in Attempts : Exists(a) /\ attempts[a].checkout = c}

-----------------------------------------------------------------------------
Init ==
    /\ status      = [c \in Checkouts |-> "absent"]
    /\ trial       = {}
    /\ buying      = [c \in Checkouts |-> "idle"]
    /\ initiating  = [a \in Attempts |-> NULL]
    /\ attempts    = [a \in Attempts |-> NULL]
    /\ events      = {}
    /\ reported    = [a \in Attempts |-> {}]
    /\ exact       = {}
    /\ configuring = [r \in Requests |-> NULL]
    /\ workspaces  = [c \in Checkouts |-> 0]
    /\ unqueued    = {}
    /\ job         = [c \in Checkouts |-> "none"]

-----------------------------------------------------------------------------
(* CheckoutController.purchase                                             *)

PriorTrial(c) ==
    \E p \in trial : Owner[p] = Owner[c] /\ Package[p] = Package[c]

\* Mutant: purchases of one customer are not serialised.
LockSkipped(c) == TRUE

\* ensureCustomer takes an advisory lock of the user until the commit.
LockFree(c) ==
    \A d \in Checkouts : Owner[d] = Owner[c] => buying[d] = "idle"

\* Under the lock, the transaction looks for an earlier trial of the package.
PurchaseCheck(c, startTrial) ==
    /\ buying[c] = "idle"
    /\ LockFree(c)
    /\ startTrial => ~PriorTrial(c)
    /\ buying' = [buying EXCEPT ![c] = IF startTrial THEN "trial" ELSE "payment"]
    /\ UNCHANGED <<status, trial, paymentVars, providerVars, setupVars>>

\* The insert, under the unique index on quote_id, and the commit.
PurchaseInsert(c) ==
    /\ buying[c] # "idle"
    /\ status[c] = "absent"
    /\ buying' = [buying EXCEPT ![c] = "idle"]
    /\ \/ /\ buying[c] = "trial"
          /\ trial' = trial \union {c}
          /\ status' = [status EXCEPT ![c] = "workspace_setup_pending"]
       \/ /\ buying[c] = "payment"
          /\ trial' = trial
          /\ status' = [status EXCEPT ![c] = "awaiting_payment"]
    /\ UNCHANGED <<paymentVars, providerVars, setupVars>>

\* The insert conflicts, or the transaction is lost: the lock goes with it.
PurchaseAbort(c) ==
    /\ buying[c] # "idle"
    /\ buying' = [buying EXCEPT ![c] = "idle"]
    /\ UNCHANGED <<status, trial, paymentVars, providerVars, setupVars>>

-----------------------------------------------------------------------------
(* PaymentController.initiate                                              *)

\* The checkout's status and its previous attempt are read, and the provider
\* is asked for an order.  Without a previous attempt the idempotency key
\* ends in 1, otherwise in the current time.
InitiateRead(a, c, provider) ==
    /\ initiating[a] = NULL /\ ~Exists(a)
    /\ status[c] \in Payable
    /\ initiating' = [initiating EXCEPT ![a] =
            [checkout |-> c, provider |-> provider, first |-> AttemptsOf(c) = {}]]
    /\ UNCHANGED <<status, purchaseVars, attempts, events, providerVars, setupVars>>

\* payment_attempts_idempotency_unique
KeyTaken(input) ==
    /\ input.first
    /\ \E b \in AttemptsOf(input.checkout) :
           attempts[b].first /\ attempts[b].provider = input.provider

\* The transaction after the provider has answered.  The checkout is updated
\* by id, whatever its status has become since it was read.
InitiateCommit(a) ==
    /\ initiating[a] # NULL
    /\ ~KeyTaken(initiating[a])
    /\ LET input == initiating[a] IN
        /\ attempts' = [attempts EXCEPT ![a] =
                [checkout |-> input.checkout, provider |-> input.provider,
                 first |-> input.first, status |-> "pending", verifiedAt |-> FALSE]]
        /\ status' = [status EXCEPT ![input.checkout] = "payment_pending"]
    /\ initiating' = [initiating EXCEPT ![a] = NULL]
    /\ UNCHANGED <<purchaseVars, events, providerVars, setupVars>>

\* The provider refuses the order, the key is taken, or the request dies.
InitiateFail(a) ==
    /\ initiating[a] # NULL
    /\ initiating' = [initiating EXCEPT ![a] = NULL]
    /\ UNCHANGED <<status, purchaseVars, attempts, events, providerVars, setupVars>>

-----------------------------------------------------------------------------
(* The payment providers                                                   *)

Reports(provider) ==
    IF provider = "mock" THEN ResultStatus ELSE ResultStatus \ {"cancelled"}

\* The customer pays, fails or gives up.  Nothing follows a capture.  A
\* capture need not be for the amount and currency of the checkout.
ProviderReports(a, s, exactAmount) ==
    /\ Exists(a)
    /\ s \in Reports(attempts[a].provider) \ reported[a]
    /\ "verified" \notin reported[a]
    /\ s # "verified" => ~exactAmount
    /\ reported' = [reported EXCEPT ![a] = @ \union {s}]
    /\ exact' = IF exactAmount THEN exact \union {a} ELSE exact
    /\ UNCHANGED <<status, purchaseVars, paymentVars, setupVars>>

-----------------------------------------------------------------------------
(* PaymentController.applyProviderResult                                   *)

\* Mutant: a verified result counts whatever was captured.
AcceptedForAnyAmount(a, s) == s = "verified"

Accepted(a, s) == s = "verified" /\ a \in exact

\* Mutant: a failed attempt is final, too.
AttemptAfterFailure(row, a, s) ==
    IF row.status \in {"verified", "failed"} THEN row
    ELSE [row EXCEPT !.status = s, !.verifiedAt = Accepted(a, s)]

\* Mutant: the last event wins.
AttemptOverwritten(row, a, s) ==
    [row EXCEPT !.status = s, !.verifiedAt = Accepted(a, s)]

AttemptAfter(row, a, s) ==
    IF row.status = "verified" THEN row
    ELSE [row EXCEPT !.status = s, !.verifiedAt = Accepted(a, s)]

\* Mutant: the checkout takes the status of the payment.
CheckoutStoresResult(current, a, s) ==
    IF current \in Completed THEN current
    ELSE IF Accepted(a, s) THEN "workspace_setup_pending" ELSE s

CheckoutAfter(current, a, s) ==
    IF current \in Completed THEN current
    ELSE IF Accepted(a, s) THEN "workspace_setup_pending"
    ELSE IF s = "failed" THEN "payment_failed" ELSE "payment_pending"

ApplyProviderResult(a, s, key) ==
    /\ Exists(a)
    /\ <<a, key>> \notin events
    /\ events' = events \union {<<a, key>>}
    /\ attempts' = [attempts EXCEPT ![a] = AttemptAfter(@, a, s)]
    /\ status' = [status EXCEPT ![attempts[a].checkout] = CheckoutAfter(@, a, s)]
    /\ UNCHANGED <<purchaseVars, initiating, providerVars, setupVars>>

\* Mutant: the event key of a webhook identifies the order only.
WebhookKeyedByOrder(a, s) ==
    /\ s \in reported[a]
    /\ ApplyProviderResult(a, s, "callback")

\* The event key of a webhook identifies the reported stage.  PayU and the
\* mock provider derive the key of a callback in the same way.  Razorpay has
\* two events for a capture, payment.captured and order.paid.
Webhook(a, s) ==
    /\ s \in reported[a]
    /\ \/ ApplyProviderResult(a, s, s)
       \/ /\ s = "verified" /\ attempts[a].provider = "razorpay"
          /\ ApplyProviderResult(a, s, "order.paid")

\* Razorpay's browser callback is keyed by order and payment only; the
\* payment's stage is fetched from the provider, before the transaction.
Callback(a) ==
    /\ Exists(a) /\ attempts[a].provider = "razorpay"
    /\ \E s \in reported[a] : ApplyProviderResult(a, s, "callback")

-----------------------------------------------------------------------------
(* CheckoutController.configure                                            *)

\* Mutant: a checkout whose payment is pending may already be set up.
ConfigureReadPending(r, c) ==
    /\ configuring[r] = NULL
    /\ status[c] \in {"payment_pending", "workspace_setup_pending"}
    /\ configuring' = [configuring EXCEPT ![r] = c]
    /\ UNCHANGED <<status, purchaseVars, paymentVars, providerVars,
                   workspaces, unqueued, job>>

\* The transaction reads the checkout and finds it ready for setup.
ConfigureRead(r, c) ==
    /\ configuring[r] = NULL
    /\ status[c] = "workspace_setup_pending"
    /\ configuring' = [configuring EXCEPT ![r] = c]
    /\ UNCHANGED <<status, purchaseVars, paymentVars, providerVars,
                   workspaces, unqueued, job>>

\* Mutant: slugs are not unique.
SlugUnchecked(c) == TRUE

\* The workspace's slug, and with it the whole setup, exists once per checkout.
SlugFree(c) == workspaces[c] = 0

\* Workspace, membership, billing profile and subscription are inserted; the
\* checkout is updated by id.
ConfigureCommit(r) ==
    /\ configuring[r] # NULL
    /\ LET c == configuring[r] IN
        /\ SlugFree(c)
        /\ workspaces' = [workspaces EXCEPT ![c] = @ + 1]
        /\ status' = [status EXCEPT ![c] = "provisioning"]
        /\ unqueued' = unqueued \union {c}
    /\ configuring' = [configuring EXCEPT ![r] = NULL]
    /\ UNCHANGED <<purchaseVars, paymentVars, providerVars, job>>

ConfigureAbort(r) ==
    /\ configuring[r] # NULL
    /\ configuring' = [configuring EXCEPT ![r] = NULL]
    /\ UNCHANGED <<status, purchaseVars, paymentVars, providerVars,
                   workspaces, unqueued, job>>

\* Mutant: the idempotency key names the customer, not the subscription.
QueueOncePerCustomer(c) ==
    /\ c \in unqueued
    /\ unqueued' = unqueued \ {c}
    /\ job' = IF \E d \in Checkouts : Owner[d] = Owner[c] /\ job[d] # "none"
              THEN job ELSE [job EXCEPT ![c] = "queued"]
    /\ UNCHANGED <<status, purchaseVars, paymentVars, providerVars,
                   configuring, workspaces>>

\* queueInitialProvisioning, after the setup's transaction has committed.
QueueInitialProvisioning(c) ==
    /\ c \in unqueued
    /\ unqueued' = unqueued \ {c}
    /\ job' = [job EXCEPT ![c] = IF @ = "none" THEN "queued" ELSE @]
    /\ UNCHANGED <<status, purchaseVars, paymentVars, providerVars,
                   configuring, workspaces>>

\* The request dies, or the insert fails, between the commit and the job.
SetupDies(c) ==
    /\ MayCrash
    /\ c \in unqueued
    /\ unqueued' = unqueued \ {c}
    /\ UNCHANGED <<status, purchaseVars, paymentVars, providerVars,
                   configuring, workspaces, job>>

\* The worker commits a succeeded job; see module Provisioning.
ProvisioningSucceeds(c) ==
    /\ job[c] = "queued"
    /\ job' = [job EXCEPT ![c] = "succeeded"]
    /\ status' = [status EXCEPT ![c] = "active"]
    /\ UNCHANGED <<purchaseVars, paymentVars, providerVars,
                   configuring, workspaces, unqueued>>

-----------------------------------------------------------------------------
Buy ==
    \E c \in Checkouts :
        \/ \E t \in BOOLEAN : PurchaseCheck(c, t)
        \/ PurchaseInsert(c)
        \/ PurchaseAbort(c)

Pay ==
    \E a \in Attempts :
        \/ \E c \in Checkouts, p \in Providers : InitiateRead(a, c, p)
        \/ InitiateCommit(a)
        \/ InitiateFail(a)
        \/ \E s \in ResultStatus, e \in BOOLEAN : ProviderReports(a, s, e)

Reconcile ==
    \E a \in Attempts :
        \/ \E s \in ResultStatus : Webhook(a, s)
        \/ Callback(a)

SetUp ==
    \/ \E r \in Requests :
        \/ \E c \in Checkouts : ConfigureRead(r, c)
        \/ ConfigureCommit(r)
        \/ ConfigureAbort(r)
    \/ \E c \in Checkouts :
        \/ QueueInitialProvisioning(c)
        \/ SetupDies(c)
        \/ ProvisioningSucceeds(c)

Next == Buy \/ Pay \/ Reconcile \/ SetUp

Spec == Init /\ [][Next]_vars

\* A provider repeats a webhook until the panel acknowledges it, and a request
\* that has not died goes on to its next statement.
Fairness ==
    /\ \A a \in Attempts : WF_vars(Webhook(a, "verified"))
    /\ \A c \in Checkouts : WF_vars(QueueInitialProvisioning(c))

FairSpec == Spec /\ Fairness

-----------------------------------------------------------------------------
TypeOK ==
    /\ status \in [Checkouts -> Status \union {"absent"}]
    /\ trial \subseteq Checkouts
    /\ buying \in [Checkouts -> {"idle", "payment", "trial"}]
    /\ initiating \in [Attempts -> InitiateInput \union {NULL}]
    /\ attempts \in [Attempts -> AttemptRow \union {NULL}]
    /\ events \subseteq Attempts \X EventName
    /\ reported \in [Attempts -> SUBSET ResultStatus]
    /\ exact \subseteq Attempts
    /\ configuring \in [Requests -> Checkouts \union {NULL}]
    /\ workspaces \in [Checkouts -> Nat]
    /\ unqueued \subseteq Checkouts
    /\ job \in [Checkouts -> {"none", "queued", "succeeded"}]

\* The durable evidence that a checkout was bought: an approved trial, or an
\* attempt with a verification date.
Paid(c) == \E a \in AttemptsOf(c) : attempts[a].verifiedAt
Bought(c) == c \in trial \/ Paid(c)

\* A checkout that may be set up, is set up or runs was bought ...
OwnershipIsBought ==
    \A c \in Checkouts :
        status[c] \in Completed \/ workspaces[c] > 0 => Bought(c)

\* ... and an attempt is verified only after the provider has captured it.
VerifiedIsCaptured ==
    \A a \in Attempts : Exists(a) /\ attempts[a].verifiedAt => a \in exact

\* A browser response never creates commercial ownership: a checkout that may
\* be set up, is set up or runs was approved as a trial or paid with an attempt
\* the provider captured for its exact amount and currency, in every order of
\* payment events and of initiate and configure requests that read an older
\* status.
PurchaseIsBacked == OwnershipIsBought /\ VerifiedIsCaptured

\* One purchase creates one workspace and one subscription, however many setup
\* requests run at once and even when a late initiate and a second payment
\* make the checkout ready for setup again.
OneWorkspacePerCheckout ==
    \A c \in Checkouts : workspaces[c] <= 1

\* A customer takes the trial of a package once, also when two quotes for it
\* are purchased at the same time.
OneTrialPerPackage ==
    \A c, d \in trial :
        Owner[c] = Owner[d] /\ Package[c] = Package[d] => c = d

\* Claiming the event of an exact capture and recording it are one: no claimed
\* capture is missing from its attempt, whatever was reported before it.
ClaimedCaptureIsRecorded ==
    \A a \in exact :
        {<<a, "verified">>, <<a, "order.paid">>} \intersect events # {}
            => attempts[a].verifiedAt

\* A verified attempt keeps its verification, whatever event arrives late.
VerifiedAttemptIsFinal ==
    [][\A a \in Attempts :
        Exists(a) /\ attempts[a].verifiedAt => attempts'[a] = attempts[a]]_vars

\* What the monotonicity test of the payment results says of checkouts: a
\* completed one is not downgraded.
CompletedIsFinal ==
    [][\A c \in Checkouts :
        status[c] \in Completed => status'[c] \in Completed]_vars

\* An exact capture is recorded on its attempt in the end, although callback
\* and webhook race and earlier stages may be reported later.
CaptureIsRecorded ==
    \A a \in Attempts : a \in exact ~> Exists(a) /\ attempts[a].verifiedAt

\* Workspace setup queues a provisioning job.
SetupIsQueued ==
    \A c \in Checkouts : workspaces[c] > 0 ~> job[c] # "none"
-----------------------------------------------------------------------------
\* How far the purchase has come, read off the rows that are only ever added
\* to: trials, verified attempts, workspaces and jobs, not the status column.
Phase(c) ==
    IF job[c] = "succeeded" THEN "running"
    ELSE IF job[c] = "queued" THEN "queued"
    ELSE IF workspaces[c] > 0 THEN "set_up"
    ELSE IF Bought(c) THEN "bought"
    ELSE IF status[c] # "absent" THEN "open"
    ELSE "absent"

Lifecycle == INSTANCE PurchaseLifecycle WITH phase <- [c \in Checkouts |-> Phase(c)]

\* Every step of the controllers moves at most one purchase, and only to the
\* next phase of the documented lifecycle: a purchase is never undone, never
\* skips the payment, and never reaches the worker before its setup.
FollowsLifecycle == Lifecycle!Spec
=============================================================================
