--------------------------- MODULE CheckoutProofs ---------------------------
(***************************************************************************)
(* Proofs about module Checkout, for every set of quotes, customers,       *)
(* packages, payment attempts, providers and setup requests; and that it   *)
(* implements PurchaseLifecycle: every step of the controllers is a step   *)
(* of the abstract purchase or leaves it alone.                            *)
(***************************************************************************)
EXTENDS Checkout, TLAPS

-----------------------------------------------------------------------------
(* The inductive invariant                                                 *)

\* An attempt is not inserted twice: a pending initiate has no row yet.
InitiateIsNew ==
    \A a \in Attempts : initiating[a] # NULL => attempts[a] = NULL

\* What a row and its claimed events say of a capture agrees with what the
\* provider reported, and an exact capture is accepted when it is recorded.
CapturesAgree ==
    \A a \in Attempts :
        /\ a \in exact => "verified" \in reported[a] /\ Exists(a)
        /\ "verified" \in reported[a] => Exists(a)
        /\ {<<a, "verified">>, <<a, "order.paid">>} \intersect events # {} =>
               /\ Exists(a)
               /\ attempts[a].status = "verified"
        /\ Exists(a) /\ attempts[a].verifiedAt =>
               attempts[a].status = "verified" /\ a \in exact
        /\ Exists(a) /\ attempts[a].status = "verified" =>
               /\ "verified" \in reported[a]
               /\ a \in exact => attempts[a].verifiedAt

\* What the requests and the worker hold on to is backed as well as the rows.
SetupIsBacked ==
    /\ \A r \in Requests : configuring[r] # NULL => Bought(configuring[r])
    /\ \A c \in Checkouts : c \in unqueued \/ job[c] # "none" => workspaces[c] > 0

\* The user's lock is held by one purchase, which has seen every earlier trial.
LockIsExclusive ==
    /\ \A c, d \in Checkouts :
           Owner[c] = Owner[d] /\ buying[c] # "idle" /\ buying[d] # "idle" => c = d
    /\ \A c \in Checkouts : buying[c] = "trial" => ~PriorTrial(c)

Inv ==
    /\ TypeOK
    /\ InitiateIsNew
    /\ CapturesAgree
    /\ SetupIsBacked
    /\ LockIsExclusive
    /\ OwnershipIsBought
    /\ OneTrialPerPackage
    /\ OneWorkspacePerCheckout

-----------------------------------------------------------------------------
(* Lemmas about the operators                                              *)

\* A payment result is stored as a row of payment_attempts.
LEMMA AttemptAfterType ==
    ASSUME NEW row \in AttemptRow, NEW a, NEW s \in ResultStatus
    PROVE  AttemptAfter(row, a, s) \in AttemptRow
  BY DEF AttemptAfter, AttemptRow, Accepted, ResultStatus

\* It never moves the row to another checkout ...
LEMMA AttemptAfterCheckout ==
    ASSUME NEW row \in AttemptRow, NEW a, NEW s \in ResultStatus
    PROVE  AttemptAfter(row, a, s).checkout = row.checkout
  BY DEF AttemptAfter, AttemptRow

\* ... and an accepted result is on the row unless an older capture is.
LEMMA AcceptedIsRecorded ==
    ASSUME NEW row \in AttemptRow, NEW a, NEW s \in ResultStatus,
           Accepted(a, s), row.status = "verified" => row.verifiedAt
    PROVE  AttemptAfter(row, a, s).verifiedAt
  BY DEF AttemptAfter, AttemptRow

\* A payment result leaves the checkout with one of its statuses.
LEMMA CheckoutAfterType ==
    ASSUME NEW current \in Status \union {"absent"}, NEW a, NEW s
    PROVE  CheckoutAfter(current, a, s) \in Status \union {"absent"}
  BY DEF CheckoutAfter, Status, Payable, Completed

\* The webhook and the callback are each a result the provider has reported;
\* only a capture is claimed under the keys of a capture.
LEMMA ReconcileIsResult ==
    ASSUME TypeOK, Reconcile
    PROVE  \E a \in Attempts, s \in ResultStatus, key \in EventName :
               /\ ApplyProviderResult(a, s, key)
               /\ s \in reported[a]
               /\ key \in {"verified", "order.paid"} => s = "verified"
  <1>1. ASSUME NEW a \in Attempts, NEW s \in ResultStatus, Webhook(a, s)
        PROVE  \E key \in EventName :
                   /\ ApplyProviderResult(a, s, key)
                   /\ s \in reported[a]
                   /\ key \in {"verified", "order.paid"} => s = "verified"
    <2>1. CASE ApplyProviderResult(a, s, s)
      BY <1>1, <2>1 DEF Webhook, EventName, ResultStatus
    <2>2. CASE s = "verified" /\ ApplyProviderResult(a, s, "order.paid")
      BY <1>1, <2>2 DEF Webhook, EventName
    <2> QED BY <1>1, <2>1, <2>2 DEF Webhook
  <1>2. ASSUME NEW a \in Attempts, Callback(a)
        PROVE  \E s \in ResultStatus :
                   ApplyProviderResult(a, s, "callback") /\ s \in reported[a]
    BY <1>2 DEF Callback, TypeOK
  <1>3. "callback" \in EventName
    BY DEF EventName
  <1> QED BY <1>1, <1>2, <1>3 DEF Reconcile

-----------------------------------------------------------------------------
(* Types                                                                   *)

LEMMA InitType == Init => TypeOK
  BY OwnerAssumption, PackageAssumption
     DEF Init, TypeOK, Status, Payable, Completed, ResultStatus

LEMMA TypeStep == TypeOK /\ [Next]_vars => TypeOK'
  <1> SUFFICES ASSUME TypeOK, [Next]_vars PROVE TypeOK'
    OBVIOUS
  <1> USE DEF TypeOK
  <1>1. CASE UNCHANGED vars
    BY <1>1 DEF vars, purchaseVars, paymentVars, providerVars, setupVars
  <1>2. ASSUME NEW c \in Checkouts, NEW t \in BOOLEAN, PurchaseCheck(c, t) PROVE TypeOK'
    BY <1>2 DEF PurchaseCheck, paymentVars, providerVars, setupVars
  <1>3. ASSUME NEW c \in Checkouts, PurchaseInsert(c) PROVE TypeOK'
    BY <1>3 DEF PurchaseInsert, paymentVars, providerVars, setupVars,
                Status, Payable, Completed
  <1>4. ASSUME NEW c \in Checkouts, PurchaseAbort(c) PROVE TypeOK'
    BY <1>4 DEF PurchaseAbort, paymentVars, providerVars, setupVars
  <1>5. ASSUME NEW a \in Attempts, NEW c \in Checkouts, NEW p \in Providers,
               InitiateRead(a, c, p)
        PROVE  TypeOK'
    <2>1. [checkout |-> c, provider |-> p, first |-> AttemptsOf(c) = {}] \in InitiateInput
      BY DEF InitiateInput
    <2> QED BY <1>5, <2>1 DEF InitiateRead, purchaseVars, providerVars, setupVars
  <1>6. ASSUME NEW a \in Attempts, InitiateCommit(a) PROVE TypeOK'
    <2>1. initiating[a] \in InitiateInput
      BY <1>6 DEF InitiateCommit
    <2>2. /\ initiating[a].checkout \in Checkouts
          /\ initiating[a].provider \in Providers
          /\ initiating[a].first \in BOOLEAN
      BY <2>1 DEF InitiateInput
    <2>3. attempts' \in [Attempts -> AttemptRow \union {NULL}]
      BY <1>6, <2>2 DEF InitiateCommit, AttemptRow, ResultStatus
    <2>4. status' \in [Checkouts -> Status \union {"absent"}]
      BY <1>6, <2>2 DEF InitiateCommit, Status, Payable
    <2>5. initiating' \in [Attempts -> InitiateInput \union {NULL}]
      BY <1>6 DEF InitiateCommit
    <2> QED
      BY <1>6, <2>3, <2>4, <2>5 DEF InitiateCommit, purchaseVars, providerVars, setupVars
  <1>7. ASSUME NEW a \in Attempts, InitiateFail(a) PROVE TypeOK'
    BY <1>7 DEF InitiateFail, purchaseVars, providerVars, setupVars
  <1>8. ASSUME NEW a \in Attempts, NEW s \in ResultStatus, NEW e \in BOOLEAN,
               ProviderReports(a, s, e)
        PROVE  TypeOK'
    BY <1>8 DEF ProviderReports, purchaseVars, paymentVars, setupVars
  <1>9. ASSUME NEW a \in Attempts, NEW s \in ResultStatus, NEW key \in EventName,
               ApplyProviderResult(a, s, key)
        PROVE  TypeOK'
    <2>1. attempts[a] \in AttemptRow
      BY <1>9 DEF ApplyProviderResult, Exists
    <2>2. attempts[a].checkout \in Checkouts
      BY <2>1 DEF AttemptRow
    <2>3. attempts' \in [Attempts -> AttemptRow \union {NULL}]
      BY <1>9, <2>1, AttemptAfterType DEF ApplyProviderResult
    <2>4. status' \in [Checkouts -> Status \union {"absent"}]
      BY <1>9, <2>2, CheckoutAfterType DEF ApplyProviderResult
    <2> QED
      BY <1>9, <2>3, <2>4 DEF ApplyProviderResult, purchaseVars, providerVars, setupVars
  <1>10. ASSUME NEW r \in Requests, NEW c \in Checkouts, ConfigureRead(r, c)
         PROVE  TypeOK'
    BY <1>10 DEF ConfigureRead, purchaseVars, paymentVars, providerVars
  <1>11. ASSUME NEW r \in Requests, ConfigureCommit(r) PROVE TypeOK'
    <2>1. configuring[r] \in Checkouts
      BY <1>11 DEF ConfigureCommit
    <2> QED
      BY <1>11, <2>1 DEF ConfigureCommit, purchaseVars, paymentVars, providerVars,
                         Status, Completed
  <1>12. ASSUME NEW r \in Requests, ConfigureAbort(r) PROVE TypeOK'
    BY <1>12 DEF ConfigureAbort, purchaseVars, paymentVars, providerVars
  <1>13. ASSUME NEW c \in Checkouts, QueueInitialProvisioning(c) PROVE TypeOK'
    BY <1>13 DEF QueueInitialProvisioning, purchaseVars, paymentVars, providerVars
  <1>14. ASSUME NEW c \in Checkouts, SetupDies(c) PROVE TypeOK'
    BY <1>14 DEF SetupDies, purchaseVars, paymentVars, providerVars
  <1>15. ASSUME NEW c \in Checkouts, ProvisioningSucceeds(c) PROVE TypeOK'
    BY <1>15 DEF ProvisioningSucceeds, purchaseVars, paymentVars, providerVars,
                 Status, Completed
  <1>16. CASE Buy
    BY <1>16, <1>2, <1>3, <1>4 DEF Buy
  <1>17. CASE Pay
    BY <1>17, <1>5, <1>6, <1>7, <1>8 DEF Pay
  <1>18. CASE Reconcile
    BY <1>18, <1>9, ReconcileIsResult
  <1>19. CASE SetUp
    BY <1>19, <1>10, <1>11, <1>12, <1>13, <1>14, <1>15 DEF SetUp
  <1> QED BY <1>1, <1>16, <1>17, <1>18, <1>19 DEF Next

\* Every variable keeps its type.
THEOREM TypeCorrect == Spec => []TypeOK
  BY InitType, TypeStep, PTL DEF Spec

-----------------------------------------------------------------------------
(* Payments                                                                *)

\* Attempts are changed by an initiate's commit and by payment results only,
\* trials by the purchase only.
LEMMA AttemptsChange ==
    ASSUME TypeOK, [Next]_vars
    PROVE  \/ attempts' = attempts
           \/ \E a \in Attempts : InitiateCommit(a)
           \/ \E a \in Attempts, s \in ResultStatus, key \in EventName :
                  ApplyProviderResult(a, s, key)
  <1>1. CASE UNCHANGED vars
    BY <1>1 DEF vars, paymentVars
  <1>2. CASE Buy
    BY <1>2 DEF Buy, PurchaseCheck, PurchaseInsert, PurchaseAbort, paymentVars
  <1>3. CASE Pay
    BY <1>3 DEF Pay, InitiateRead, InitiateFail, ProviderReports, paymentVars
  <1>4. CASE Reconcile
    BY <1>4, ReconcileIsResult
  <1>5. CASE SetUp
    BY <1>5 DEF SetUp, ConfigureRead, ConfigureCommit, ConfigureAbort,
                QueueInitialProvisioning, SetupDies, ProvisioningSucceeds, paymentVars
  <1> QED BY <1>1, <1>2, <1>3, <1>4, <1>5 DEF Next

LEMMA TrialsGrow ==
    ASSUME TypeOK, [Next]_vars
    PROVE  trial \subseteq trial'
  <1>1. CASE UNCHANGED vars
    BY <1>1 DEF vars, purchaseVars
  <1>2. CASE Buy
    BY <1>2 DEF Buy, PurchaseCheck, PurchaseInsert, PurchaseAbort
  <1>3. CASE Pay
    BY <1>3 DEF Pay, InitiateRead, InitiateCommit, InitiateFail, ProviderReports,
                purchaseVars
  <1>4. CASE Reconcile
    BY <1>4, ReconcileIsResult DEF ApplyProviderResult, purchaseVars
  <1>5. CASE SetUp
    BY <1>5 DEF SetUp, ConfigureRead, ConfigureCommit, ConfigureAbort,
                QueueInitialProvisioning, SetupDies, ProvisioningSucceeds, purchaseVars
  <1> QED BY <1>1, <1>2, <1>3, <1>4, <1>5 DEF Next

\* No step touches a verified attempt.
LEMMA VerifiedStays ==
    ASSUME TypeOK, InitiateIsNew, CapturesAgree, [Next]_vars,
           NEW a \in Attempts, Exists(a), attempts[a].verifiedAt
    PROVE  attempts'[a] = attempts[a]
  <1>1. attempts[a].status = "verified"
    BY DEF CapturesAgree
  <1>2. ASSUME NEW b \in Attempts, InitiateCommit(b)
        PROVE  attempts'[a] = attempts[a]
    BY <1>2 DEF InitiateCommit, InitiateIsNew, Exists, TypeOK
  <1>3. ASSUME NEW b \in Attempts, NEW s \in ResultStatus, NEW key \in EventName,
               ApplyProviderResult(b, s, key)
        PROVE  attempts'[a] = attempts[a]
    BY <1>1, <1>3 DEF ApplyProviderResult, AttemptAfter, TypeOK
  <1> QED BY <1>2, <1>3, AttemptsChange

\* What was bought stays bought.
LEMMA BoughtStays ==
    ASSUME TypeOK, InitiateIsNew, CapturesAgree, [Next]_vars,
           NEW c \in Checkouts, Bought(c)
    PROVE  Bought(c)'
  <1>1. CASE c \in trial
    BY <1>1, TrialsGrow DEF Bought
  <1>2. CASE Paid(c)
    <2>1. PICK a \in AttemptsOf(c) : attempts[a].verifiedAt
      BY <1>2 DEF Paid
    <2>2. a \in Attempts /\ Exists(a) /\ attempts[a].checkout = c
      BY <2>1 DEF AttemptsOf
    <2>3. attempts'[a] = attempts[a]
      BY <2>1, <2>2, VerifiedStays
    <2>4. a \in AttemptsOf(c)' /\ attempts'[a].verifiedAt
      BY <2>1, <2>2, <2>3 DEF AttemptsOf, Exists
    <2> QED BY <2>4 DEF Bought, Paid
  <1> QED BY <1>1, <1>2 DEF Bought

LEMMA InitiateIsNewStep ==
    ASSUME TypeOK, InitiateIsNew, [Next]_vars
    PROVE  InitiateIsNew'
  <1> USE DEF InitiateIsNew, TypeOK
  <1>1. CASE UNCHANGED vars
    BY <1>1 DEF vars, paymentVars
  <1>2. CASE Buy
    BY <1>2 DEF Buy, PurchaseCheck, PurchaseInsert, PurchaseAbort, paymentVars
  <1>3. ASSUME NEW a \in Attempts, NEW c \in Checkouts, NEW p \in Providers,
               InitiateRead(a, c, p)
        PROVE  InitiateIsNew'
    BY <1>3 DEF InitiateRead, Exists
  <1>4. ASSUME NEW a \in Attempts, InitiateCommit(a) PROVE InitiateIsNew'
    BY <1>4 DEF InitiateCommit
  <1>5. ASSUME NEW a \in Attempts, InitiateFail(a) PROVE InitiateIsNew'
    BY <1>5 DEF InitiateFail
  <1>6. ASSUME NEW a \in Attempts, NEW s \in ResultStatus, NEW e \in BOOLEAN,
               ProviderReports(a, s, e)
        PROVE  InitiateIsNew'
    BY <1>6 DEF ProviderReports, paymentVars
  <1>7. CASE Pay
    BY <1>3, <1>4, <1>5, <1>6, <1>7 DEF Pay
  <1>8. CASE Reconcile
    BY <1>8, ReconcileIsResult DEF ApplyProviderResult, Exists
  <1>9. CASE SetUp
    BY <1>9 DEF SetUp, ConfigureRead, ConfigureCommit, ConfigureAbort,
                QueueInitialProvisioning, SetupDies, ProvisioningSucceeds, paymentVars
  <1> QED BY <1>1, <1>2, <1>7, <1>8, <1>9 DEF Next

LEMMA CapturesAgreeStep ==
    ASSUME TypeOK, InitiateIsNew, CapturesAgree, [Next]_vars
    PROVE  CapturesAgree'
  <1> USE DEF CapturesAgree, TypeOK
  <1>1. ASSUME UNCHANGED <<attempts, events, reported, exact>> PROVE CapturesAgree'
    BY <1>1 DEF Exists
  <1>2. CASE UNCHANGED vars
    BY <1>1, <1>2 DEF vars, paymentVars, providerVars
  <1>3. CASE Buy
    BY <1>1, <1>3 DEF Buy, PurchaseCheck, PurchaseInsert, PurchaseAbort,
                      paymentVars, providerVars
  <1>4. ASSUME NEW a \in Attempts, InitiateCommit(a) PROVE CapturesAgree'
    <2>1. ~Exists(a)
      BY <1>4 DEF InitiateCommit, InitiateIsNew, Exists
    <2>2. /\ "verified" \notin reported[a] /\ a \notin exact
          /\ {<<a, "verified">>, <<a, "order.paid">>} \intersect events = {}
      BY <2>1
    <2>3. /\ attempts'[a].status = "pending" /\ attempts'[a].verifiedAt = FALSE
          /\ \A b \in Attempts \ {a} : attempts'[b] = attempts[b]
      BY <1>4 DEF InitiateCommit
    <2>4. UNCHANGED <<events, reported, exact>>
      BY <1>4 DEF InitiateCommit, providerVars
    <2> QED BY <2>2, <2>3, <2>4 DEF Exists
  <1>5. ASSUME NEW a \in Attempts, NEW s \in ResultStatus, NEW e \in BOOLEAN,
               ProviderReports(a, s, e)
        PROVE  CapturesAgree'
    <2>1. UNCHANGED <<attempts, events>>
      BY <1>5 DEF ProviderReports, paymentVars
    <2>2. /\ Exists(a) /\ "verified" \notin reported[a]
          /\ attempts[a].status # "verified"
          /\ {<<a, "verified">>, <<a, "order.paid">>} \intersect events = {}
      BY <1>5 DEF ProviderReports
    <2>3. /\ reported' = [reported EXCEPT ![a] = @ \union {s}]
          /\ exact' = IF e THEN exact \union {a} ELSE exact
          /\ e => s = "verified"
      BY <1>5 DEF ProviderReports
    <2> QED BY <2>1, <2>2, <2>3 DEF Exists
  <1>6. CASE Pay
    BY <1>1, <1>4, <1>5, <1>6 DEF Pay, InitiateRead, InitiateFail, providerVars
  <1>7. ASSUME NEW a \in Attempts, NEW s \in ResultStatus, NEW key \in EventName,
               ApplyProviderResult(a, s, key), s \in reported[a],
               key \in {"verified", "order.paid"} => s = "verified"
        PROVE  CapturesAgree'
    <2>1. UNCHANGED <<reported, exact>>
      BY <1>7 DEF ApplyProviderResult, providerVars
    <2>2. attempts[a] \in AttemptRow
      BY <1>7 DEF ApplyProviderResult, Exists
    <2>3. /\ attempts'[a] = AttemptAfter(attempts[a], a, s)
          /\ \A b \in Attempts \ {a} : attempts'[b] = attempts[b]
          /\ events' = events \union {<<a, key>>}
      BY <1>7 DEF ApplyProviderResult
    <2>4. attempts'[a] \in AttemptRow /\ attempts'[a] # NULL
      BY <2>2, <2>3, AttemptAfterType, NullAssumption
    <2>5. ASSUME NEW b \in Attempts, b # a
          PROVE  {<<b, "verified">>, <<b, "order.paid">>} \intersect events'
                    = {<<b, "verified">>, <<b, "order.paid">>} \intersect events
      BY <2>3, <2>5
    <2>6. CASE attempts[a].status = "verified"
      <3>1. attempts'[a] = attempts[a]
        BY <2>3, <2>6 DEF AttemptAfter
      <3> QED BY <1>7, <2>1, <2>3, <2>4, <2>5, <2>6, <3>1 DEF Exists
    <2>7. CASE attempts[a].status # "verified"
      <3>1. attempts'[a].status = s /\ attempts'[a].verifiedAt = Accepted(a, s)
        BY <2>2, <2>3, <2>7 DEF AttemptAfter, AttemptRow
      <3>2. {<<a, "verified">>, <<a, "order.paid">>} \intersect events = {}
        BY <2>7
      <3>3. {<<a, "verified">>, <<a, "order.paid">>} \intersect events' # {} =>
                s = "verified"
        BY <1>7, <2>3, <3>2
      <3> QED
        BY <1>7, <2>1, <2>3, <2>4, <2>5, <3>1, <3>3 DEF Exists, Accepted
    <2> QED BY <2>6, <2>7
  <1>8. CASE Reconcile
    BY <1>7, <1>8, ReconcileIsResult
  <1>9. CASE SetUp
    BY <1>1, <1>9 DEF SetUp, ConfigureRead, ConfigureCommit, ConfigureAbort,
                      QueueInitialProvisioning, SetupDies, ProvisioningSucceeds,
                      paymentVars, providerVars
  <1> QED BY <1>2, <1>3, <1>6, <1>8, <1>9 DEF Next

-----------------------------------------------------------------------------
(* Workspaces                                                              *)

\* The setup's own steps leave purchases and payments alone.
LEMMA SetupKeepsPayments ==
    ASSUME SetUp
    PROVE  UNCHANGED <<trial, attempts>>
  BY DEF SetUp, ConfigureRead, ConfigureCommit, ConfigureAbort,
         QueueInitialProvisioning, SetupDies, ProvisioningSucceeds,
         purchaseVars, paymentVars

LEMMA SetupIsBackedStep ==
    ASSUME Inv, [Next]_vars
    PROVE  SetupIsBacked' /\ OneWorkspacePerCheckout'
  <1> USE DEF Inv, SetupIsBacked, OneWorkspacePerCheckout, TypeOK
  <1>1. \A c \in Checkouts : Bought(c) => Bought(c)'
    BY BoughtStays
  <1>2. ASSUME UNCHANGED setupVars PROVE SetupIsBacked' /\ OneWorkspacePerCheckout'
    BY <1>1, <1>2, NullAssumption DEF setupVars
  <1>3. CASE UNCHANGED vars
    BY <1>2, <1>3 DEF vars
  <1>4. CASE Buy
    BY <1>2, <1>4 DEF Buy, PurchaseCheck, PurchaseInsert, PurchaseAbort
  <1>5. CASE Pay
    BY <1>2, <1>5 DEF Pay, InitiateRead, InitiateCommit, InitiateFail, ProviderReports
  <1>6. CASE Reconcile
    BY <1>2, <1>6, ReconcileIsResult DEF ApplyProviderResult
  <1>7. ASSUME NEW r \in Requests, NEW c \in Checkouts, ConfigureRead(r, c)
        PROVE  SetupIsBacked' /\ OneWorkspacePerCheckout'
    <2>1. Bought(c)
      BY <1>7 DEF ConfigureRead, OwnershipIsBought, Completed
    <2> QED BY <1>1, <1>7, <2>1 DEF ConfigureRead
  <1>8. ASSUME NEW r \in Requests, ConfigureCommit(r)
        PROVE  SetupIsBacked' /\ OneWorkspacePerCheckout'
    <2>1. configuring[r] \in Checkouts
      BY <1>8 DEF ConfigureCommit
    <2>2. workspaces' = [workspaces EXCEPT ![configuring[r]] = 1]
      BY <1>8, <2>1 DEF ConfigureCommit, SlugFree
    <2> QED BY <1>1, <1>8, <2>1, <2>2 DEF ConfigureCommit
  <1>9. ASSUME NEW r \in Requests, ConfigureAbort(r)
        PROVE  SetupIsBacked' /\ OneWorkspacePerCheckout'
    BY <1>1, <1>9 DEF ConfigureAbort
  <1>10. ASSUME NEW c \in Checkouts,
                QueueInitialProvisioning(c) \/ SetupDies(c) \/ ProvisioningSucceeds(c)
         PROVE  SetupIsBacked' /\ OneWorkspacePerCheckout'
    BY <1>1, <1>10 DEF QueueInitialProvisioning, SetupDies, ProvisioningSucceeds
  <1>11. CASE SetUp
    BY <1>7, <1>8, <1>9, <1>10, <1>11 DEF SetUp
  <1> QED BY <1>3, <1>4, <1>5, <1>6, <1>11 DEF Next

LEMMA OwnershipIsBoughtStep ==
    ASSUME Inv, [Next]_vars
    PROVE  OwnershipIsBought'
  <1> USE DEF Inv, OwnershipIsBought, TypeOK
  <1>1. \A c \in Checkouts : Bought(c) => Bought(c)'
    BY BoughtStays
  <1>2. ASSUME UNCHANGED <<status, workspaces>> PROVE OwnershipIsBought'
    BY <1>1, <1>2
  <1>3. CASE UNCHANGED vars
    BY <1>2, <1>3 DEF vars, setupVars
  <1>4. ASSUME NEW c \in Checkouts, PurchaseInsert(c) PROVE OwnershipIsBought'
    BY <1>1, <1>4 DEF PurchaseInsert, setupVars, Completed, Bought
  <1>5. CASE Buy
    BY <1>2, <1>4, <1>5 DEF Buy, PurchaseCheck, PurchaseAbort, setupVars
  <1>6. ASSUME NEW a \in Attempts, InitiateCommit(a) PROVE OwnershipIsBought'
    BY <1>1, <1>6 DEF InitiateCommit, setupVars, Completed
  <1>7. CASE Pay
    BY <1>2, <1>6, <1>7 DEF Pay, InitiateRead, InitiateFail, ProviderReports, setupVars
  <1>8. ASSUME NEW a \in Attempts, NEW s \in ResultStatus, NEW key \in EventName,
               ApplyProviderResult(a, s, key)
        PROVE  OwnershipIsBought'
    <2>0. attempts[a] \in AttemptRow /\ Exists(a)
      BY <1>8 DEF ApplyProviderResult, Exists
    <2>1. PICK c \in Checkouts : c = attempts[a].checkout
      BY <2>0 DEF AttemptRow
    <2>2. /\ workspaces' = workspaces
          /\ status' = [status EXCEPT ![c] = CheckoutAfter(status[c], a, s)]
          /\ attempts' = [attempts EXCEPT ![a] = AttemptAfter(attempts[a], a, s)]
      BY <1>8, <2>1 DEF ApplyProviderResult, setupVars
    <2>3. CASE CheckoutAfter(status[c], a, s) = status[c] \/
               CheckoutAfter(status[c], a, s) \notin Completed
      BY <1>1, <2>1, <2>2, <2>3
    <2>4. CASE Accepted(a, s)
      <3>1. attempts'[a] \in AttemptRow /\ attempts'[a].verifiedAt
        <4>1. attempts'[a] = AttemptAfter(attempts[a], a, s)
          BY <2>2
        <4>2. attempts[a].status = "verified" => attempts[a].verifiedAt
          BY <2>0, <2>4 DEF CapturesAgree, Accepted
        <4> QED BY <2>0, <2>4, <4>1, <4>2, AttemptAfterType, AcceptedIsRecorded
      <3>2. attempts'[a].checkout = c
        BY <2>0, <2>1, <2>2, AttemptAfterCheckout
      <3>3. Bought(c)'
        <4>1. a \in AttemptsOf(c)'
          BY <3>1, <3>2, NullAssumption DEF AttemptsOf, Exists
        <4> QED BY <3>1, <4>1 DEF Bought, Paid
      <3> QED BY <1>1, <2>1, <2>2, <3>3
    <2>5. CASE ~Accepted(a, s) /\ CheckoutAfter(status[c], a, s) # status[c]
      <3>1. CheckoutAfter(status[c], a, s) \notin Completed
        BY <2>5 DEF CheckoutAfter, Completed
      <3> QED BY <2>3, <3>1
    <2> QED BY <2>3, <2>4, <2>5
  <1>9. CASE Reconcile
    BY <1>8, <1>9, ReconcileIsResult
  <1>10. ASSUME NEW r \in Requests, ConfigureCommit(r) PROVE OwnershipIsBought'
    <2>1. configuring[r] \in Checkouts /\ Bought(configuring[r])
      BY <1>10 DEF ConfigureCommit, SetupIsBacked
    <2> QED BY <1>1, <1>10, <2>1 DEF ConfigureCommit
  <1>11. ASSUME NEW c \in Checkouts, ProvisioningSucceeds(c) PROVE OwnershipIsBought'
    <2>1. Bought(c)
      BY <1>11 DEF ProvisioningSucceeds, SetupIsBacked
    <2> QED BY <1>1, <1>11, <2>1 DEF ProvisioningSucceeds
  <1>12. CASE SetUp
    BY <1>2, <1>10, <1>11, <1>12
       DEF SetUp, ConfigureRead, ConfigureAbort, QueueInitialProvisioning, SetupDies
  <1> QED BY <1>3, <1>5, <1>7, <1>9, <1>12 DEF Next

-----------------------------------------------------------------------------
(* Trials                                                                  *)

\* Only the purchase changes the user's lock and the trials.
LEMMA PurchaseVarsChange ==
    ASSUME TypeOK, [Next]_vars, ~Buy
    PROVE  UNCHANGED purchaseVars
  <1>1. CASE UNCHANGED vars
    BY <1>1 DEF vars
  <1>2. CASE Pay
    BY <1>2 DEF Pay, InitiateRead, InitiateCommit, InitiateFail, ProviderReports
  <1>3. CASE Reconcile
    BY <1>3, ReconcileIsResult DEF ApplyProviderResult
  <1>4. CASE SetUp
    BY <1>4 DEF SetUp, ConfigureRead, ConfigureCommit, ConfigureAbort,
                QueueInitialProvisioning, SetupDies, ProvisioningSucceeds
  <1> QED BY <1>1, <1>2, <1>3, <1>4 DEF Next

LEMMA TrialStep ==
    ASSUME TypeOK, LockIsExclusive, OneTrialPerPackage, [Next]_vars
    PROVE  LockIsExclusive' /\ OneTrialPerPackage'
  <1> USE DEF LockIsExclusive, OneTrialPerPackage, PriorTrial, TypeOK
  <1>1. CASE ~Buy
    BY <1>1, PurchaseVarsChange DEF purchaseVars
  <1>2. ASSUME NEW c \in Checkouts, NEW t \in BOOLEAN, PurchaseCheck(c, t)
        PROVE  LockIsExclusive' /\ OneTrialPerPackage'
    BY <1>2 DEF PurchaseCheck, LockFree
  <1>3. ASSUME NEW c \in Checkouts, PurchaseInsert(c)
        PROVE  LockIsExclusive' /\ OneTrialPerPackage'
    <2>1. buying' = [buying EXCEPT ![c] = "idle"] /\ buying[c] # "idle"
      BY <1>3 DEF PurchaseInsert
    <2>2. \A d \in Checkouts : Owner[d] = Owner[c] => buying'[d] = "idle"
      BY <2>1
    <2>3. CASE trial' = trial
      BY <2>1, <2>3
    <2>4. CASE buying[c] = "trial" /\ trial' = trial \union {c}
      BY <2>1, <2>2, <2>4
    <2> QED BY <1>3, <2>3, <2>4 DEF PurchaseInsert
  <1>4. ASSUME NEW c \in Checkouts, PurchaseAbort(c)
        PROVE  LockIsExclusive' /\ OneTrialPerPackage'
    BY <1>4 DEF PurchaseAbort
  <1> QED BY <1>1, <1>2, <1>3, <1>4 DEF Buy

-----------------------------------------------------------------------------
(* The theorems                                                            *)

LEMMA InvInit == Init => Inv
  <1> SUFFICES ASSUME Init PROVE Inv
    OBVIOUS
  <1>1. TypeOK
    BY InitType
  <1>2. InitiateIsNew /\ CapturesAgree
    BY DEF Init, InitiateIsNew, CapturesAgree, Exists
  <1>3. SetupIsBacked /\ OwnershipIsBought /\ OneWorkspacePerCheckout
    BY DEF Init, SetupIsBacked, OwnershipIsBought, OneWorkspacePerCheckout, Completed
  <1>4. LockIsExclusive /\ OneTrialPerPackage
    BY DEF Init, LockIsExclusive, OneTrialPerPackage
  <1> QED BY <1>1, <1>2, <1>3, <1>4 DEF Inv

LEMMA InvStep == Inv /\ [Next]_vars => Inv'
  BY TypeStep, InitiateIsNewStep, CapturesAgreeStep, SetupIsBackedStep,
     OwnershipIsBoughtStep, TrialStep DEF Inv

LEMMA InvHolds == Spec => []Inv
  BY InvInit, InvStep, PTL DEF Spec

\* Nothing is set up or runs that was not bought, for any number of payment
\* attempts and requests and every order of payment events.
THEOREM Backed == Spec => []PurchaseIsBacked
  <1>1. Inv => PurchaseIsBacked
    BY DEF Inv, CapturesAgree, PurchaseIsBacked, VerifiedIsCaptured
  <1> QED BY <1>1, InvHolds, PTL

\* One purchase, one workspace.
THEOREM OneWorkspace == Spec => []OneWorkspacePerCheckout
  <1>1. Inv => OneWorkspacePerCheckout
    BY DEF Inv
  <1> QED BY <1>1, InvHolds, PTL

\* One trial of a package for a customer.
THEOREM OneTrial == Spec => []OneTrialPerPackage
  <1>1. Inv => OneTrialPerPackage
    BY DEF Inv
  <1> QED BY <1>1, InvHolds, PTL

\* A claimed exact capture is recorded on its attempt.
THEOREM ClaimedIsRecorded == Spec => []ClaimedCaptureIsRecorded
  <1>1. Inv => ClaimedCaptureIsRecorded
    BY DEF Inv, TypeOK, CapturesAgree, ClaimedCaptureIsRecorded
  <1> QED BY <1>1, InvHolds, PTL

\* A verified attempt is never changed again.
THEOREM VerifiedFinal == Spec => VerifiedAttemptIsFinal
  <1>1. Inv /\ [Next]_vars =>
            [\A a \in Attempts :
                Exists(a) /\ attempts[a].verifiedAt => attempts'[a] = attempts[a]]_vars
    BY VerifiedStays DEF Inv
  <1> QED BY <1>1, InvHolds, PTL DEF Spec, VerifiedAttemptIsFinal

-----------------------------------------------------------------------------
(* The refinement of PurchaseLifecycle                                     *)

\* The checkout row comes first: trials, attempts and initiate requests are
\* for checkouts that exist.
OpenedFirst ==
    /\ \A c \in trial : status[c] # "absent"
    /\ \A a \in Attempts :
           /\ Exists(a) => status[attempts[a].checkout] # "absent"
           /\ initiating[a] # NULL => status[initiating[a].checkout] # "absent"

LEMMA BoughtIsOpen ==
    ASSUME OpenedFirst, NEW c \in Checkouts, Bought(c)
    PROVE  status[c] # "absent"
  BY DEF OpenedFirst, Bought, Paid, AttemptsOf

-----------------------------------------------------------------------------
(* The step of OpenedFirst                                                 *)

\* A checkout that exists goes on existing.
LEMMA StaysOpen ==
    ASSUME TypeOK, [Next]_vars, NEW c \in Checkouts, status[c] # "absent"
    PROVE  status'[c] # "absent"
  <1> USE DEF TypeOK
  <1>1. CASE UNCHANGED vars
    BY <1>1 DEF vars
  <1>2. CASE Buy
    BY <1>2 DEF Buy, PurchaseCheck, PurchaseInsert, PurchaseAbort
  <1>3. CASE Pay
    BY <1>3 DEF Pay, InitiateRead, InitiateCommit, InitiateFail, ProviderReports
  <1>4. CASE Reconcile
    BY <1>4, ReconcileIsResult DEF ApplyProviderResult, CheckoutAfter
  <1>5. CASE SetUp
    BY <1>5 DEF SetUp, ConfigureRead, ConfigureCommit, ConfigureAbort,
                QueueInitialProvisioning, SetupDies, ProvisioningSucceeds
  <1> QED BY <1>1, <1>2, <1>3, <1>4, <1>5 DEF Next

LEMMA OpenedFirstStep ==
    ASSUME TypeOK, OpenedFirst, [Next]_vars
    PROVE  OpenedFirst'
  <1> USE DEF OpenedFirst, TypeOK
  <1>1. \A a \in Attempts :
            /\ Exists(a) => attempts[a].checkout \in Checkouts
            /\ initiating[a] # NULL => initiating[a].checkout \in Checkouts
    BY DEF Exists, AttemptRow, InitiateInput
  <1>2. \A c \in Checkouts : status[c] # "absent" => status'[c] # "absent"
    BY StaysOpen
  <1>3. ASSUME UNCHANGED <<trial, attempts, initiating>> PROVE OpenedFirst'
    BY <1>1, <1>2, <1>3 DEF Exists
  <1>4. CASE UNCHANGED vars
    BY <1>3, <1>4 DEF vars, purchaseVars, paymentVars
  <1>5. CASE Buy
    <2>1. UNCHANGED <<attempts, initiating>>
      BY <1>5 DEF Buy, PurchaseCheck, PurchaseInsert, PurchaseAbort, paymentVars
    <2>2. \A c \in trial' : status'[c] # "absent"
      BY <1>2, <1>5 DEF Buy, PurchaseCheck, PurchaseInsert, PurchaseAbort
    <2> QED BY <1>1, <1>2, <2>1, <2>2 DEF Exists
  <1>6. ASSUME NEW a \in Attempts, NEW c \in Checkouts, NEW p \in Providers,
               InitiateRead(a, c, p)
        PROVE  OpenedFirst'
    <2>1. status'[c] # "absent"
      BY <1>2, <1>6 DEF InitiateRead, Payable
    <2>2. UNCHANGED <<trial, attempts>>
      BY <1>6 DEF InitiateRead, purchaseVars
    <2>3. /\ initiating'[a].checkout = c
          /\ \A b \in Attempts \ {a} : initiating'[b] = initiating[b]
      BY <1>6 DEF InitiateRead
    <2> QED BY <1>1, <1>2, <2>1, <2>2, <2>3 DEF Exists
  <1>7. ASSUME NEW a \in Attempts, InitiateCommit(a) PROVE OpenedFirst'
    <2>1. /\ attempts'[a].checkout = initiating[a].checkout
          /\ \A b \in Attempts \ {a} : attempts'[b] = attempts[b]
      BY <1>7 DEF InitiateCommit
    <2>2. trial' = trial /\ initiating[a] # NULL
      BY <1>7 DEF InitiateCommit, purchaseVars
    <2>3. \A b \in Attempts : initiating'[b] # NULL => initiating'[b] = initiating[b]
      BY <1>7 DEF InitiateCommit
    <2> QED BY <1>1, <1>2, <2>1, <2>2, <2>3 DEF Exists
  <1>8. ASSUME NEW a \in Attempts, InitiateFail(a) PROVE OpenedFirst'
    <2>1. \A b \in Attempts : initiating'[b] # NULL => initiating'[b] = initiating[b]
      BY <1>8 DEF InitiateFail
    <2>2. UNCHANGED <<trial, attempts>>
      BY <1>8 DEF InitiateFail, purchaseVars
    <2> QED BY <1>1, <1>2, <2>1, <2>2 DEF Exists
  <1>9. CASE Pay
    BY <1>3, <1>6, <1>7, <1>8, <1>9 DEF Pay, ProviderReports, purchaseVars, paymentVars
  <1>10. ASSUME NEW a \in Attempts, NEW s \in ResultStatus, NEW key \in EventName,
                ApplyProviderResult(a, s, key)
         PROVE  OpenedFirst'
    <2>1. attempts[a] \in AttemptRow /\ Exists(a)
      BY <1>10 DEF ApplyProviderResult, Exists
    <2>2. /\ attempts'[a].checkout = attempts[a].checkout
          /\ \A b \in Attempts \ {a} : attempts'[b] = attempts[b]
      BY <1>10, <2>1, AttemptAfterCheckout DEF ApplyProviderResult
    <2>3. UNCHANGED <<trial, initiating>>
      BY <1>10 DEF ApplyProviderResult, purchaseVars
    <2> QED BY <1>1, <1>2, <2>1, <2>2, <2>3 DEF Exists
  <1>11. CASE Reconcile
    BY <1>10, <1>11, ReconcileIsResult
  <1>12. CASE SetUp
    BY <1>3, <1>12
       DEF SetUp, ConfigureRead, ConfigureCommit, ConfigureAbort,
           QueueInitialProvisioning, SetupDies, ProvisioningSucceeds,
           purchaseVars, paymentVars
  <1> QED BY <1>4, <1>5, <1>9, <1>11, <1>12 DEF Next

-----------------------------------------------------------------------------
(* Phases                                                                  *)

phases == [c \in Checkouts |-> Phase(c)]

LEMMA SamePhase ==
    ASSUME NEW c \in Checkouts,
           job'[c] = job[c], workspaces'[c] = workspaces[c],
           Bought(c)' <=> Bought(c),
           status'[c] = "absent" <=> status[c] = "absent"
    PROVE  Phase(c)' = Phase(c)
  BY DEF Phase

LEMMA SameBought ==
    ASSUME UNCHANGED <<trial, attempts>>, NEW c
    PROVE  Bought(c)' <=> Bought(c)
  BY DEF Bought, Paid, AttemptsOf, Exists

LEMMA NoPhaseMoves ==
    ASSUME \A c \in Checkouts : Phase(c)' = Phase(c)
    PROVE  [Lifecycle!Next]_phases
  BY DEF phases

\* One checkout that moves along one edge of the lifecycle.
LEMMA OnePhaseMoves ==
    ASSUME NEW c \in Checkouts,
           \A d \in Checkouts \ {c} : Phase(d)' = Phase(d),
           \/ Phase(c)' = Phase(c)
           \/ <<Phase(c), Phase(c)'>> \in
                  {<<"absent", "open">>, <<"absent", "bought">>, <<"open", "bought">>,
                   <<"bought", "set_up">>, <<"set_up", "queued">>, <<"queued", "running">>}
    PROVE  [Lifecycle!Next]_phases
  <1>1. CASE Phase(c)' = Phase(c)
    BY <1>1, NoPhaseMoves
  <1>2. ASSUME NEW from, NEW to, Phase(c) = from, Phase(c)' = to
        PROVE  Lifecycle!Move(c, from, to)
    BY <1>2 DEF Lifecycle!Move
  <1>3. CASE Phase(c)' # Phase(c)
    <2>1. \/ Lifecycle!Move(c, "absent", "open") \/ Lifecycle!Move(c, "absent", "bought")
          \/ Lifecycle!Move(c, "open", "bought") \/ Lifecycle!Move(c, "bought", "set_up")
          \/ Lifecycle!Move(c, "set_up", "queued") \/ Lifecycle!Move(c, "queued", "running")
      BY <1>2, <1>3
    <2> QED
      BY <2>1 DEF Lifecycle!Next, Lifecycle!Open, Lifecycle!ApproveTrial,
                  Lifecycle!Capture, Lifecycle!SetUp, Lifecycle!Queue, Lifecycle!Run
  <1> QED BY <1>1, <1>3

-----------------------------------------------------------------------------
(* The steps                                                               *)

\* A purchase that is not bought has no workspace and no job; one without a
\* workspace has no job.
LEMMA PhaseOrder ==
    ASSUME Inv, NEW c \in Checkouts
    PROVE  /\ ~Bought(c) => workspaces[c] = 0
           /\ workspaces[c] = 0 => job[c] = "none"
  BY DEF Inv, TypeOK, SetupIsBacked, OwnershipIsBought

LEMMA BuyStep ==
    ASSUME Inv, OpenedFirst, Buy
    PROVE  [Lifecycle!Next]_phases
  <1> USE DEF Inv, TypeOK
  <1>0. UNCHANGED <<attempts, workspaces, job>>
    BY DEF Buy, PurchaseCheck, PurchaseInsert, PurchaseAbort,
           paymentVars, setupVars
  <1>1. CASE UNCHANGED <<status, trial>>
    BY <1>0, <1>1, SameBought, SamePhase, NoPhaseMoves
  <1>2. ASSUME NEW c \in Checkouts, PurchaseInsert(c)
        PROVE  [Lifecycle!Next]_phases
    <2>1. /\ status[c] = "absent" /\ status'[c] # "absent"
          /\ \A d \in Checkouts \ {c} :
                 /\ status'[d] = status[d]
                 /\ d \in trial' <=> d \in trial
      BY <1>2 DEF PurchaseInsert
    <2>2. \A d \in Checkouts : Paid(d)' <=> Paid(d)
      BY <1>0 DEF Paid, AttemptsOf, Exists
    <2>3. \A d \in Checkouts \ {c} : Phase(d)' = Phase(d)
      BY <1>0, <2>1, <2>2, SamePhase DEF Bought
    <2>4. ~Bought(c) /\ workspaces[c] = 0 /\ job[c] = "none"
      BY <2>1, BoughtIsOpen, PhaseOrder
    <2>5. Phase(c) = "absent" /\ Phase(c)' \in {"open", "bought"}
      BY <1>0, <2>1, <2>4 DEF Phase
    <2> QED BY <2>3, <2>5, OnePhaseMoves
  <1> QED
    BY <1>1, <1>2 DEF Buy, PurchaseCheck, PurchaseAbort

LEMMA PayStep ==
    ASSUME Inv, OpenedFirst, Pay
    PROVE  [Lifecycle!Next]_phases
  <1> USE DEF Inv, TypeOK
  <1>0. UNCHANGED <<trial, workspaces, job>>
    BY DEF Pay, InitiateRead, InitiateCommit, InitiateFail, ProviderReports,
           purchaseVars, setupVars
  <1>1. CASE UNCHANGED <<status, attempts>>
    BY <1>0, <1>1, SameBought, SamePhase, NoPhaseMoves
  <1>2. ASSUME NEW a \in Attempts, InitiateCommit(a)
        PROVE  [Lifecycle!Next]_phases
    <2>1. initiating[a] # NULL /\ attempts[a] = NULL
      BY <1>2 DEF InitiateCommit, InitiateIsNew
    <2>2. PICK c \in Checkouts : c = initiating[a].checkout
      BY <2>1 DEF InitiateInput
    <2>3. /\ status' = [status EXCEPT ![c] = "payment_pending"]
          /\ status[c] # "absent"
      BY <1>2, <2>1, <2>2 DEF InitiateCommit, OpenedFirst
    <2>4. /\ attempts'[a].verifiedAt = FALSE
          /\ \A b \in Attempts \ {a} : attempts'[b] = attempts[b]
      BY <1>2 DEF InitiateCommit
    <2>5. \A d \in Checkouts : Bought(d)' <=> Bought(d)
      BY <1>0, <2>1, <2>4 DEF Bought, Paid, AttemptsOf, Exists
    <2> QED BY <1>0, <2>3, <2>5, SamePhase, NoPhaseMoves
  <1> QED
    BY <1>1, <1>2 DEF Pay, InitiateRead, InitiateFail, ProviderReports, paymentVars

LEMMA ReconcileStep ==
    ASSUME Inv, OpenedFirst, Reconcile
    PROVE  [Lifecycle!Next]_phases
  <1> USE DEF Inv, TypeOK
  <1>1. PICK a \in Attempts, s \in ResultStatus, key \in EventName :
            ApplyProviderResult(a, s, key)
    BY ReconcileIsResult
  <1>2. attempts[a] \in AttemptRow /\ Exists(a)
    BY <1>1 DEF ApplyProviderResult, Exists
  <1>3. PICK c \in Checkouts : c = attempts[a].checkout
    BY <1>2 DEF AttemptRow
  <1>4. /\ status' = [status EXCEPT ![c] = CheckoutAfter(@, a, s)]
        /\ UNCHANGED <<trial, workspaces, job>>
        /\ \A b \in Attempts \ {a} : attempts'[b] = attempts[b]
        /\ attempts'[a] = AttemptAfter(attempts[a], a, s)
    BY <1>1, <1>3 DEF ApplyProviderResult, purchaseVars, setupVars
  <1>5. attempts'[a] # NULL /\ attempts'[a].checkout = c
    BY <1>2, <1>3, <1>4, AttemptAfterType, AttemptAfterCheckout, NullAssumption
  <1>6. \A d \in Checkouts \ {c} : Paid(d)' <=> Paid(d)
    BY <1>2, <1>3, <1>4, <1>5 DEF Paid, AttemptsOf, Exists
  <1>7. \A d \in Checkouts \ {c} : Phase(d)' = Phase(d)
    BY <1>4, <1>6, SamePhase DEF Bought
  <1>8. status[c] # "absent" /\ status'[c] # "absent"
    BY <1>2, <1>3, <1>4 DEF OpenedFirst, CheckoutAfter
  <1>9. CASE Bought(c)' <=> Bought(c)
    BY <1>4, <1>7, <1>8, <1>9, SamePhase, NoPhaseMoves
  <1>10. CASE ~Bought(c) /\ Bought(c)'
    <2>1. workspaces[c] = 0 /\ job[c] = "none"
      BY <1>10, PhaseOrder
    <2>2. Phase(c) = "open" /\ Phase(c)' = "bought"
      BY <1>4, <1>8, <1>10, <2>1 DEF Phase
    <2> QED BY <1>7, <2>2, OnePhaseMoves
  <1>11. Bought(c) => Bought(c)'
    BY BoughtStays DEF Next
  <1> QED BY <1>9, <1>10, <1>11

LEMMA SetUpStep ==
    ASSUME Inv, OpenedFirst, SetUp
    PROVE  [Lifecycle!Next]_phases
  <1> USE DEF Inv, TypeOK
  <1>0. \A d \in Checkouts : Bought(d)' <=> Bought(d)
    BY SetupKeepsPayments, SameBought
  <1>1. CASE UNCHANGED <<status, workspaces, job>>
    BY <1>0, <1>1, SamePhase, NoPhaseMoves
  <1>2. ASSUME NEW r \in Requests, ConfigureCommit(r)
        PROVE  [Lifecycle!Next]_phases
    <2>1. PICK c \in Checkouts : c = configuring[r]
      BY <1>2 DEF ConfigureCommit
    <2>2. Bought(c) /\ workspaces[c] = 0 /\ job[c] = "none"
      BY <1>2, <2>1, PhaseOrder DEF ConfigureCommit, SlugFree, SetupIsBacked
    <2>3. /\ status' = [status EXCEPT ![c] = "provisioning"]
          /\ workspaces' = [workspaces EXCEPT ![c] = 1]
          /\ job' = job
      BY <1>2, <2>1, <2>2 DEF ConfigureCommit
    <2>4. \A d \in Checkouts \ {c} : Phase(d)' = Phase(d)
      BY <1>0, <2>3, SamePhase
    <2>5. Phase(c) = "bought" /\ Phase(c)' = "set_up"
      BY <1>0, <2>2, <2>3 DEF Phase
    <2> QED BY <2>4, <2>5, OnePhaseMoves
  <1>3. ASSUME NEW c \in Checkouts, QueueInitialProvisioning(c)
        PROVE  [Lifecycle!Next]_phases
    <2>1. workspaces[c] > 0
      BY <1>3 DEF QueueInitialProvisioning, SetupIsBacked
    <2>2. /\ job' = [job EXCEPT ![c] = IF @ = "none" THEN "queued" ELSE @]
          /\ UNCHANGED <<status, workspaces>>
      BY <1>3 DEF QueueInitialProvisioning
    <2>3. \A d \in Checkouts \ {c} : Phase(d)' = Phase(d)
      BY <1>0, <2>2, SamePhase
    <2>4. Phase(c)' = Phase(c) \/ (Phase(c) = "set_up" /\ Phase(c)' = "queued")
      BY <1>0, <2>1, <2>2 DEF Phase
    <2> QED BY <2>3, <2>4, OnePhaseMoves
  <1>4. ASSUME NEW c \in Checkouts, ProvisioningSucceeds(c)
        PROVE  [Lifecycle!Next]_phases
    <2>1. /\ job[c] = "queued" /\ job' = [job EXCEPT ![c] = "succeeded"]
          /\ status' = [status EXCEPT ![c] = "active"] /\ workspaces' = workspaces
      BY <1>4 DEF ProvisioningSucceeds
    <2>2. \A d \in Checkouts \ {c} : Phase(d)' = Phase(d)
      BY <1>0, <2>1, SamePhase
    <2>3. Phase(c) = "queued" /\ Phase(c)' = "running"
      BY <2>1 DEF Phase
    <2> QED BY <2>2, <2>3, OnePhaseMoves
  <1> QED
    BY <1>1, <1>2, <1>3, <1>4 DEF SetUp, ConfigureRead, ConfigureAbort, SetupDies

-----------------------------------------------------------------------------
LEMMA LifecycleInit == Init => Lifecycle!Init /\ OpenedFirst
  BY DEF Init, Lifecycle!Init, OpenedFirst, Phase, Bought, Paid, AttemptsOf, Exists

LEMMA LifecycleStep == Inv /\ OpenedFirst /\ [Next]_vars => [Lifecycle!Next]_phases
  <1> SUFFICES ASSUME Inv, OpenedFirst, [Next]_vars
               PROVE  [Lifecycle!Next]_phases
    OBVIOUS
  <1>1. CASE UNCHANGED vars
    <2>1. UNCHANGED <<status, trial, attempts, workspaces, job>>
      BY <1>1 DEF vars, purchaseVars, paymentVars, setupVars
    <2> QED BY <2>1, SameBought, SamePhase, NoPhaseMoves
  <1> QED BY <1>1, BuyStep, PayStep, ReconcileStep, SetUpStep DEF Next

\* The controllers implement the documented lifecycle of a purchase: for all
\* quotes, attempts and requests, each step moves at most one purchase, and
\* only to its next phase.
THEOREM Refinement == Spec => FollowsLifecycle
  <1>1. TypeOK /\ OpenedFirst /\ [Next]_vars => OpenedFirst'
    BY OpenedFirstStep
  <1>2. Inv => TypeOK
    BY DEF Inv
  <1>3. Spec => []OpenedFirst
    BY <1>1, <1>2, LifecycleInit, InvHolds, PTL DEF Spec
  <1>4. Spec => Lifecycle!Init /\ [][Lifecycle!Next]_phases
    BY <1>3, LifecycleInit, LifecycleStep, InvHolds, PTL DEF Spec
  <1> QED BY <1>4, PTL DEF FollowsLifecycle, Lifecycle!Spec, phases
=============================================================================
