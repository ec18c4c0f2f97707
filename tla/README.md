# A verification project for the Qubit hosting panel

TLA+ models of the hosting panel in `src/`, the TLC runs that check them on small
instances, and TLAPS proofs of the properties that matter most for every instance.
`PROJECT.json` lists the components, runs, mutants, findings, hazards and theorems,
and maps every definition that models code to the lines it stands for.

## The system

The panel is a React Router server. A request is handled by a controller in
`src/src/controllers`, which authenticates the session, reads and writes PostgreSQL
through drizzle, calls services in `src/src/services` and, through them, external
systems: payment providers, the hosting provider (Coolify), database clusters, DNS
providers, GitHub and the OTP gateway. Several requests, of several panel processes,
run at once. A database transaction (READ COMMITTED) is atomic in what it writes, but
most handlers read first, wait for an external system, and then write **by id**,
without looking at the row again. Background work is done by functions that claim rows
of job tables; they run in the minute cron, in an internal endpoint and, without being
awaited, at the end of requests. Nothing is restarted where it stopped: what a dead
process leaves behind is what the rows say.

### Inventory

| Component | State | Operations | What is hard | What makes it correct |
|---|---|---|---|---|
| Checkout and workspace setup (`CheckoutController`) | `customer_checkouts`, workspaces, subscriptions | purchase, configure | advisory lock, unique quote and slug, queueing after the commit | one trial per package; one workspace per purchase; nothing is owned that was not bought; a set-up workspace is provisioned |
| Payments (`PaymentController`, three adapters) | `payment_attempts`, `payment_webhook_events` | initiate, callback, webhook | read, provider call, write by id; duplicated and reordered events; wrong amounts | an exact capture is recorded once and for ever |
| Provisioning (`provisioningService`, `OperationsController.retry`) | `provisioning_jobs`, `workspace_resources`, builds and deployments | queue, select, claim, submit, poll, fail, retry | optimistic claim from stale reads; provider calls between claim and commit; crashes; operator races | one worker per job; no attempt that nobody granted; one provider application per application; every job settles |
| Coolify adapter (`CoolifyHostingProvider`) | provider applications | list, create or reuse, deploy, read status, control | list and create are two calls | as above |
| Applications (`ApplicationController`, `CoolifyWebhookController`) | `application_builds`, `application_deployments`, domains | create, update, control, destroy, provider events | quota, domains, jobs and provider in one request; the worker and the webhook write the same rows | rows agree with the newest deployment; nothing deleted comes back |
| Usage quota (`quotaEngine`) | `workspace_usage_reservations` | reserve, commit, release, expire | the count is read before the lock; a transaction that needs a second connection; TTL; compensation on every path | a limit is not exceeded; nothing is held back; nobody waits for ever |
| Workspace lifecycle and subscriptions (`WorkspaceLifecycleController`, `SubscriptionAdministrationController`, the entitlement backfill) | workspaces, memberships, billing profiles, transfers, subscriptions and items | convert, bill, transfer, cancel, administer, add on, backfill | responses, cancellation and expiry of one transfer; version numbers; owner, administrator and backfill write one subscription | always an owner, changed by consent; versions are dense; codes occur once |
| Accounts and sessions (`AuthController`, `SessionController`, `AdminController`, `CustomerControlController`) | users, OTP challenges, handoffs, sessions | request, resend, verify, refresh, revoke, hand off, add, suspend, remove | one code presented twice; two codes of one new number; suspension in the middle of a sign-in | a code opens one session; one account per identity; a refused session stays refused |
| Logical databases (`DatabaseLifecycleController`, `WorkspaceDatabaseController`) | `logical_databases`; the cluster | create, clone, rename, move, delete | two systems in separate steps, each with its own compensation | the database a row names exists and holds its data |
| Database transfers (`databaseTransferJobService`) | `database_transfer_jobs`; artifact storage | queue, cancel, retry, claim, run, expire | overlapping worker runs; cancellation against completion; clean-up against retry | one execution per job; offered downloads exist; jobs settle |
| Database gateway (`DatabaseLifecycleController.externalAccess`, `databaseExternalAccessConfigService`, the host's sync agent) | `database_external_access_rules`; listeners and firewall of the host | save, revoke, expire, fetch, reconcile, acknowledge | port search; an agent that may die; late results for older policies | an active rule has been applied; a revoked one is closed for good |
| Users and grants (`DatabaseAccessController`, `databaseGrantExpiryService`) | `database_users`, `database_user_grants`; logins and privileges of the server | create, update, revoke, suspend, restore, delete, expire, rotate | server first, row second, by id; the expiry service between them; compensation that may fail | a grant that is due ends; nothing is allowed that no grant records |
| Backups, clusters, explorer | schedule, backup, cluster rows; the cluster | run, restore, create | as for logical databases, without claims | rows describe what the cluster holds |
| Domains (`ApplicationDomainController`, `domainOwnershipService`) | ownership claims, bindings, access requests; the provider's hostnames | claim, add, verify, request, answer, remove | owner, claim and rows read one by one; the provider told before the rows are written | only an entitled application is routed to |
| DNS hosting (`DnsController`) | zones, records; the DNS provider | create, delegate, synchronise, remove | provider first, rows second | rows describe what is published |
| Platform deployments (`platformDeploymentService`) | `platform_deployments` | start, view, refresh | the deployment restarts the process that asked for it; answers written in another order than they were given | an accepted deployment ends |
| Provider reconciliation, GitHub connections | rows refreshed from a provider | sync | the same | rows follow the provider |
| Catalogue, settings, health, explorer, detection, user interface | single rows, or none | | little that is concurrent | unit tests |

Interaction of the modelled parts: a **purchase** makes a checkout row; **initiate**
makes an attempt; **callback and webhook** move attempt and checkout; **configure**
makes the workspace, its owner, its first billing version and its subscription
(`Checkout`, where `Workspaces` begins) and queues the initial job; a **worker** submits
and polls that job, as it does the jobs that **create** and **update** queue for
applications (`Provisioning`). A **session** (`Accounts`) names the user of every
request; an **entitlement** of the subscription is the limit of a quota (`Quota`), under
which applications, their domains (`ApplicationDomains`) and databases
(`LogicalDatabases`) are created; a database has transfer jobs (`Transfers`) and a rule
at the gateway (`ExternalAccess`), and logins with grants (`DatabaseGrants`). `PROJECT.json` lists under `hazards` what is hard to
test in this, at its line, and the properties that are about it.

## Modules

| Module | Models |
|---|---|
| `PurchaseLifecycle` | abstract: what a purchase promises, as a phase per checkout |
| `Checkout` | CheckoutController, PaymentController, queueInitialProvisioning |
| `CheckoutProofs` | the inductive invariant of `Checkout` and its theorems; `Checkout` implements `PurchaseLifecycle` |
| `Provisioning` | processProvisioningJobs, the handlers that queue jobs, the operator's retry, the Coolify adapter's provisionApplication and getDeployment |
| `ProvisioningProofs` | the claim is exclusive; success is final; every attempt was granted; what is accepted has a resource row and is only polled |
| `Workspaces` | WorkspaceLifecycleController, SubscriptionAdministrationController, the entitlement backfill |
| `WorkspacesProofs` | ownership, billing versions, scheduled cancellation, entitlement codes |
| `Accounts` | AuthController, SessionController, the customer and administrator accounts |
| `AccountsProofs` | one session per proof; registrations stay apart; a refusal is final |
| `Quota` | quotaEngine and the requests that create or move resources under a count quota, down to the pool |
| `QuotaProofs` | the bound on the overrun; nothing is held back |
| `LogicalDatabases` | create, clone, rename, move and delete across rows and cluster |
| `Transfers` | databaseTransferJobService |
| `DatabaseProofs` | transfer rows, artifacts and runs agree; one execution; a database row loses its data only to an overlapping request |
| `ExternalAccess` | gateway rules, port allocation and the host agent |
| `ExternalAccessProofs` | ports never conflict; what shows active was applied |
| `ApplicationDomains` | ownership claims, custom domains, access requests, routing |
| `ApplicationDomainsProofs` | what is routed is entitled |
| `DatabaseGrants` | additional logins and grants, and the expiry service, down to the server's privileges |
| `PlatformDeployments` | platformDeploymentService through the restart it causes |
| `MCCheckout`, `MCProvisioning`, `MCTenancy`, `MCServices` | instances for TLC |

### Conventions

* A step ends where the code waits: at an `await` of an external call, between two
  transactions or statements that stand alone, and between the reads and the writes of
  a transaction wherever READ COMMITTED lets another one in. What runs inside one
  transaction without such a gap is one action.
* `NULL`, `NONE`, `Nothing`, `Nowhere`, ... are the absent row or the unset local
  variable of a module. A worker's or a request's local variables are variables of the
  model (`initiating`, `held`, `mem`, `kept`, `seen`, `runner`, `op`, ...), because the
  stale value is what the hazard is about.
* A definition whose comment starts with "Mutant" or "A wrong version" is not part of
  the specification: it is a plausible bug of the definition after it, and shows that a
  property would notice.
* Any request may end between two of its steps: one action of each module stands for the
  refusals, the errors of the database and the death of the process, where they leave
  the same rows behind; where they do not (a catch block that compensates), they are
  actions of their own.

### Checkout

`status` is the status column, `trial` the trial_selected column, `attempts` and
`events` the two payment tables. A purchase is a check under the customer's advisory
lock and an insert; `buying` is the transaction in between. `initiating` holds what an
initiate request read before it asked the provider. Attempts carry whether they used
the first idempotency key, since two first attempts with one provider collide on the
unique index and later ones (keyed by the time) do not. `events` holds claimed keys:
of a webhook the stage it reports (and Razorpay's second event for a capture), of a
Razorpay callback order and payment. `reported` and `exact` are the provider: which
stages an order has reached and whether its capture is for the checkout's amount and
currency. A report may be delivered at any time, any number of times, or never; each
stage of an order has one event key, so a second failed payment of one order is not
told from the first. `workspaces` counts what setup inserts; the slug, derived from
the checkout's public id, is unique. `unqueued` is the gap between the commit of the
setup and the insert of the job. The job's run is one action here; `Provisioning` is
its detail.

### Provisioning

`jobs` are the rows in order of creation, with the columns that the worker reads:
`accepted` says whether the result names a provider resource. `due` abstracts
nextAttemptAt to whether it has passed. `build`, `deployed` and `resource` are the rows
the worker keeps in step. `copies` and `latest` are the provider: how many applications
it holds under a name and how the latest deployment of each stands. A worker runs
through `pc`: selected, claimed, listing, creating, created, polling, answered,
failing, failed, idle; after every provider call it may be thrown into its catch block,
also when the provider has acted. An operator's retry is a read and a write by id, any
number of them at a time: `retrying` holds every row that some retry has read, and each
write uses one of them, however old, so that retries are written in any order.

An application's provider name is the slug of its name and the workspace; `Named` gives
the first one and `UpdateApplication` may change it to one of `Renames`. Not modelled: the
mock provider, which succeeds at once; jobs of deleted builds; the selection's limit
per call (a worker that goes idle may go on or end); database errors inside the catch
block. The adapter's create, settings, environment and deploy calls are one step
(`CreateOrReuse`): between them nothing but the application of this worker changes.

### Workspaces

`role` is the membership of a customer in a workspace, `transfers` the rows of
workspace_ownership_transfers, `profiles` the version numbers of a workspace's billing
profiles, `subscription` the primary row with its scheduled flag, its add-on items and
the entitlement codes of its snapshot. A request is a read (`Authorize`, `Respond`, ...)
and the statements that follow. An accept is split at each statement of its
transaction: the sender is demoted if still owner, the recipient promoted or inserted,
the transfer updated by id, the sender's workspaces counted, and all of it committed;
`MemberLocked` and `TransferLocked` are the row locks that hold others back until then.
A new billing version takes the workspace's advisory lock, reads the highest number and
inserts the next. Expiry only sets a flag: no statement marks the row. `Configure` is
what `Checkout` does, as one step. The contents of a profile, members other than owners
and what a cancellation leads to at the end of the period are left out.

### Accounts

`users`, `challenges`, `handoffs` and `sessions` are the tables; a session remembers in
`by` the code or the handoff that opened it. A sign-in is: read the challenge, compare,
count or consume by a guarded update, lock the identity, look it up, insert, commit,
open the session. `verifyOtp`'s transaction commits between the insert of the account
and the insert of the session, which is where an administrator can come between.
`version` is token_version, which refresh compares. Only the customer control's status
change (`UpdateStatus`) raises it; AdminController.update and remove write status and
deletion after separate reads and leave it as it is. Left out: rotation of refresh tokens,
the context switch, request limits, the development bypass, roles other than "Super Admin or not", and cryptography.

### Quota

`resources` counts what exists of each code, `arrived` are the databases moved here, `rows`
the reservations by idempotency key, with status and quantity. A request goes through a
list of items, each a code and a quantity; for each it counts, begins the transaction,
takes the advisory lock, reads the entitlement over **another** connection of the pool, and
reserves or refuses; then it persists its resources and finalises. Every path that fails
after a reservation goes to `release`, as the catch blocks do. A creation uses random keys,
one per item; an application with custom domains reserves as many units of a second code. A
move uses the key of the database and the workspace: where that key has a row, the row's
status decides and nothing is compared with the limit (`Reuse`, and the second case of
`Refuse`). `lapsed` is a pending row whose five minutes are over; the next decision on the
code marks it expired. A request that dies is `gone` and its place is taken again once
none of its reservations is pending. `unchecked` is history: the databases that
arrived on a reservation of an earlier move. Soft and metered modes refuse nothing and
are left out.

### Logical databases

`name` is the row, `engine` the physical databases of the cluster, each with the row
whose data it holds; `op` is what a request does, with the handler's own flag `created`.
The flag decides what the catch block drops, and each operation sets and takes it back
at its own place. Requests overlap freely: nothing in the code keeps apart two that ask for
one name or one row, and a CREATE that fails, since the name exists, drops the database
of that name. `doomed` remembers which deletions the owner has confirmed: after the
confirmation the data may go, on whichever path. `clashed` remembers the databases for whose
new name another request was asking, or which it was about to drop, when the name was
asked for.

### Transfers

`job` are the rows, `artifacts` the keys in storage, `lapsed` the completed exports
whose time is over, `runner` the worker runs: each selects the oldest queued job, claims
it by a guarded update, executes and completes **by id**; when nothing is queued it
cleans expired artifacts. A customer cancels, or reads a failed job and requeues it by
id. `Retriers` are the retry requests served at one time. `Elapsed` happens only to
exports that nobody is about to execute: the hours until expiry are longer than that.

### External access

`rule` are the rows, `expired` those whose time has passed, `request` what a saving
request has read, `listening` and `allowed` the host's listener units and firewall,
`results` what the agent has posted and the panel not yet recorded. `applied` is
history. A run of the agent is fetch (which also revokes what has expired), reconcile
the listeners, reconcile the firewall, and post. It may die between any two steps; a
listener may fail and be up or down afterwards; posts may be lost, delayed or
reordered. A save without an expiry leaves the row's. Source addresses and the listener's configuration are part of the policy.

### Database grants

`account` and `grant` are the rows of additional logins and their grants, `login` and
`access` what the database server holds: whether a login exists and is locked, and what
it may do. `ask` is what a request has read and where it stands, `sweep` the grants a run
of the expiry service has read and the one it has just revoked. A request reads its
rows, calls the server, and writes by id; a call of DatabaseAccessService is one step,
which may fail after its revocation and before its grant. The catch block of a creation
deletes the login it has made, or revokes, and may fail at either. `expires` says whether
a grant ends at all and whether that time has passed. The name of a deleted login is not
used again. Owner grants, which the requests refuse and which never expire, rotation of
passwords, and scopes below the database are left out.

### Application domains

`claims` are the domain_ownerships (no statement of the code removes or transfers one),
`bindings` the custom domains of applications, `access` the request of each binding,
`routed` what the provider has been told. `Scopes` gives the domains above a hostname,
most specific first; `Zones` says who can publish a record where, which is what a
verification proves. Adding, verifying, answering and removing are each a chain of
single reads, then the provider, then the rows by id. The choice of the primary domain,
the platform's own domain, TLS inspection, managed records and the domains that
ApplicationController.create makes are left out.

### Platform deployments

`releases` are the rows, `built` the provider's deployments. A start inserts a row under
the unique index of active rows, calls the provider and records its answer, which may be
lost or lack the deployment's identifier. A view reads the row, asks the provider and
saves by id. `Restart` ends every request: the deployment replaces the container that
serves them. Logs, commits and the audit entries are left out.

## Runs

All configurations switch the deadlock check off: the rows are bounded, so every
behaviour ends when the last row is used, and a dead worker's job waits for ever.

| Run | Instance | States | Shows |
|---|---|---|---|
| `CheckoutPayments` | 1 checkout, 2 Razorpay attempts, 1 setup request, crashes | 916,000 | types; nothing is set up that was not bought; captures are recorded; verified attempts are final; the purchase implements `PurchaseLifecycle` |
| `CheckoutLive` | 2 quotes of one customer, 1 attempt, mock and Razorpay, 2 setup requests | 108,000 | one trial per package; one workspace per checkout; captures are recorded and setups queued in the end |
| `CheckoutDowngrade` | 1 checkout, 2 attempts | violated | a completed checkout is taken back |
| `ProvisioningUpdates` | 2 jobs of 1 attempt, 2 workers | 1,770,000 | types; one worker per job; success is final; accepted jobs have a resource and are only polled |
| `ProvisioningOperator` | 1 job, retried below 3 attempts by retries that have read at most 2 different rows, 2 workers that may die | 976,000 | every counted attempt was granted, also by retries written out of order |
| `ProvisioningLive` | 1 job of 2 attempts, 2 workers | 27,000 | jobs settle |
| `ProvisioningDuplicate` | 2 jobs of one application, 2 workers | violated | two provider applications of one name |
| `Tenancy` | 2 requests; 2 customers, a purchased workspace, 2 transfers, 2 billing versions; 2 identities, 2 codes, 1 handoff, 2 sessions; 2 workspaces with an application each, a domain and one below it | 1,409,000 | always owned, by consent; versions never conflict; only live subscriptions are scheduled to end; codes once; one session per proof; registrations do not collide; a refused session stays refused; what is routed is entitled |
| `Services` | 2 requests, workers or savers; 3 codes of limits 1 and 2, 1 database to move and 2 connections; 2 databases and 3 names; 2 jobs and 2 runs; 2 rules and 2 ports; an agent that may die; 2 panel deployments and a restart | 951,000 | bounded overrun; nothing held back; data is lost only to an overlap; one execution; downloads exist; active rules were applied; ports never conflict |
| `ServicesLive` | 1 code, 1 rule, 1 job with 2 runs, 1 login and 2 grants, 2 panel deployments | 35,000 | requests are answered; queued jobs are taken; revoked rules are closed for good; expiry is kept; a grant that is due ends; an accepted deployment of the panel ends |
| `DatabasesReplace` | 1 request, clones and moves | violated | the catch block drops a database that a committed row names |
| `TransfersCancel` | 1 job, 2 runs | violated | a job cancelled while queued stays so |

`Tenancy` and `Services` hold several modules side by side. They share no row that the
modules write (a session or an ownership that another module's request has read is part
of what that request remembers), so their interleaving would only multiply the states:
each behaviour picks one **focus** and explores it fully. In `Tenancy` these are the
ownership of a workspace, its subscription, the registration of a newcomer, an account
that is suspended and restored while it signs in, the sessions of one account, and the
domains of two workspaces; in `Services` the quota of applications and their
domains, the quota of databases that are created and moved, the databases, the transfers,
the ports, the agent, and the panel's deployments, and in `ServicesLive` the grants as well.

The bounds: one checkout is enough for payments, since checkouts share nothing but the
customer's lock and the trial check, which the two quotes of `CheckoutLive` cover; two
attempts give an old attempt whose events arrive late and a stale initiate; two requests,
workers or runs give every race of two, and the rows they meet in are claimed, locked or
unique, so that a third one only finds what a second one finds. One attempt more than
one is enough to see a job fail, be retried and run out. Two transfers of one workspace
give a second one after the first was answered, and its stale replay; two billing
versions give a conflict; two codes of one identity give two registrations at once, two
sessions a handoff. Two connections and two creating requests are the smallest pool that
all transactions can fill while each needs one more. Two domains under a limit of two, and
one database to move beside one to create, give a request of several units and a key that
is used again, shared by two requests or lapsed. Two databases and three names give two
requests for one name, a rename to the name another one gives up, and a name that is
dropped and taken again; one deletion is enough, since a deleted row is not used again.
`Services` takes requests, and names, as symmetric: every action treats them alike, none is
picked by CHOOSE or ordered, and the run checks safety only. Retries that have read two
different rows are enough to write an old one after a newer one, and a repetition of one
read changes nothing that the two do not; `OneCopy` leaves the duplicates of an
application to the run about them. Two policies and a rule give a result of the older
policy. Two grants of a login give one made while the expiry of the other is under way; the expiry service looks at up to `Batch`
due grants, which must not be fewer than the grants that fail every time, since it reads
them in no order. Two panel deployments give a refresh that answers for the other row. The proofs
remove these bounds where they apply.

### Findings

The violated runs are disagreements between the code and what its tests, comments and
documents say; `PROJECT.json` quotes both sides. Their properties are stated as promised,
not as the code has it.

Modelling met further disagreements. They have no run of their own, and are reproduced
by changing a constant or stating the property named here:

* Checkout. `CheckoutLive` with `MayCrash = TRUE` violates `SetupIsQueued`: the job is
  inserted after the setup has committed, and nothing inserts it later
  (`CheckoutController.ts:128`).
* Provisioning. `ProvisioningOperator` violates `OneWorkerPerJob` and, with
  `MaximumAttempts = 2`, `NoDuplicateApplication`: the retry's update by id makes a job
  that is being processed queued again (`OperationsController.ts:21`). The same update,
  written late after another retry and its attempt, takes the maximum back below the count
  (a job with 3 attempts and a maximum of 2), so that "the count is at most the maximum" is
  false: the job is queued, no worker selects it, and no retry accepts it. `AttemptsGranted`
  says what is left. A terminal failure does not end a job: jobs whose result names a
  provider resource are selected whatever their attempts, polled, and succeed when a later deployment of the
  application does (`provisioningService.ts:111`). With `Named` giving the starter and an
  application one name, `ProvisioningUpdates` violates `AcceptedIsOnlyPolled`: the second
  one reuses the first one's provider application, its own row is never linked, and it is
  submitted on every pass (`provisioningService.ts:642`); two applications of one name in
  a workspace are allowed. With `Renames` not empty, a redeployment creates and deploys an
  application under the new name, while its resource row and its polls stay with the old
  one (`provisioningService.ts:458`). `ProvisioningLive` with `MayCrash = TRUE` violates
  `JobsSettle`: a job whose worker died stays in processing.
* Workspaces. "One owner at a time" (`Docs/PRODUCT_ARCHITECTURE.md:112`) holds only as
  "at least one" (`Docs/WORKSPACES_CUSTOMERS_AND_ORGANISATIONS.md:57`): an
  accept that was read before another one of the same transfer committed runs again, finds
  nobody to demote and promotes its recipient a second time, also after that recipient has
  handed the workspace on. Two accepts that each take one of a sender's last two
  workspaces both count the other and leave the sender without one. An expired pending
  transfer still blocks a new one. An add-on may be added to a subscription cancelled
  since it was read, and a decline may be overwritten by an accept read before.
* Accounts. Two deactivations at once can remove the last Super Admin: the count is read
  before the update (`AdminController.ts:525`). A session that is opened while
  "status changes and deletion revoke active sessions"
  (`Docs/AUTHENTICATION_AND_ACCESS.md:123`) runs stays valid until it expires, although it
  cannot be refreshed; it can be again when AdminController.update has restored the status,
  the one case `RefusedStaysRefused` excepts. Two refreshes with one token leave the
  earlier client's new token dead. Wrong codes are counted by a read and a write by id
  (`AuthController.ts:248` and `:253`): guesses that read one count are counted once, and a
  late write takes the count back. The stored count stays within the limit, the number of
  codes tried does not, while `Docs/AUTHENTICATION_AND_ACCESS.md:24` asks to "enforce
  attempt/expiry limits" and `:101` to "apply resend cooldowns and maximum attempts". The
  model has these steps (`Verify`, `WrongCode`) and states no limit.
* Quota. `QuotaHolds` is false where `Docs/PACKAGE_BILLING_AND_ENTITLEMENTS.md:121` says
  that "concurrent requests cannot exceed a quota": the count is taken before the lock, and
  a key that has a row is accepted without a look at the limit (`quotaEngine.ts:45`). A
  database that was moved here, moved on with a failed clean-up, and is moved back takes
  over its committed reservation whatever is in use by then. `OverrunBounded` says by how
  much. Conversely a move whose reservation was released by an earlier failure, or had
  lapsed before it was used, is refused for ever with "Target workspace database limit
  reached." (`DatabaseLifecycleController.ts:209`), whatever is free.
* Logical databases. Two overlapping requests for one name both find it free among the
  rows; the second CREATE fails and its catch block drops the first one's database
  (`PostgresSharedDatabaseProvisioner.ts:42`), whose row is then written without one.
  Likewise a rename drops its old database by name after another request has taken that
  name. `Services` with `RowsHaveTheirData` shows it; `LossNeedsOverlap` says that without
  such an overlap, and without clones and moves, no data is lost.
* Transfers. With two `Retriers`, `OneExecution` fails: a retry read before another one's
  job was claimed and gave up requeues a running job by id. An error of the audit entry
  after the completion turns a completed job into a failed one; a completion overwrites a
  cancellation; a killed run leaves its job running for ever, and the database's one
  active job with it; an attempt may be counted once for two claims.
* External access. A rule revoked between a save's read and its write is updated by id and
  stays deleted, although the request answers that it is queued; two first saves of one
  database are answered with an error for the second; with two equal policies in
  succession a late result of the first is recorded for the second.
* Grants. An update whose row cannot be written leaves the server with the new privileges:
  its catch block undoes nothing (`DatabaseAccessController.ts:387`), while
  `Docs/SHARED_PLATFORM_ARCHITECTURE.md:80` says "failed persistence triggers provider
  rollback". `GrantIsApplied` with `Parts = {"grants"}` and two levels shows it. The
  expiry service marks a grant that is still active, without looking at its expiry again
  (`databaseGrantExpiryService.ts:70`): an update that applies its privileges between the
  revocation and the mark leaves a revoked row and a login that keeps its access, which no
  later sweep looks at (`MarkedIsRevoked`). A failed creation cannot drop its new
  PostgreSQL login once the login holds privileges. Of two creations for one login the
  second's compensation revokes what the first one was granted.
* Domains. An approval and a rejection of one request at once leave it rejected and its
  domain enabled; a revocation can be overwritten by a second approval that was read
  before; the set of hostnames given to the provider may be older than what it had. All
  of these keep what `RoutedIsEntitled` says. A subdomain that was claimed, with its DNS
  proof, before the root was verified stays without the root owner's approval
  (`Docs/PRODUCT_ARCHITECTURE.md:130`).
* Panel deployments. A process that dies before it calls the provider leaves a queued row
  that blocks every later deployment: `AcceptedReleaseEnds` speaks of accepted ones. A
  stale refresh can make an older row active again; recording a start can meet the unique
  index and mark as failed a deployment that succeeds.

### Fairness

* `CheckoutLive`: a provider repeats the webhook of a capture until the panel answers it
  with success (weak fairness of `Webhook(a, "verified")`, which stays enabled until the
  event is claimed), and a request that has not died goes on to its next statement.
  Customers, callbacks, initiate and setup requests are not fair.
* `ProvisioningLive`: the minute cron starts workers for ever, a worker that does not die
  goes on, backoffs end, and a deployment that runs ends. Providers need not succeed.
* `QuotaFairness`: a request that is being served takes its next step; that includes the
  timeouts of the pool and of statements, which is what ends a wait for a connection that
  everybody holds. Starting requests, failures and expiry are not fair.
* `TransfersFairness`: runs are started again and again, an execution goes on unless it is
  killed, and a run is not killed each time between its first two queries (strong fairness
  of the claim).
* `GatewayFairness`: the timer starts the agent each minute; a run may fail, but not every
  run at the same step for ever (strong fairness of fetch and of both reconciliations).
  Results may be lost for ever.
* `GrantsFairness`: the minute cron starts runs for ever, a run goes on to its next grant,
  and neither the server nor the panel's database fails one grant every time (strong
  fairness of its revocation and of its mark). Requests are not fair, runs may die.
* `PanelFairness`: an active deployment is looked at again and again (the browser refreshes
  every two seconds and reconnects, `Docs/PRODUCTION_OPERATIONS_RUNBOOK.md`), builds end, and the provider does not always
  fail to answer. Starting deployments and the restart are not fair.

## Proofs

The assumptions are the named ones of the modules: types of the constants, that `Workers`
is finite, and that `NULL` and its like are none of the values they stand beside. Where a
theorem has a hypothesis of its own, it is named below with the reason. Each invariant was
checked by TLC before it was proved. Every invariant and every action property that a
passing run checks is the statement of a theorem.

`CheckoutProofs` proves, for every set of checkouts, attempts, requests and providers:
`TypeOK`, `PurchaseIsBacked`, `OneWorkspacePerCheckout`, `OneTrialPerPackage`,
`ClaimedCaptureIsRecorded` and `VerifiedAttemptIsFinal`. The inductive invariant adds
to these what they rest on: an initiate request is for an attempt that does not exist
yet (`InitiateIsNew`), an attempt is marked verified exactly when a capture was exact
(`CapturesAgree`), a request in setup has read a checkout that was bought
(`SetupIsBacked`), and a customer has at most one purchase in its transaction
(`LockIsExclusive`). Being bought is stable, since trials and verified attempts are
only added; this is why a downgraded status does no harm to `PurchaseIsBacked`.
The module also shows that Init and every step map to `PurchaseLifecycle` under the
mapping `Phase`, which reads the rows that are only added to and not the status column;
it needs one more invariant, that rows exist only for opened checkouts.

`ProvisioningProofs` proves `OneWorkerPerJob` and `SucceededIsFinal` for every number of
workers, jobs and applications, with crashes, under the assumption that no operator
retries (`RetryLimit = 0`): with such retries both are false (see Findings).
The invariant: a worker past its claim holds a job whose row says processing. A claim
needs a row that says otherwise, so it cannot take a job from another worker.
It also proves `AttemptsGranted`, here with any retries as well: a claim stores a count
that was within the maximum of the candidate it read, and every maximum, in a row or in a
worker's or a retry's memory, was granted: it is the one of the insert or one that some
retry's read allows. Since reads are only added, what was granted stays so, in whatever
order the retries are written.

The types of `Provisioning` (`ProvisioningTypes`) hold whatever the operator does, and need
the first invariant about the provider, `TypeInv`: a resource row names an application that
has been deployed, a job has its build and a build its row (`TablesLinked`); what a worker
has read or created is there when it goes on (`Knows`); and the copies of a name at the
provider together with the workers that have found none and are about to create one are no
more than the workers (`CopiesCounted`), each of them deployed (`CopiesDeployed`).

`AcceptedHasResource` and `AcceptedIsOnlyPolled` are false of applications with equal names
(see Findings), so their theorems have the hypothesis that names stay apart: some function
`Owner` from names to applications tells at every moment whose a name is
(`NamesApart(Owner)`). It is a hypothesis about what customers type, and excludes neither
renames nor crashes nor retries; `AcceptedIsLinkedByName` draws it from the constants for
applications that are never renamed. `LinkInv` then says that the row of a name is of a job
of the name's owner (`RowsBelong`), that a worker submits to the application of its own
job and, where it has found a row, to one its job has (`Means`), and that there is one
starter job. `AcceptedIsOnlyPolled` needs the exclusive claim as well, hence again
`RetryLimit = 0`: `FreshInv` says that what a worker has read about the acceptance of its job
is still so.

`QuotaProofs` proves `OverrunBounded` and `AnsweredHoldsNothing` for any limits, quantities,
keys, pool and number of requests. The bound is not inductive by itself: the invariant
counts, beside the resources of a code that were checked, what the requests in progress may
still add (those with a reservation, lapsed or not), and says that both together never
exceed the limit by more than the most that the other requests reserve. A reservation adds
a claim only when the count it has read, which is short by at most the other requests'
progress since, left room; persisting turns a claim into resources; a database that arrives
on a reused reservation is counted as unchecked until it is moved on. Each step is taken by
one request and leaves the others' claims alone.

`WorkspacesProofs` proves `AlwaysOwned`, `BillingNeverConflicts`, `ScheduledIsLive` and
`OwnershipIsConsented` for any number of customers, transfers and requests. The invariant
`WsInv`: types; what a request remembers still exists (`Grounded`); every workspace has an
owner; versions are 1 to n (`Dense`); one holder of a workspace's billing lock
(`Exclusive`), who has read the present highest number (`Numbered`). An accept may replace
an owner only by making another in the same commit, which is why stale accepts can
multiply owners and never remove the last.
`CodesOnce` rests on `CodesInv`: a row has the codes it was bought with or those of one merge,
and a backfill on its way is about to write the latter, so that the order of overlapping
backfills does not matter. What `MergeMissing` computes is a filter of a sequence, about
which the provers know nothing; the theorem's hypothesis `MergesOnce` states it for the two
code lists of a deployment (each code once, the bought ones first, a second merge finds
nothing), and TLC evaluates the merge itself.

`AccountsProofs` proves `OneSessionPerProof`, `RegistrationsNeverCollide` and
`RefusedStaysRefused` for any identities, codes, handoffs,
sessions and requests, on the types of `AccountsWellTyped`. `AccountsInv` says what each
request may rely on (`MemoryHolds`) and what others must not take from it (`GuardHolds`):
a code it holds the row of is not consumed, a code or handoff it has used up has opened
nothing yet, and while it is registering an identity, accounts of that identity come from
administrators only. Two requests never present the same code or handoff, nor hold the lock
of one identity (`RequestsApart`). A session that exists was opened with something used up
(`SessionsHold`), so that nothing can open a second one with it. `RefusedStaysRefused` adds
that versions only rise and that revoked, expired and removed are final; what is left is an
administrator who sets the status back without a new version, which the property allows.

`DatabaseProofs` is about two modules. Of `Transfers` it proves `DownloadExists` for any number of jobs, runs and retry requests,
and `OneExecution` for one retry request at a time. `TransfersInv` relates the three
parties: a run holds a job that exists; a lapsed job is completed, and nobody executes or
retries it; a row's key is in storage or being cleaned; a run that is about to complete an
export has written its artifact; a run that deletes holds the key of a lapsed job. For
`OneExecution` it adds `Alone`: an executed job is running or being cancelled, it has one
run, and a retry holds a job that is over.

Of `LogicalDatabases` it proves `LossNeedsOverlap` for any rows, names and requests that
create, rename and delete, with failures, compensations and deaths at every step and
however the requests overlap (`Kinds` names no clone and no move: with those an error after
the transaction loses data without any overlap, which the run `DatabasesReplace` shows).
`DatabaseInv` says what each request may rely on as long as its row has not clashed
(`Sound`): a creation's new name is nobody else's and holds its data when the row is
written; a rename has copied the right data when it switches; what a compensation or a last
step drops is the name of no row; and a deletion's row has been given up by its owner. Two
requests with a name in common have made the rows they work for clash (`PairOK`), a request
and a row with a name in common likewise unless the row is the request's own (`RowOK`), and
no two rows have one name (`NamesOnce`).

`ApplicationDomainsProofs` proves `RoutedIsEntitled` for any workspaces, applications,
hostnames and requests. Claims, bindings and answers only grow (`Grows`), so a hostname
that is entitled once is entitled for ever; it is enough that each request's stale memory
was true when it was read (`TasksHold`), that a verified claim has been published
(`VerifiedIsPublished`), that an access request names a claim above its hostname
(`AccessIsAbove`), and that what is enabled is entitled (`LiveIsEntitled`).

`ExternalAccessProofs` proves `PortsNeverConflict` and `ActiveWasApplied` for any
databases, ports, policies and requests. `GatewayInv` says that a revoked rule is deleted
for good; that the lock of the ports has one holder (`OneHolder`), whose chosen port is
still free (`FoundIsFree`), since a port is taken only under that lock; and that a result
of success, in the agent's memory or in flight, names a policy that was applied to that
rule (`FetchedWereApplied`, `ResultsWereApplied`). Applied policies are never forgotten
and an acknowledgement must name the rule's present policy, so a late one does no harm.

Only model-checked: every liveness property (fairness and ENABLED are outside the prover's
reach), which is all that is stated about `PlatformDeployments` and `DatabaseGrants` and
about the settling of jobs, requests, transfers and rules; what `MergeMissing` computes; and
the properties of the runs that expect a violation, which are false.

## Not modelled

The models stand for the server's stateful core. Most of the repository is something
else: the user interface and its forms, request schemas and the OpenAPI description,
table definitions, fixtures, the construction of SQL for the explorer, and recipes,
source detection and log analysis, which are pattern matching without state. What has
state and no model yet:

* **Backups**: schedules are not claimed, so overlapping runs may back up one database
  twice; a running backup can be deleted and then completes by id, its artifact orphaned;
  a deletion removes the artifact before the row. There is little the code promises
  beyond single steps.
* **Rotation of passwords, owner grants**: one call of the server and one row, by id.
* **DNS hosting**: the provider is written first and the rows second, so a record
  published twice at once exists twice; provider calls are not repeated.
* **Application control and destroy, the provider's webhook, realtime trackers**: rows of a
  build and its deployment are written by worker, webhook and trackers in any order, and
  the code states no order between them.
* **Traffic policies, cron jobs, GitHub connections, provider reconciliation, storage
  measurement**: rows mirrored to or from a provider, one statement at a time.
* **Catalogue, offers, settings, impersonation, roles**: single rows under one transaction,
  or arithmetic that unit tests cover.

## Plan

Done: `Checkout`, `PurchaseLifecycle`, `Provisioning`; `Workspaces`, `Accounts`, `Quota`,
`LogicalDatabases`, `Transfers`, `ExternalAccess`, `ApplicationDomains`,
`DatabaseGrants`, `PlatformDeployments`, with the proofs above.

Next, in this order:

1. Backups: schedules without claims, restores, and the artifact of a deleted backup;
   for `DatabaseGrants` the abstract specification of a grant as a lease that ends.
2. Build and deployment rows under worker, webhook and trackers, as an extension of
   `Provisioning`; control and destroy of an application beside its pending jobs.
3. Proofs: a refinement of `Accounts` by an abstract session that is opened once and
   refused for good; safety of `DatabaseGrants` between the server and the rows.
4. A refinement of the job in `Checkout` by `Provisioning`, and of a workspace's creation
   in `Workspaces` by `Checkout`.
