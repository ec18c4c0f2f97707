---------------------------- MODULE Provisioning ----------------------------
(***************************************************************************)
(* The provisioning queue and its workers: processProvisioningJobs, run by *)
(* the minute cron, by the internal endpoint and at the end of every       *)
(* request that queues a job, so that several workers are always possible; *)
(* the handlers that queue jobs; the operator's retry; and the hosting     *)
(* provider as the Coolify adapter uses it.                                *)
(*                                                                         *)
(* A worker is split at its provider calls and between the claim, the      *)
(* transactions and the catch block, where other workers come in between;  *)
(* consecutive reads of rows of its own job are one step.  nextAttemptAt   *)
(* is abstracted to whether a job is due.                                  *)
(***************************************************************************)
EXTENDS Naturals, FiniteSets

CONSTANTS
    Apps,             \* customer applications (application_builds)
    Starter,          \* the starter application of the initial job, not in Apps
    Names,            \* names of provider applications
    Named,            \* what an application is first called at the provider: the slug of
                      \* its name (of the workspace's, for the starter) and the workspace
    Renames,          \* names an update may give an application
    Workers,
    MaxJobs,          \* bound: rows of provisioning_jobs
    MaximumAttempts,  \* provisioning_jobs.maximum_attempts of a new job
    RetryLimit,       \* bound: an operator retries a job below this attempt count
    MayCrash,         \* may a worker's process die?
    NULL

ASSUME AppsAssumption == Starter \notin Apps
ASSUME WorkersAssumption == IsFiniteSet(Workers)
ASSUME NamesAssumption == Named \in [Apps \union {Starter} -> Names]
ASSUME JobsAssumption == MaxJobs \in Nat \ {0}
ASSUME AttemptsAssumption == MaximumAttempts \in Nat \ {0}
ASSUME RenameAssumption == Renames \subseteq Names
ASSUME RetryAssumption == RetryLimit \in Nat
ASSUME CrashAssumption == MayCrash \in BOOLEAN

Jobs  == 1..MaxJobs
Uuids == Names \X (1..Cardinality(Workers))

VARIABLES
    jobs,      \* provisioning_jobs, in order of creation; NULL before the insert
    due,       \* jobs whose nextAttemptAt has passed
    name,      \* what an application is called at the provider, from application_builds
    build,     \* application_builds: status and resource
    deployed,  \* status of the application_deployments row of each job
    resource,  \* workspace_resources by provider id: provisioning job and status
    copies,    \* external: applications the provider holds under a name
    latest,    \* external: state of the latest deployment of a provider application
    pc,        \* where each worker stands
    held,      \* the job a worker works on
    seen,      \* the columns of that job the worker has in memory
    called,    \* the provider's name for the application of that job, as it was read
    existing,  \* the resource row a worker has found for its job
    target,    \* the provider application a worker submits to
    answer,    \* what the provider answered a worker
    retrying   \* the job rows that operators' retries have read; a read is never forgotten,
               \* and any number of requests may hold it

rows     == <<build, deployed, resource>>
provider == <<copies, latest>>
locals   == <<held, seen, called, existing, target, answer>>
vars == <<jobs, due, rows, provider, pc, locals, name, retrying>>

JobStatus == {"queued", "processing", "succeeded", "failed"}
JobRow    == [app: Apps \union {Starter}, status: JobStatus, attempts: Nat, maximum: Nat, accepted: BOOLEAN]
Snapshot  == [attempts: Nat, maximum: Nat, accepted: BOOLEAN]
BuildRow    == [status: {"queued", "building", "succeeded", "failed"}, resource: Uuids \union {NULL}]
ResourceRow == [job: Jobs, status: {"provisioning", "running", "failed"}]

ASSUME NullAssumption == /\ NULL \notin Uuids
                         /\ NULL \notin Jobs
                         /\ NULL \notin JobRow
                         /\ NULL \notin Snapshot
                         /\ NULL \notin BuildRow
                         /\ NULL \notin ResourceRow

Created == {j \in Jobs : jobs[j] # NULL}
IsApp(j) == jobs[j].app \in Apps
SnapshotOf(j) == [attempts |-> jobs[j].attempts, maximum |-> jobs[j].maximum,
                  accepted |-> jobs[j].accepted]

-----------------------------------------------------------------------------
Init ==
    /\ jobs     = [j \in Jobs |-> NULL]
    /\ due      = {}
    /\ name     = Named
    /\ build    = [x \in Apps |-> NULL]
    /\ deployed = [j \in Jobs |-> "none"]
    /\ resource = [u \in Uuids |-> NULL]
    /\ copies   = [x \in Names |-> 0]
    /\ latest   = [u \in Uuids |-> "none"]
    /\ pc       = [w \in Workers |-> "idle"]
    /\ held     = [w \in Workers |-> NULL]
    /\ seen     = [w \in Workers |-> NULL]
    /\ called   = [w \in Workers |-> NULL]
    /\ existing = [w \in Workers |-> NULL]
    /\ target   = [w \in Workers |-> NULL]
    /\ answer   = [w \in Workers |-> NULL]
    /\ retrying = {}

\* The worker's next statement, and a worker that returns to its loop.
Goto(w, from, to) ==
    /\ pc[w] = from
    /\ pc' = [pc EXCEPT ![w] = to]

Forget(w) ==
    /\ held'     = [held EXCEPT ![w] = NULL]
    /\ seen'     = [seen EXCEPT ![w] = NULL]
    /\ called'   = [called EXCEPT ![w] = NULL]
    /\ existing' = [existing EXCEPT ![w] = NULL]
    /\ target'   = [target EXCEPT ![w] = NULL]
    /\ answer'   = [answer EXCEPT ![w] = NULL]

-----------------------------------------------------------------------------
(* Handlers that queue jobs                                                *)

IsOldest(j, S) == j \in S /\ \A k \in S : j <= k

\* The next row of provisioning_jobs, and of application_deployments.
Enqueue(x) ==
    /\ \E j \in Jobs \ Created :
        /\ IsOldest(j, Jobs \ Created)
        /\ jobs' = [jobs EXCEPT ![j] =
                [app |-> x, status |-> "queued", attempts |-> 0,
                 maximum |-> MaximumAttempts, accepted |-> FALSE]]
        /\ due' = due \union {j}
        /\ deployed' = IF x = Starter THEN deployed
                       ELSE [deployed EXCEPT ![j] = "queued"]
    /\ UNCHANGED <<resource, provider, pc, locals, retrying>>

\* ApplicationController.create: build, deployment and job in one transaction.
CreateApplication(x) ==
    /\ build[x] = NULL
    /\ build' = [build EXCEPT ![x] = [status |-> "queued", resource |-> NULL]]
    /\ UNCHANGED name
    /\ Enqueue(x)

\* ApplicationController.update: a new deployment and job for the build,
\* whatever has become of its earlier jobs, and perhaps a new name.
UpdateApplication(x, n) ==
    /\ build[x] # NULL
    /\ n # name[x] => n \in Renames
    /\ name' = [name EXCEPT ![x] = n]
    /\ build' = [build EXCEPT ![x].status = "queued"]
    /\ Enqueue(x)

\* queueInitialProvisioning, once per subscription.
QueueStarter ==
    /\ \A j \in Created : jobs[j].app # Starter
    /\ UNCHANGED <<build, name>>
    /\ Enqueue(Starter)

\* The backoff or the poll interval of a job ends.
BecomesDue(j) ==
    /\ j \in Created \ due
    /\ jobs[j].status \in {"queued", "failed"}
    /\ due' = due \union {j}
    /\ UNCHANGED <<jobs, rows, provider, pc, locals, name, retrying>>

-----------------------------------------------------------------------------
(* Claiming                                                                *)

\* Mutant: only jobs in processing are taken.
ClaimableUnlessProcessing(j) == jobs[j].status # "processing"

Claimable(j) == jobs[j].status \in {"queued", "failed"}

\* Mutant: one attempt too many.
RunnableOnceMore(j) ==
    /\ Claimable(j)
    /\ jobs[j].attempts <= jobs[j].maximum \/ jobs[j].accepted
    /\ j \in due

Runnable(j) ==
    /\ Claimable(j)
    /\ jobs[j].attempts < jobs[j].maximum \/ jobs[j].accepted
    /\ j \in due

\* The candidate is read without a lock.
SelectCandidate(w) ==
    /\ Goto(w, "idle", "selected")
    /\ \E j \in Created :
        /\ IsOldest(j, {k \in Created : Runnable(k)})
        /\ held' = [held EXCEPT ![w] = j]
        /\ seen' = [seen EXCEPT ![w] = SnapshotOf(j)]
    /\ UNCHANGED <<jobs, due, rows, provider, called, existing, target, answer, name, retrying>>

\* Provider polling is not a new attempt.
NextAttemptCount(attempts, accepted) == IF accepted THEN attempts ELSE attempts + 1

\* Mutant: the claim does not look at the job's present status.
ClaimUnguarded(w) ==
    LET j == held[w]
        n == NextAttemptCount(seen[w].attempts, seen[w].accepted) IN
    /\ Goto(w, "selected", "claimed")
    /\ jobs' = [jobs EXCEPT ![j].status = "processing", ![j].attempts = n]
    /\ seen' = [seen EXCEPT ![w] = [SnapshotOf(j) EXCEPT !.attempts = n]]
    /\ UNCHANGED <<due, rows, provider, held, called, existing, target, answer, name, retrying>>

\* The claim is guarded by the job's status only; the attempt count it stores
\* is derived from the candidate as it was read.
Claim(w) ==
    LET j == held[w]
        n == NextAttemptCount(seen[w].attempts, seen[w].accepted) IN
    /\ Goto(w, "selected", "claimed")
    /\ Claimable(j)
    /\ jobs' = [jobs EXCEPT ![j].status = "processing", ![j].attempts = n]
    /\ seen' = [seen EXCEPT ![w] = [SnapshotOf(j) EXCEPT !.attempts = n]]
    /\ UNCHANGED <<due, rows, provider, held, called, existing, target, answer, name, retrying>>

\* Another worker was first.
ClaimLost(w) ==
    /\ Goto(w, "selected", "idle")
    /\ ~Claimable(held[w])
    /\ Forget(w)
    /\ UNCHANGED <<jobs, due, rows, provider, name, retrying>>

-----------------------------------------------------------------------------
(* Submitting to the provider                                              *)

\* The resource row of the job: the application's, or the one the job made.
ResourceOf(j) ==
    LET own == {u \in Uuids : resource[u] # NULL /\ resource[u].job = j} IN
    IF IsApp(j) /\ build[jobs[j].app].resource # NULL
    THEN build[jobs[j].app].resource
    ELSE IF own # {} THEN CHOOSE u \in own : TRUE ELSE NULL

MarkDeploying(j) ==
    IF IsApp(j)
    THEN /\ build' = [build EXCEPT ![jobs[j].app].status = "building"]
         /\ deployed' = [deployed EXCEPT ![j] = "deploying"]
    ELSE UNCHANGED <<build, deployed>>

\* Mutant: an application's job is submitted on every pass.
SubmitsAgain(w) ==
    \/ ResourceOf(held[w]) = NULL
    \/ IsApp(held[w])

\* A job without a resource row is submitted, and so is an application's job
\* that has not been accepted before.
Submits(w) ==
    \/ ResourceOf(held[w]) = NULL
    \/ IsApp(held[w]) /\ ~seen[w].accepted

ResolveForSubmission(w) ==
    /\ Goto(w, "claimed", "listing")
    /\ Submits(w)
    /\ called' = [called EXCEPT ![w] = name[jobs[held[w]].app]]
    /\ existing' = [existing EXCEPT ![w] = ResourceOf(held[w])]
    /\ MarkDeploying(held[w])
    /\ UNCHANGED <<jobs, due, resource, provider, held, seen, target, answer, name, retrying>>

ResolveForPoll(w) ==
    /\ Goto(w, "claimed", "polling")
    /\ ~Submits(w)
    /\ existing' = [existing EXCEPT ![w] = ResourceOf(held[w])]
    /\ UNCHANGED <<jobs, due, rows, provider, held, seen, called, target, answer, name, retrying>>

\* Mutant: the list is not searched for the name.
ListIgnored(w) ==
    /\ Goto(w, "listing", "creating")
    /\ target' = [target EXCEPT ![w] = NULL]
    /\ UNCHANGED <<jobs, due, rows, provider, held, seen, called, existing, answer, name, retrying>>

\* provisionApplication lists the provider's applications and looks for the name.
ListProvider(w) ==
    /\ Goto(w, "listing", "creating")
    /\ LET found == {called[w]} \X (1..copies[called[w]]) IN
        \E u \in IF found = {} THEN {NULL} ELSE found :
            target' = [target EXCEPT ![w] = u]
    /\ UNCHANGED <<jobs, due, rows, provider, held, seen, called, existing, answer, name, retrying>>

\* It creates an application, unless the list had one of that name, and
\* deploys.  The starter image is not deployed again while it runs.
CreateOrReuse(w) ==
    LET n == called[w]
        found == target[w] # NULL
        u == IF found THEN target[w] ELSE <<n, copies[n] + 1>> IN
    /\ Goto(w, "creating", "created")
    /\ copies' = IF found THEN copies ELSE [copies EXCEPT ![n] = @ + 1]
    /\ latest' = IF found /\ ~IsApp(held[w]) /\ latest[u] # "failed"
                 THEN latest ELSE [latest EXCEPT ![u] = "running"]
    /\ target' = [target EXCEPT ![w] = u]
    /\ UNCHANGED <<jobs, due, rows, held, seen, called, existing, answer, name, retrying>>

\* Mutant: the claim is not released.
AwaitPollLocked(j) ==
    /\ jobs' = [jobs EXCEPT ![j].accepted = TRUE]
    /\ due' = due \ {j}

\* The job waits for its poll; its result now names a provider resource.
AwaitPoll(j) ==
    /\ jobs' = [jobs EXCEPT ![j].status = "queued", ![j].accepted = TRUE]
    /\ due' = due \ {j}

\* The transaction after a submission for an application with a resource.
CommitRedeployment(w) ==
    /\ Goto(w, "created", "idle")
    /\ existing[w] # NULL
    /\ resource' = [resource EXCEPT ![existing[w]].status = "provisioning"]
    /\ MarkDeploying(held[w])
    /\ AwaitPoll(held[w])
    /\ Forget(w)
    /\ UNCHANGED <<provider, name, retrying>>

\* Mutant: the build is not linked to the new resource row.
CommitSubmissionUnlinked(w) ==
    LET j == held[w]  u == target[w] IN
    /\ Goto(w, "created", "idle")
    /\ existing[w] = NULL
    /\ resource' = IF resource[u] = NULL
                   THEN [resource EXCEPT ![u] = [job |-> j, status |-> "provisioning"]]
                   ELSE resource
    /\ UNCHANGED <<build, deployed>>
    /\ AwaitPoll(j)
    /\ Forget(w)
    /\ UNCHANGED <<provider, name, retrying>>

\* The transaction after a first submission.  The resource row is inserted
\* unless one with that provider id exists; only then are the build and the
\* deployment linked to it.
CommitSubmission(w) ==
    LET j == held[w]  u == target[w] IN
    /\ Goto(w, "created", "idle")
    /\ existing[w] = NULL
    /\ IF resource[u] = NULL
       THEN /\ resource' = [resource EXCEPT ![u] = [job |-> j, status |-> "provisioning"]]
            /\ build' = IF IsApp(j)
                        THEN [build EXCEPT ![jobs[j].app] =
                                  [status |-> "building", resource |-> u]]
                        ELSE build
            /\ deployed' = IF IsApp(j) THEN [deployed EXCEPT ![j] = "deploying"]
                                       ELSE deployed
       ELSE UNCHANGED rows
    /\ AwaitPoll(j)
    /\ Forget(w)
    /\ UNCHANGED <<provider, name, retrying>>

-----------------------------------------------------------------------------
(* Reconciling with the provider                                           *)

\* getDeployment: the state of the application's latest deployment, whichever
\* job submitted it.
PollProvider(w) ==
    /\ Goto(w, "polling", "answered")
    /\ answer' = [answer EXCEPT ![w] = latest[existing[w]]]
    /\ UNCHANGED <<jobs, due, rows, provider, held, seen, called, existing, target, name, retrying>>

CommitStillRunning(w) ==
    /\ Goto(w, "answered", "idle")
    /\ answer[w] \notin {"failed", "succeeded"}
    /\ resource' = [resource EXCEPT ![existing[w]].status = "provisioning"]
    /\ AwaitPoll(held[w])
    /\ Forget(w)
    /\ UNCHANGED <<build, deployed, provider, name, retrying>>

CommitSucceeded(w) ==
    LET j == held[w] IN
    /\ Goto(w, "answered", "idle")
    /\ answer[w] = "succeeded"
    /\ resource' = [resource EXCEPT ![existing[w]].status = "running"]
    /\ jobs' = [jobs EXCEPT ![j].status = "succeeded", ![j].accepted = TRUE]
    /\ IF IsApp(j)
       THEN /\ build' = [build EXCEPT ![jobs[j].app].status = "succeeded"]
            /\ deployed' = [deployed EXCEPT ![j] = "running"]
       ELSE UNCHANGED <<build, deployed>>
    /\ Forget(w)
    /\ UNCHANGED <<due, provider, name, retrying>>

\* A failed deployment marks the resource and ends the job's attempts.
CommitResourceFailed(w) ==
    /\ Goto(w, "answered", "failing")
    /\ answer[w] = "failed"
    /\ resource' = [resource EXCEPT ![existing[w]].status = "failed"]
    /\ UNCHANGED <<jobs, due, build, deployed, provider, locals, name, retrying>>

\* The provider refuses a call, its answer is lost, also after it has acted, or
\* the transaction that records it is rolled back.
ProviderThrows(w) ==
    /\ \/ pc[w] \in {"claimed", "listing", "creating", "created", "polling"}
       \/ pc[w] = "answered" /\ answer[w] # "failed"
    /\ pc' = [pc EXCEPT ![w] = "failing"]
    /\ UNCHANGED <<jobs, due, rows, provider, locals, name, retrying>>

\* The catch block: first the job, then build and deployment.
Terminal(w) == answer[w] = "failed"

RecordFailure(w) ==
    LET j == held[w] IN
    /\ Goto(w, "failing", "failed")
    /\ jobs' = [jobs EXCEPT ![j].status = "failed",
                            ![j].attempts = IF Terminal(w) THEN seen[w].maximum
                                                           ELSE seen[w].attempts]
    /\ due' = due \ {j}
    /\ UNCHANGED <<rows, provider, locals, name, retrying>>

RecordFailedRows(w) ==
    LET j == held[w] IN
    /\ Goto(w, "failed", "idle")
    /\ IF IsApp(j)
       THEN /\ build' = [build EXCEPT ![jobs[j].app].status = "failed"]
            /\ deployed' = [deployed EXCEPT ![j] = "failed"]
       ELSE UNCHANGED <<build, deployed>>
    /\ Forget(w)
    /\ UNCHANGED <<jobs, due, resource, provider, name, retrying>>

WorkerDies(w) ==
    /\ MayCrash
    /\ pc[w] # "idle"
    /\ pc' = [pc EXCEPT ![w] = "idle"]
    /\ Forget(w)
    /\ UNCHANGED <<jobs, due, rows, provider, name, retrying>>

-----------------------------------------------------------------------------
(* The provider, and the operator                                          *)

\* External: a deployment ends; later its container may fail or recover.
ProviderChanges(u, s) ==
    /\ latest[u] # "none"
    /\ s \in {"failed", "succeeded"} \ {latest[u]}
    /\ latest' = [latest EXCEPT ![u] = s]
    /\ UNCHANGED <<jobs, due, rows, copies, pc, locals, name, retrying>>

\* OperationsController.retry reads the job and its status ...
RetryRead(j) ==
    /\ jobs[j].status = "failed"
    /\ jobs[j].attempts < RetryLimit
    /\ retrying' = retrying \union
            {[job |-> j, attempts |-> jobs[j].attempts, maximum |-> jobs[j].maximum]}
    /\ UNCHANGED <<jobs, due, rows, provider, pc, locals, name>>

\* The maximum a retry writes: the one it read, or one attempt more than it read.
Raised(t) == IF t.attempts + 1 > t.maximum THEN t.attempts + 1 ELSE t.maximum

\* ... and then updates it by id, however late and whatever other retries and
\* workers have written since.
RetryWrite ==
    /\ \E t \in retrying :
        /\ jobs' = [jobs EXCEPT ![t.job].status = "queued", ![t.job].maximum = Raised(t)]
        /\ due' = due \union {t.job}
    /\ UNCHANGED <<rows, provider, pc, locals, name, retrying>>

-----------------------------------------------------------------------------
Work(w) ==
    \/ Claim(w) \/ ClaimLost(w)
    \/ ResolveForSubmission(w) \/ ResolveForPoll(w)
    \/ ListProvider(w) \/ CreateOrReuse(w)
    \/ CommitRedeployment(w) \/ CommitSubmission(w)
    \/ PollProvider(w)
    \/ CommitStillRunning(w) \/ CommitSucceeded(w) \/ CommitResourceFailed(w)
    \/ RecordFailure(w) \/ RecordFailedRows(w)

Next ==
    \/ \E x \in Apps :
        CreateApplication(x) \/ \E n \in Names : UpdateApplication(x, n)
    \/ QueueStarter
    \/ \E j \in Created : BecomesDue(j) \/ RetryRead(j)
    \/ RetryWrite
    \/ \E w \in Workers :
        SelectCandidate(w) \/ Work(w) \/ ProviderThrows(w) \/ WorkerDies(w)
    \/ \E u \in Uuids, s \in {"failed", "succeeded"} : ProviderChanges(u, s)

Spec == Init /\ [][Next]_vars

\* The cron starts workers for ever, a worker that has not died goes on, time
\* passes, and a deployment ends.
Fairness ==
    /\ \A w \in Workers : WF_vars(SelectCandidate(w)) /\ WF_vars(Work(w))
    /\ \A j \in Jobs : WF_vars(BecomesDue(j))
    /\ \A u \in Uuids : WF_vars(latest[u] = "running" /\
                                 \E s \in {"failed", "succeeded"} : ProviderChanges(u, s))

FairSpec == Spec /\ Fairness

-----------------------------------------------------------------------------
Engaged == {"claimed", "listing", "creating", "created", "polling", "answered", "failing"}

TypeOK ==
    /\ jobs \in [Jobs -> JobRow \union {NULL}]
    /\ due \subseteq Jobs
    /\ build \in [Apps -> BuildRow \union {NULL}]
    /\ deployed \in [Jobs -> {"none", "queued", "deploying", "running", "failed"}]
    /\ resource \in [Uuids -> ResourceRow \union {NULL}]
    /\ copies \in [Names -> 0..Cardinality(Workers)]
    /\ latest \in [Uuids -> {"none", "running", "failed", "succeeded"}]
    /\ pc \in [Workers -> Engaged \union {"idle", "selected", "failed"}]
    /\ held \in [Workers -> Jobs \union {NULL}]
    /\ seen \in [Workers -> Snapshot \union {NULL}]
    /\ name \in [Apps \union {Starter} -> Names]
    /\ called \in [Workers -> Names \union {NULL}]
    /\ existing \in [Workers -> Uuids \union {NULL}]
    /\ target \in [Workers -> Uuids \union {NULL}]
    /\ answer \in [Workers -> {"running", "failed", "succeeded", NULL}]
    /\ retrying \subseteq [job: Jobs, attempts: Nat, maximum: Nat]

\* The optimistic claim gives a job to one worker at a time, although workers
\* choose candidates from stale reads and every later write is by id.
OneWorkerPerJob ==
    \A v, w \in Workers :
        pc[v] \in Engaged /\ pc[w] \in Engaged /\ held[v] = held[w] => v = w

\* A job that has succeeded stays so: no worker with an old read touches it.
SucceededIsFinal ==
    [][\A j \in Created : jobs[j].status = "succeeded" => jobs'[j] = jobs[j]]_vars

\* "A failed poll must never submit another deployment implicitly": once the
\* provider has accepted a job, workers only poll for it.
AcceptedIsOnlyPolled ==
    [][\A w \in Workers :
        pc[w] = "creating" /\ pc'[w] = "created" => ~jobs[held[w]].accepted]_vars

\* A job the provider has accepted has a resource row to poll, also when two
\* jobs of an application were submitted at once.
AcceptedHasResource ==
    \A j \in Created : jobs[j].accepted => ResourceOf(j) # NULL

\* An attempt the job was queued with, or one an operator's retry has granted.
Granted(j, n) ==
    \/ n <= MaximumAttempts
    \/ \E t \in retrying : t.job = j /\ n <= Raised(t)

\* No attempt is counted that nobody granted, whoever claims with which read,
\* whatever dies, and however many retries write in whatever order.
AttemptsGranted ==
    \A j \in Created : Granted(j, jobs[j].attempts)

\* Without crashes every job reaches an outcome.
JobsSettle ==
    \A j \in Jobs :
        j \in Created ~> j \in Created /\ jobs[j].status \in {"succeeded", "failed"}

\* Retries and later deployments cannot create duplicate Coolify applications.
NoDuplicateApplication ==
    \A x \in Names : copies[x] <= 1
=============================================================================
