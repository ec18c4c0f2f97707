------------------------------ MODULE Transfers ------------------------------
(***************************************************************************)
(* Import and export jobs of one logical database: rows of                 *)
(* database_transfer_jobs that customers queue, cancel and retry, and that *)
(* worker runs claim, execute and, when their artifact has expired, clean. *)
(* Runs overlap: a timer starts one every five minutes.                    *)
(***************************************************************************)
EXTENDS Naturals, FiniteSets

CONSTANTS
    MaxJobs,        \* bound: rows of database_transfer_jobs
    MaxAttempts,    \* maximumAttempts
    MaxKeys,        \* bound: artifacts in storage
    Runners,        \* worker runs at one time
    Retriers,       \* retry requests served at one time
    NoJob

ASSUME TransfersAssumption ==
    /\ MaxJobs \in Nat /\ MaxAttempts \in Nat \ {0} /\ MaxKeys \in Nat
    /\ IsFiniteSet(Retriers) /\ Retriers # {}
    /\ NoJob \notin 1..MaxJobs

Jobs == 1..MaxJobs
NoKey == 0

VARIABLES
    job,        \* rows
    lapsed,     \* completed exports whose expiresAt has passed
    artifacts,  \* keys in the artifact storage
    retry,      \* the job a retry request has read
    runner      \* where each worker run stands and what it has read

transferVars == <<job, lapsed, artifacts, retry, runner>>

Settled == {"cancelled", "completed", "failed"}
ActiveStatus == {"queued", "running", "cancel_requested"}

NoRow == [status |-> "none", import |-> FALSE, attempts |-> 0, key |-> NoKey]
Between == [step |-> "idle", job |-> NoJob, attempts |-> 0, key |-> NoKey, cancelled |-> FALSE]

TransfersInit ==
    /\ job = [j \in Jobs |-> NoRow]
    /\ lapsed = {}
    /\ artifacts = {}
    /\ retry = [q \in Retriers |-> NoJob]
    /\ runner = [w \in Runners |-> Between]

Is(j, S) == job[j].status \in S
SomeActive(except) == \E j \in Jobs \ {except} : Is(j, ActiveStatus)
Becomes(j, s) == job' = [job EXCEPT ![j].status = s]

RunnerAt(w, s) == runner[w].step = s
RunnerTo(w, s) == runner' = [runner EXCEPT ![w].step = s]
Executing(w) == runner[w].step \in {"start", "work", "store", "complete", "audit", "caught", "give up"}

-----------------------------------------------------------------------------
(* Customers                                                               *)

\* A database has one active job: a unique index.
Enqueue(j, import) ==
    /\ Is(j, {"none"})
    /\ \A i \in 1..(j - 1) : ~Is(i, {"none"})
    /\ ~SomeActive(j)
    /\ job' = [job EXCEPT ![j].status = "queued", ![j].import = import]
    /\ UNCHANGED <<lapsed, artifacts, retry, runner>>

Cancel(j) ==
    /\ Is(j, {"queued", "running"})
    /\ Becomes(j, "cancel_requested")
    /\ UNCHANGED <<lapsed, artifacts, retry, runner>>

\* requestTransferAction reads the job, then updates it by its id.
ReadRetry(q, j) ==
    /\ retry[q] = NoJob
    /\ Is(j, {"failed", "cancelled"})
    /\ job[j].attempts < MaxAttempts
    /\ retry' = [retry EXCEPT ![q] = j]
    /\ UNCHANGED <<job, lapsed, artifacts, runner>>

Requeue(q) ==
    /\ retry[q] # NoJob
    /\ IF SomeActive(retry[q]) THEN UNCHANGED job ELSE Becomes(retry[q], "queued")
    /\ retry' = [retry EXCEPT ![q] = NoJob]
    /\ UNCHANGED <<lapsed, artifacts, runner>>

\* Hours pass, longer than a retry request or an execution takes.
Elapsed(j) ==
    /\ Is(j, {"completed"})
    /\ ~job[j].import
    /\ \A q \in Retriers : retry[q] # j
    /\ \A w \in Runners : runner[w].job = j => ~Executing(w)
    /\ lapsed' = lapsed \union {j}
    /\ UNCHANGED <<job, artifacts, retry, runner>>

-----------------------------------------------------------------------------
(* A worker run                                                            *)

\* A wrong version: a job that was tried before is passed over.
SelectUntried(w) ==
    /\ RunnerAt(w, "idle")
    /\ \E j \in Jobs :
        /\ Is(j, {"queued"})
        /\ job[j].attempts = 0
        /\ runner' = [runner EXCEPT ![w] = [Between EXCEPT !.step = "claim", !.job = j]]
    /\ UNCHANGED <<job, lapsed, artifacts, retry>>

\* The oldest queued job is read.
Select(w) ==
    /\ RunnerAt(w, "idle")
    /\ \E j \in Jobs :
        /\ Is(j, {"queued"})
        /\ \A i \in 1..(j - 1) : ~Is(i, {"queued"})
        /\ runner' = [runner EXCEPT ![w] = [Between EXCEPT !.step = "claim", !.job = j,
                                                           !.attempts = job[j].attempts]]
    /\ UNCHANGED <<job, lapsed, artifacts, retry>>

\* A wrong version: the claim updates by id alone.
ClaimUnguarded(w) ==
    /\ RunnerAt(w, "claim")
    /\ job' = [job EXCEPT ![runner[w].job].status = "running",
                          ![runner[w].job].attempts = runner[w].attempts + 1]
    /\ RunnerTo(w, "start")
    /\ UNCHANGED <<lapsed, artifacts, retry>>

\* An update guarded on the status.
Claim(w) ==
    LET j == runner[w].job IN
    /\ RunnerAt(w, "claim")
    /\ IF Is(j, {"queued"})
       THEN /\ job' = [job EXCEPT ![j].status = "running", ![j].attempts = runner[w].attempts + 1]
            /\ RunnerTo(w, "start")
       ELSE /\ runner' = [runner EXCEPT ![w] = Between]
            /\ UNCHANGED job
    /\ UNCHANGED <<lapsed, artifacts, retry>>

\* connectionFor and, for an import, the safety backup.
BeginExecution(w) ==
    /\ RunnerAt(w, "start")
    /\ RunnerTo(w, "work")
    /\ UNCHANGED <<job, lapsed, artifacts, retry>>

\* The data is read or written; then an export writes an artifact.
Work(w) ==
    /\ RunnerAt(w, "work")
    /\ RunnerTo(w, IF job[runner[w].job].import THEN "complete" ELSE "store")
    /\ UNCHANGED <<job, lapsed, artifacts, retry>>

FreshKeys == {k \in 1..MaxKeys : k \notin artifacts /\ \A j \in Jobs : job[j].key # k
                                  /\ \A w \in Runners : runner[w].key # k}

Store(w) ==
    /\ RunnerAt(w, "store")
    /\ \E k \in FreshKeys :
        /\ \A i \in FreshKeys : k <= i
        /\ artifacts' = artifacts \union {k}
        /\ runner' = [runner EXCEPT ![w].step = "complete", ![w].key = k]
    /\ UNCHANGED <<job, lapsed, retry>>

\* By id, whatever the status is now.
Complete(w) ==
    LET j == runner[w].job IN
    /\ RunnerAt(w, "complete")
    /\ job' = [job EXCEPT ![j].status = "completed",
                          ![j].key = IF job[j].import THEN @ ELSE runner[w].key]
    /\ lapsed' = lapsed \ {j}
    /\ RunnerTo(w, "audit")
    /\ UNCHANGED <<artifacts, retry>>

Audit(w) ==
    /\ RunnerAt(w, "audit")
    /\ runner' = [runner EXCEPT ![w] = Between]
    /\ UNCHANGED <<job, lapsed, artifacts, retry>>

\* cancelled() finds the request of a cancellation before or while it works.
NoticeCancel(w) ==
    /\ \/ RunnerAt(w, "work")
       \/ RunnerAt(w, "store") /\ ~job[runner[w].job].import
    /\ Is(runner[w].job, {"cancel_requested"})
    /\ runner' = [runner EXCEPT ![w].step = "give up", ![w].cancelled = TRUE]
    /\ UNCHANGED <<job, lapsed, artifacts, retry>>

\* Any step fails, the audit entry after the completion too.
ExecutionFails(w) ==
    /\ Executing(w)
    /\ ~RunnerAt(w, "caught") /\ ~RunnerAt(w, "give up")
    /\ RunnerTo(w, "caught")
    /\ UNCHANGED <<job, lapsed, artifacts, retry>>

\* The catch block asks cancelled() and then updates by id.
Caught(w) ==
    /\ RunnerAt(w, "caught")
    /\ runner' = [runner EXCEPT ![w].step = "give up",
                                ![w].cancelled = Is(runner[w].job, {"cancel_requested"})]
    /\ UNCHANGED <<job, lapsed, artifacts, retry>>

GiveUp(w) ==
    /\ RunnerAt(w, "give up")
    /\ Becomes(runner[w].job, IF runner[w].cancelled THEN "cancelled" ELSE "failed")
    /\ runner' = [runner EXCEPT ![w] = Between]
    /\ UNCHANGED <<lapsed, artifacts, retry>>

\* The process dies; nothing resets what it has claimed.
RunKilled(w) ==
    /\ ~RunnerAt(w, "idle")
    /\ runner' = [runner EXCEPT ![w] = Between]
    /\ UNCHANGED <<job, lapsed, artifacts, retry>>

\* A wrong version: any completed export is cleaned.
SelectCompleted(w, j) ==
    /\ RunnerAt(w, "idle")
    /\ \A i \in Jobs : ~Is(i, {"queued"})
    /\ Is(j, {"completed"})
    /\ job[j].key # NoKey
    /\ runner' = [runner EXCEPT ![w] = [Between EXCEPT !.step = "delete", !.job = j, !.key = job[j].key]]
    /\ UNCHANGED <<job, lapsed, artifacts, retry>>

\* When no queued job is left, a run cleans: the expired job is read, its
\* artifact deleted, its key forgotten.
SelectExpired(w, j) ==
    /\ RunnerAt(w, "idle")
    /\ \A i \in Jobs : ~Is(i, {"queued"})
    /\ Is(j, {"completed"})
    /\ j \in lapsed
    /\ job[j].key # NoKey
    /\ runner' = [runner EXCEPT ![w] = [Between EXCEPT !.step = "delete", !.job = j, !.key = job[j].key]]
    /\ UNCHANGED <<job, lapsed, artifacts, retry>>

DeleteArtifact(w) ==
    /\ RunnerAt(w, "delete")
    /\ artifacts' = artifacts \ {runner[w].key}
    /\ RunnerTo(w, "forget")
    /\ UNCHANGED <<job, lapsed, retry>>

ForgetKey(w) ==
    /\ RunnerAt(w, "forget")
    /\ job' = [job EXCEPT ![runner[w].job].key = NoKey]
    /\ runner' = [runner EXCEPT ![w] = Between]
    /\ UNCHANGED <<lapsed, artifacts, retry>>

-----------------------------------------------------------------------------
Execute(w) ==
    \/ BeginExecution(w) \/ Work(w) \/ Store(w) \/ Complete(w) \/ Audit(w)
    \/ NoticeCancel(w) \/ ExecutionFails(w) \/ Caught(w) \/ GiveUp(w)

TransfersNext ==
    \/ \E j \in Jobs :
        \/ \E import \in BOOLEAN : Enqueue(j, import)
        \/ Cancel(j)
        \/ Elapsed(j)
        \/ \E q \in Retriers : ReadRetry(q, j)
        \/ \E w \in Runners : SelectExpired(w, j)
    \/ \E q \in Retriers : Requeue(q)
    \/ \E w \in Runners :
        \/ Select(w) \/ Claim(w) \/ Execute(w)
        \/ DeleteArtifact(w) \/ ForgetKey(w)
        \/ RunKilled(w)

\* Runs are started again and again, and one that is not killed goes on.  A run
\* is not killed each time between its first two queries.
TransfersFairness ==
    \A w \in Runners :
        /\ WF_transferVars(Execute(w))
        /\ WF_transferVars(Select(w))
        /\ WF_transferVars(DeleteArtifact(w) \/ ForgetKey(w))
        /\ SF_transferVars(Claim(w))

TransfersSpec == TransfersInit /\ [][TransfersNext]_transferVars /\ TransfersFairness

-----------------------------------------------------------------------------
\* A job is executed by one run at a time, by runs that overlap, are killed or
\* have read it long before: the claim is guarded on 'queued', and the retry of
\* a customer who waits for each answer finds it failed or cancelled.
OneExecution ==
    \A j \in Jobs : Cardinality({w \in Runners : runner[w].job = j /\ Executing(w)}) <= 1

\* What download offers exists: a completed export that has not expired has
\* its artifact, whichever runs clean, fail, are killed or complete it twice.
DownloadExists ==
    \A j \in Jobs : Is(j, {"completed"}) /\ job[j].key # NoKey /\ j \notin lapsed => job[j].key \in artifacts

\* A queued job does not wait for ever: it is claimed, or cancelled.
QueuedIsTaken == \A j \in Jobs : (Is(j, {"queued"}) ~> ~Is(j, {"queued"}))

\* Docs/SHARED_PLATFORM_ARCHITECTURE.md:76, "remain cancellable/retryable
\* through durable job state": a requested cancellation comes to an end.
CancelSettles == \A j \in Jobs : (Is(j, {"cancel_requested"}) ~> ~Is(j, {"cancel_requested"}))
===============================================================================
