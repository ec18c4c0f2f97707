------------------------- MODULE ProvisioningProofs -------------------------
(***************************************************************************)
(* Proofs about module Provisioning for every number of workers,           *)
(* applications and jobs, with crashes: about the claims and about what is *)
(* polled, as long as no operator retries a job by hand; about the attempt *)
(* count, the types and the resource rows of accepted jobs, whether or     *)
(* not.                                                                    *)
(***************************************************************************)
EXTENDS Provisioning, FiniteSetTheorems, TLAPS

PC == Engaged \union {"idle", "selected", "failed"}

\* The types the argument needs.
ClaimTypes ==
    /\ jobs \in [Jobs -> JobRow \union {NULL}]
    /\ pc \in [Workers -> PC]
    /\ held \in [Workers -> Jobs \union {NULL}]
    /\ seen \in [Workers -> Snapshot \union {NULL}]

\* A worker that is not idle holds an existing job and a read of it, and the
\* job of a worker that has claimed it is in processing.
HoldsJob ==
    \A w \in Workers : pc[w] # "idle" =>
        /\ held[w] \in Created
        /\ seen[w] # NULL
        /\ pc[w] \in Engaged => jobs[held[w]].status = "processing"

NoRetry == retrying = {}

ClaimInv == ClaimTypes /\ HoldsJob /\ NoRetry /\ OneWorkerPerJob

LEMMA ClaimInit == Init => ClaimInv
  BY DEF Init, ClaimInv, ClaimTypes, HoldsJob, NoRetry, OneWorkerPerJob,
         PC, Engaged, Created

LEMMA CreatedIsRow ==
    ASSUME ClaimTypes, NEW j \in Created
    PROVE  j \in Jobs /\ jobs[j] \in JobRow
  BY DEF ClaimTypes, Created

LEMMA SnapshotType ==
    ASSUME ClaimTypes, NEW j \in Created
    PROVE  SnapshotOf(j) \in Snapshot /\ SnapshotOf(j) # NULL
  BY CreatedIsRow, NullAssumption DEF SnapshotOf, Snapshot, JobRow

-----------------------------------------------------------------------------
(* Kinds of steps                                                          *)

\* A worker goes on with its job.
LEMMA GoesOn ==
    ASSUME ClaimInv, NEW w \in Workers, NEW to \in PC \ {"idle"},
           pc[w] # "idle", pc' = [pc EXCEPT ![w] = to],
           to \in Engaged => pc[w] \in Engaged,
           UNCHANGED <<jobs, held, seen, retrying>>
    PROVE  ClaimInv'
  BY DEF ClaimInv, ClaimTypes, HoldsJob, NoRetry, OneWorkerPerJob, Created

\* A worker that is done with its job, or that dies, forgets it; it may have
\* written the row of the job before.
LEMMA LetsGo ==
    ASSUME ClaimInv, NEW w \in Workers,
           pc' = [pc EXCEPT ![w] = "idle"], Forget(w), retrying' = retrying,
           \/ jobs' = jobs
           \/ /\ pc[w] \in Engaged
              /\ \E row \in JobRow : jobs' = [jobs EXCEPT ![held[w]] = row]
    PROVE  ClaimInv'
  <1> USE DEF ClaimInv, ClaimTypes, HoldsJob, NoRetry, OneWorkerPerJob, Created, Forget
  <1>0. /\ pc'[w] = "idle" /\ pc' \in [Workers -> PC]
        /\ held' \in [Workers -> Jobs \union {NULL}]
        /\ seen' \in [Workers -> Snapshot \union {NULL}]
        /\ \A v \in Workers \ {w} :
               pc'[v] = pc[v] /\ held'[v] = held[v] /\ seen'[v] = seen[v]
    BY DEF PC
  <1>a. "idle" \notin Engaged
    BY DEF Engaged
  <1>b. OneWorkerPerJob'
    BY <1>0, <1>a
  <1>1. CASE jobs' = jobs
    <2>1. HoldsJob'
      BY <1>0, <1>1
    <2> QED BY <1>0, <1>1, <1>b, <2>1
  <1>2. ASSUME pc[w] \in Engaged, NEW row \in JobRow, jobs' = [jobs EXCEPT ![held[w]] = row]
        PROVE  ClaimInv'
    <2>1. pc[w] # "idle" /\ held[w] \in Created
      BY <1>2 DEF Engaged
    <2>2. \A v \in Workers \ {w} : pc[v] \in Engaged => held[v] # held[w]
      BY <1>2
    <2>3. row # NULL
      BY <1>2, NullAssumption
    <2>4. /\ jobs' \in [Jobs -> JobRow \union {NULL}]
          /\ \A k \in Created : k \in Created'
          /\ \A k \in Jobs : k # held[w] => jobs'[k] = jobs[k]
      BY <1>2, <2>1, <2>3
    <2>5. HoldsJob'
      BY <1>0, <2>1, <2>2, <2>4
    <2> QED BY <1>0, <1>b, <2>4, <2>5
  <1> QED BY <1>1, <1>2

\* A step of somebody else that writes no row a worker holds.
LEMMA Elsewhere ==
    ASSUME ClaimInv, UNCHANGED <<pc, held, seen, retrying>>,
           \/ jobs' = jobs
           \/ \E j \in Jobs \ Created, row \in JobRow : jobs' = [jobs EXCEPT ![j] = row]
    PROVE  ClaimInv'
  <1> USE DEF ClaimInv, ClaimTypes, HoldsJob, NoRetry, OneWorkerPerJob, Created
  <1>1. CASE jobs' = jobs
    BY <1>1
  <1>2. ASSUME NEW j \in Jobs \ Created, NEW row \in JobRow, jobs' = [jobs EXCEPT ![j] = row]
        PROVE  ClaimInv'
    BY <1>2, NullAssumption
  <1> QED BY <1>1, <1>2

\* A new job is a row that did not exist.
LEMMA EnqueueIsNew ==
    ASSUME NEW x \in Apps \union {Starter}, Enqueue(x)
    PROVE  \E j \in Jobs \ Created, row \in JobRow : jobs' = [jobs EXCEPT ![j] = row]
  BY AttemptsAssumption DEF Enqueue, JobRow, JobStatus

\* The statuses and counts a worker writes keep its job a row.
LEMMA WorkerWrites ==
    ASSUME ClaimInv, NEW w \in Workers, pc[w] \in Engaged,
           NEW s \in JobStatus, NEW n \in Nat, NEW b \in BOOLEAN
    PROVE  /\ [jobs[held[w]] EXCEPT !.status = s, !.accepted = b] \in JobRow
           /\ [jobs[held[w]] EXCEPT !.status = s, !.attempts = n] \in JobRow
  <1>1. jobs[held[w]] \in JobRow
    BY CreatedIsRow DEF ClaimInv, HoldsJob, Engaged
  <1> QED BY <1>1 DEF JobRow

-----------------------------------------------------------------------------
(* The step                                                                *)

LEMMA ClaimStep ==
    ASSUME ClaimInv, RetryLimit = 0, [Next]_vars
    PROVE  ClaimInv'
  <1>1. CASE UNCHANGED vars
    BY <1>1, Elsewhere DEF vars, locals
  <1>2. ASSUME NEW x \in Apps,
               CreateApplication(x) \/ \E n \in Names : UpdateApplication(x, n)
        PROVE  ClaimInv'
    <2>1. Enqueue(x)
      BY <1>2 DEF CreateApplication, UpdateApplication
    <2> QED BY <2>1, EnqueueIsNew, Elsewhere DEF Enqueue, locals
  <1>3. CASE QueueStarter
    <2>1. Enqueue(Starter)
      BY <1>3 DEF QueueStarter
    <2> QED BY <2>1, EnqueueIsNew, Elsewhere DEF Enqueue, locals
  <1>4. ASSUME NEW j \in Created, BecomesDue(j) PROVE ClaimInv'
    BY <1>4, Elsewhere DEF BecomesDue, locals
  <1>5. ASSUME NEW j \in Created, RetryRead(j) PROVE ClaimInv'
    <2>1. jobs[j].attempts < 0 /\ jobs[j].attempts \in Nat
      BY <1>5, CreatedIsRow DEF RetryRead, ClaimInv, JobRow
    <2> QED BY <2>1
  <1>6. CASE RetryWrite
    BY <1>6 DEF RetryWrite, ClaimInv, NoRetry
  <1>7. ASSUME NEW u \in Uuids, NEW s, ProviderChanges(u, s) PROVE ClaimInv'
    BY <1>7, Elsewhere DEF ProviderChanges, locals
  <1>8. ASSUME NEW w \in Workers, SelectCandidate(w) PROVE ClaimInv'
    <2>1. PICK j \in Created : /\ held' = [held EXCEPT ![w] = j]
                               /\ seen' = [seen EXCEPT ![w] = SnapshotOf(j)]
      BY <1>8 DEF SelectCandidate
    <2>2. /\ pc[w] = "idle" /\ pc' = [pc EXCEPT ![w] = "selected"]
          /\ UNCHANGED <<jobs, retrying>>
      BY <1>8 DEF SelectCandidate, Goto
    <2>3. SnapshotOf(j) \in Snapshot /\ SnapshotOf(j) # NULL /\ j \in Jobs
      BY SnapshotType DEF ClaimInv, Created
    <2> QED
      BY <2>1, <2>2, <2>3
         DEF ClaimInv, ClaimTypes, HoldsJob, NoRetry, OneWorkerPerJob, Created, PC, Engaged
  <1>9. ASSUME NEW w \in Workers, Claim(w) PROVE ClaimInv'
    <2>1. /\ held[w] \in Created /\ pc[w] = "selected"
          /\ seen[w] \in Snapshot
      BY <1>9 DEF Claim, Goto, ClaimInv, ClaimTypes, HoldsJob
    <2>2. PICK j \in Created : j = held[w]
      BY <2>1
    <2>3. PICK n \in Nat : n = NextAttemptCount(seen[w].attempts, seen[w].accepted)
      BY <2>1 DEF NextAttemptCount, Snapshot
    <2>4. jobs[j] \in JobRow /\ SnapshotOf(j) \in Snapshot /\ j \in Jobs
      BY CreatedIsRow, SnapshotType DEF ClaimInv
    <2>5. /\ jobs[j].status # "processing"
          /\ jobs' = [jobs EXCEPT ![j].status = "processing", ![j].attempts = n]
          /\ seen' = [seen EXCEPT ![w] = [SnapshotOf(j) EXCEPT !.attempts = n]]
          /\ pc' = [pc EXCEPT ![w] = "claimed"]
          /\ UNCHANGED <<held, retrying>>
      BY <1>9, <2>2, <2>3 DEF Claim, Goto, Claimable
    <2>6. /\ jobs'[j] \in JobRow /\ jobs'[j].status = "processing"
          /\ \A k \in Jobs \ {j} : jobs'[k] = jobs[k]
      BY <2>4, <2>5 DEF ClaimInv, ClaimTypes, JobRow, JobStatus
    <2>7. seen'[w] \in Snapshot /\ seen'[w] # NULL
      BY <2>4, <2>5, NullAssumption DEF ClaimInv, ClaimTypes, Snapshot
    <2>8. \A v \in Workers : pc[v] \in Engaged => held[v] # j
      BY <2>5 DEF ClaimInv, HoldsJob, Engaged
    <2>9. ClaimTypes'
      BY <2>5, <2>6, <2>7 DEF ClaimInv, ClaimTypes, PC, Engaged
    <2>10. HoldsJob'
      <3>1. \A k \in Created : k \in Created'
        BY <2>2, <2>4, <2>6, NullAssumption DEF Created
      <3>2. \A v \in Workers \ {w} : pc'[v] = pc[v] /\ seen'[v] = seen[v]
        BY <2>5
      <3>3. ASSUME NEW v \in Workers \ {w}, pc'[v] # "idle"
            PROVE  /\ held'[v] \in Created'
                   /\ seen'[v] # NULL
                   /\ pc'[v] \in Engaged => jobs'[held'[v]].status = "processing"
          <4>1. /\ held[v] \in Created /\ seen[v] # NULL
                /\ pc[v] \in Engaged => jobs[held[v]].status = "processing"
            BY <3>2, <3>3 DEF ClaimInv, HoldsJob
          <4>2. held'[v] = held[v] /\ held[v] \in Jobs
            BY <2>5, <4>1 DEF Created
          <4>3. pc'[v] \in Engaged => jobs'[held'[v]] = jobs[held[v]]
            BY <2>6, <2>8, <3>2, <4>2
          <4> QED BY <3>1, <3>2, <4>1, <4>2, <4>3
      <3>4. held'[w] = j /\ j \in Created'
        BY <2>2, <2>5, <3>1
      <3> QED BY <2>6, <2>7, <3>3, <3>4 DEF HoldsJob
    <2>11. OneWorkerPerJob' /\ NoRetry'
      BY <2>2, <2>5, <2>8 DEF ClaimInv, ClaimTypes, OneWorkerPerJob, NoRetry
    <2> QED BY <2>9, <2>10, <2>11 DEF ClaimInv
  <1>10. ASSUME NEW w \in Workers, ClaimLost(w) \/ WorkerDies(w) PROVE ClaimInv'
    BY <1>10, LetsGo DEF ClaimLost, WorkerDies, Goto
  <1>11. ASSUME NEW w \in Workers,
                \/ ResolveForSubmission(w) \/ ResolveForPoll(w) \/ ListProvider(w)
                \/ CreateOrReuse(w) \/ PollProvider(w) \/ CommitResourceFailed(w)
                \/ ProviderThrows(w)
         PROVE  ClaimInv'
    <2>1. \E to \in Engaged : pc' = [pc EXCEPT ![w] = to]
      BY <1>11 DEF ResolveForSubmission, ResolveForPoll, ListProvider, CreateOrReuse,
                   PollProvider, CommitResourceFailed, ProviderThrows, Goto, Engaged
    <2>2. pc[w] \in Engaged
      BY <1>11 DEF ResolveForSubmission, ResolveForPoll, ListProvider, CreateOrReuse,
                   PollProvider, CommitResourceFailed, ProviderThrows, Goto, Engaged
    <2>3. UNCHANGED <<jobs, held, seen, retrying>>
      BY <1>11 DEF ResolveForSubmission, ResolveForPoll, ListProvider, CreateOrReuse,
                   PollProvider, CommitResourceFailed, ProviderThrows, locals
    <2> QED BY <2>1, <2>2, <2>3, GoesOn DEF PC, Engaged
  <1>12. ASSUME NEW w \in Workers,
                CommitRedeployment(w) \/ CommitSubmission(w) \/ CommitStillRunning(w)
         PROVE  ClaimInv'
    <2>1. pc[w] \in Engaged /\ pc' = [pc EXCEPT ![w] = "idle"]
      BY <1>12 DEF CommitRedeployment, CommitSubmission, CommitStillRunning, Goto, Engaged
    <2>2. AwaitPoll(held[w]) /\ Forget(w) /\ retrying' = retrying
      BY <1>12 DEF CommitRedeployment, CommitSubmission, CommitStillRunning
    <2>3. \E row \in JobRow : jobs' = [jobs EXCEPT ![held[w]] = row]
      BY <2>1, <2>2, WorkerWrites DEF AwaitPoll, JobStatus
    <2> QED BY <2>1, <2>2, <2>3, LetsGo
  <1>13. ASSUME NEW w \in Workers, CommitSucceeded(w) PROVE ClaimInv'
    <2>1. pc[w] \in Engaged /\ pc' = [pc EXCEPT ![w] = "idle"]
      BY <1>13 DEF CommitSucceeded, Goto, Engaged
    <2>2. \E row \in JobRow : jobs' = [jobs EXCEPT ![held[w]] = row]
      BY <1>13, <2>1, WorkerWrites DEF CommitSucceeded, JobStatus
    <2> QED BY <1>13, <2>1, <2>2, LetsGo DEF CommitSucceeded
  <1>14. ASSUME NEW w \in Workers, RecordFailure(w) PROVE ClaimInv'
    <2>1. /\ pc[w] = "failing" /\ pc' = [pc EXCEPT ![w] = "failed"]
          /\ UNCHANGED <<held, seen, retrying>>
      BY <1>14 DEF RecordFailure, Goto, locals
    <2>2. seen[w] \in Snapshot /\ held[w] \in Created
      BY <2>1 DEF ClaimInv, ClaimTypes, HoldsJob
    <2>3. PICK n \in Nat : jobs' = [jobs EXCEPT ![held[w]].status = "failed",
                                                ![held[w]].attempts = n]
      BY <1>14, <2>2 DEF RecordFailure, Snapshot
    <2>4. [jobs[held[w]] EXCEPT !.status = "failed", !.attempts = n] \in JobRow
      BY <2>1, WorkerWrites DEF JobStatus, Engaged
    <2>5. jobs' = [jobs EXCEPT ![held[w]] =
                      [jobs[held[w]] EXCEPT !.status = "failed", !.attempts = n]]
      BY <2>3
    <2>6. \A v \in Workers \ {w} : pc[v] \in Engaged => held[v] # held[w]
      BY <2>1 DEF ClaimInv, OneWorkerPerJob, Engaged
    <2> QED
      BY <2>1, <2>2, <2>4, <2>5, <2>6, NullAssumption
         DEF ClaimInv, ClaimTypes, HoldsJob, NoRetry, OneWorkerPerJob, Created, PC, Engaged
  <1>15. ASSUME NEW w \in Workers, RecordFailedRows(w) PROVE ClaimInv'
    BY <1>15, LetsGo DEF RecordFailedRows, Goto
  <1> QED
    BY <1>1, <1>2, <1>3, <1>4, <1>5, <1>6, <1>7, <1>8, <1>9, <1>10, <1>11, <1>12,
       <1>13, <1>14, <1>15
       DEF Next, Work

-----------------------------------------------------------------------------
LEMMA ClaimHolds ==
    ASSUME RetryLimit = 0
    PROVE  Spec => []ClaimInv
  <1>1. ClaimInv /\ [Next]_vars => ClaimInv'
    BY ClaimStep
  <1> QED BY <1>1, ClaimInit, PTL DEF Spec

\* The optimistic claim is enough: whatever candidates the workers have read,
\* and wherever they die, a job is worked on by one of them.
THEOREM ClaimIsExclusive ==
    ASSUME RetryLimit = 0
    PROVE  Spec => []OneWorkerPerJob
  <1>1. ClaimInv => OneWorkerPerJob
    BY DEF ClaimInv
  <1> QED BY <1>1, ClaimHolds, PTL

\* Rows are added by the handlers, and written by a worker that claims them or
\* that has done so: none of these writes meets a job that has succeeded.
LEMMA SucceededStays ==
    ASSUME ClaimInv, RetryLimit = 0, [Next]_vars,
           NEW j \in Created, jobs[j].status = "succeeded"
    PROVE  jobs'[j] = jobs[j]
  <1>0. j \in Jobs /\ jobs \in [Jobs -> JobRow \union {NULL}]
    BY CreatedIsRow DEF ClaimInv, ClaimTypes
  <1>1. CASE UNCHANGED jobs
    BY <1>1
  <1>2. ASSUME NEW x \in Apps \union {Starter}, Enqueue(x) PROVE jobs'[j] = jobs[j]
    BY <1>0, <1>2, EnqueueIsNew
  <1>3. \A k \in Created : ~RetryRead(k) /\ ~RetryWrite
    <2>1. \A k \in Created : jobs[k].attempts \in Nat
      BY CreatedIsRow DEF ClaimInv, JobRow
    <2> QED BY <2>1 DEF RetryRead, RetryWrite, ClaimInv, NoRetry
  <1>4. ASSUME NEW w \in Workers, Claim(w) PROVE jobs'[j] = jobs[j]
    <2>1. held[w] # j
      BY <1>4 DEF Claim, Claimable
    <2> QED BY <1>0, <1>4, <2>1 DEF Claim
  <1>5. ASSUME NEW w \in Workers,
               \/ CommitRedeployment(w) \/ CommitSubmission(w) \/ CommitStillRunning(w)
               \/ CommitSucceeded(w) \/ RecordFailure(w)
        PROVE  jobs'[j] = jobs[j]
    <2>1. pc[w] \in Engaged /\ pc[w] # "idle"
      BY <1>5 DEF CommitRedeployment, CommitSubmission, CommitStillRunning,
                  CommitSucceeded, RecordFailure, Goto, Engaged
    <2>2. held[w] # j
      BY <2>1 DEF ClaimInv, HoldsJob
    <2> QED
      BY <1>0, <1>5, <2>2 DEF CommitRedeployment, CommitSubmission, CommitStillRunning,
                              CommitSucceeded, RecordFailure, AwaitPoll
  <1>6. ASSUME NEW w \in Workers,
               \/ ClaimLost(w) \/ WorkerDies(w) \/ SelectCandidate(w)
               \/ ResolveForSubmission(w) \/ ResolveForPoll(w) \/ ListProvider(w)
               \/ CreateOrReuse(w) \/ PollProvider(w) \/ CommitResourceFailed(w)
               \/ ProviderThrows(w) \/ RecordFailedRows(w)
        PROVE  jobs'[j] = jobs[j]
    BY <1>6 DEF ClaimLost, WorkerDies, SelectCandidate, ResolveForSubmission,
                ResolveForPoll, ListProvider, CreateOrReuse, PollProvider,
                CommitResourceFailed, ProviderThrows, RecordFailedRows
  <1>7. ASSUME NEW k, BecomesDue(k) PROVE jobs'[j] = jobs[j]
    BY <1>7 DEF BecomesDue
  <1>8. ASSUME NEW u, NEW s, ProviderChanges(u, s) PROVE jobs'[j] = jobs[j]
    BY <1>8 DEF ProviderChanges
  <1> QED
    BY <1>1, <1>2, <1>3, <1>4, <1>5, <1>6, <1>7, <1>8
       DEF Next, Work, CreateApplication, UpdateApplication, QueueStarter, vars

\* A job that has succeeded is never written again.
THEOREM SucceededFinal ==
    ASSUME RetryLimit = 0
    PROVE  Spec => SucceededIsFinal
  <1>1. ClaimInv /\ [Next]_vars =>
            [\A j \in Created : jobs[j].status = "succeeded" => jobs'[j] = jobs[j]]_vars
    BY SucceededStays
  <1> QED BY <1>1, ClaimHolds, PTL DEF Spec, SucceededIsFinal

-----------------------------------------------------------------------------
(* The attempt count, also with crashes and an operator's retries          *)

RetryRow == [job : Jobs, attempts : Nat, maximum : Nat]

\* What a worker has read, and what it will count from it, was granted to its job.
ReadWithin(w) ==
    pc[w] # "idle" =>
        /\ held[w] \in Created
        /\ seen[w] \in Snapshot
        /\ Granted(held[w], seen[w].maximum)
        /\ Granted(held[w], seen[w].attempts)
        /\ pc[w] = "selected" =>
            Granted(held[w], NextAttemptCount(seen[w].attempts, seen[w].accepted))

\* Retries have read rows of existing jobs, perhaps long ago.
RetriesKnown ==
    /\ retrying \subseteq RetryRow
    /\ \A t \in retrying : t.job \in Created

\* The maximum of a job, too, is one it was queued with or one a retry has granted:
\* not the latest one, and not always as high as the attempts already counted.
MaximumGranted ==
    \A j \in Created : Granted(j, jobs[j].maximum)

BoundInv ==
    /\ ClaimTypes
    /\ \A w \in Workers : ReadWithin(w)
    /\ RetriesKnown
    /\ MaximumGranted
    /\ AttemptsGranted

\* No row and no read of a retry is removed, and every row keeps to what was granted.
RowsKeepBound ==
    /\ jobs' \in [Jobs -> JobRow \union {NULL}]
    /\ \A j \in Created : j \in Created'
    /\ retrying \subseteq retrying'
    /\ MaximumGranted'
    /\ AttemptsGranted'

LEMMA BoundInit == Init => BoundInv
  BY DEF Init, BoundInv, ClaimTypes, ReadWithin, RetriesKnown, MaximumGranted, AttemptsGranted,
         PC, Engaged, Created

\* What has been granted stays granted.
LEMMA GrantsStay ==
    ASSUME retrying \subseteq retrying', NEW j, NEW n, Granted(j, n)
    PROVE  Granted(j, n)'
  BY DEF Granted, Raised

\* Whoever is granted a number of attempts is granted fewer.
LEMMA FewerGranted ==
    ASSUME RetriesKnown, NEW j, NEW m \in Nat, NEW n \in Nat, n <= m, Granted(j, m)
    PROVE  Granted(j, n)
  <1>1. CASE m <= MaximumAttempts
    BY <1>1, AttemptsAssumption DEF Granted
  <1>2. ASSUME NEW t \in retrying, t.job = j, m <= Raised(t) PROVE Granted(j, n)
    <2>1. Raised(t) \in Nat
      BY DEF RetriesKnown, RetryRow, Raised
    <2> QED BY <1>2, <2>1 DEF Granted
  <1> QED BY <1>1, <1>2 DEF Granted

\* A row that keeps to what is granted is written, or no row is.
LEMMA RowGrantsStay ==
    ASSUME BoundInv, retrying \subseteq retrying', NEW j \in Created, jobs'[j] = jobs[j]
    PROVE  Granted(j, jobs[j].maximum)' /\ Granted(j, jobs[j].attempts)'
  <1>1. PICK m, n : m = jobs[j].maximum /\ n = jobs[j].attempts
    OBVIOUS
  <1>2. Granted(j, m) /\ Granted(j, n)
    BY <1>1 DEF BoundInv, MaximumGranted, AttemptsGranted
  <1>3. Granted(j, m)' /\ Granted(j, n)'
    BY <1>2, GrantsStay
  <1> QED BY <1>1, <1>3 DEF Granted

LEMMA SameRowsKeepBound ==
    ASSUME BoundInv, UNCHANGED jobs, retrying \subseteq retrying'
    PROVE  RowsKeepBound
  <1>1. MaximumGranted' /\ AttemptsGranted'
    BY RowGrantsStay DEF MaximumGranted, AttemptsGranted, Created
  <1> QED BY <1>1 DEF BoundInv, ClaimTypes, RowsKeepBound, Created

LEMMA OneRowKeepsBound ==
    ASSUME BoundInv, UNCHANGED retrying, NEW j \in Created, NEW row \in JobRow,
           jobs' = [jobs EXCEPT ![j] = row],
           Granted(j, row.maximum), Granted(j, row.attempts)
    PROVE  RowsKeepBound
  <1>1. j \in Jobs /\ jobs[j] \in JobRow /\ row # NULL
    BY CreatedIsRow, NullAssumption DEF BoundInv
  <1>2. \A k \in Jobs : jobs'[k] = IF k = j THEN row ELSE jobs[k]
    BY <1>1 DEF BoundInv, ClaimTypes
  <1>3. jobs' \in [Jobs -> JobRow \union {NULL}]
    BY <1>1 DEF BoundInv, ClaimTypes
  <1>4. Created' = Created
    BY <1>1, <1>2 DEF Created
  <1>5. ASSUME NEW k \in Created, k # j
        PROVE  Granted(k, jobs[k].maximum)' /\ Granted(k, jobs[k].attempts)'
    BY <1>2, <1>5, RowGrantsStay DEF Created
  <1>6. Granted(j, jobs[j].maximum)' /\ Granted(j, jobs[j].attempts)'
    BY <1>1, <1>2 DEF Granted
  <1>7. MaximumGranted' /\ AttemptsGranted'
    BY <1>4, <1>5, <1>6 DEF MaximumGranted, AttemptsGranted
  <1> QED BY <1>3, <1>4, <1>7 DEF RowsKeepBound

\* A worker stands still, or moves on with what it has read.
LEMMA ReadStays ==
    ASSUME BoundInv, RowsKeepBound, NEW w \in Workers,
           held'[w] = held[w], seen'[w] = seen[w],
           \/ pc'[w] = pc[w]
           \/ pc[w] \notin {"idle", "selected"} /\ pc'[w] # "selected"
    PROVE  ReadWithin(w)'
  <1> SUFFICES ASSUME pc'[w] # "idle" PROVE ReadWithin(w)'
    BY DEF ReadWithin
  <1>1. pc[w] # "idle"
    OBVIOUS
  <1>2. PICK h, m, n, c : /\ h = held[w] /\ m = seen[w].maximum /\ n = seen[w].attempts
                          /\ c = NextAttemptCount(seen[w].attempts, seen[w].accepted)
    OBVIOUS
  <1>3. /\ h \in Created /\ seen[w] \in Snapshot
        /\ Granted(h, m) /\ Granted(h, n) /\ (pc[w] = "selected" => Granted(h, c))
    BY <1>1, <1>2 DEF BoundInv, ReadWithin
  <1>4. /\ h \in Created'
        /\ Granted(h, m)' /\ Granted(h, n)' /\ (pc[w] = "selected" => Granted(h, c)')
    BY <1>3, GrantsStay DEF RowsKeepBound
  <1>5. /\ Granted(held[w], seen[w].maximum)' /\ Granted(held[w], seen[w].attempts)'
        /\ pc'[w] = "selected" => Granted(held[w], NextAttemptCount(seen[w].attempts, seen[w].accepted))'
    BY <1>2, <1>4 DEF Granted, NextAttemptCount
  <1> QED BY <1>2, <1>3, <1>4, <1>5 DEF ReadWithin

\* The rows that retries have read exist.
LEMMA RetriesStay ==
    ASSUME BoundInv, RowsKeepBound, UNCHANGED retrying
    PROVE  RetriesKnown'
  BY DEF BoundInv, RowsKeepBound, RetriesKnown

\* A worker moves on, lets go or dies; others stand still.
LEMMA WorkerKeepsBound ==
    ASSUME BoundInv, RowsKeepBound, NEW w \in Workers, NEW to \in PC,
           UNCHANGED retrying,
           pc' = [pc EXCEPT ![w] = to],
           \/ to = "idle" /\ Forget(w)
           \/ /\ UNCHANGED <<held, seen>>
              /\ pc[w] \notin {"idle", "selected"} /\ to # "selected"
    PROVE  BoundInv'
  <1>1. /\ pc' \in [Workers -> PC]
        /\ held' \in [Workers -> Jobs \union {NULL}]
        /\ seen' \in [Workers -> Snapshot \union {NULL}]
    BY DEF BoundInv, ClaimTypes, Forget
  <1>2. /\ pc'[w] = to
        /\ \A v \in Workers \ {w} : pc'[v] = pc[v] /\ held'[v] = held[v] /\ seen'[v] = seen[v]
    BY DEF BoundInv, ClaimTypes, Forget
  <1>3. \A v \in Workers \ {w} : ReadWithin(v)'
    BY <1>2, ReadStays
  <1>4. ReadWithin(w)'
    <2>1. CASE to = "idle"
      BY <1>2, <2>1 DEF ReadWithin
    <2>2. CASE to # "idle"
      BY <1>2, <2>2, ReadStays
    <2> QED BY <2>1, <2>2
  <1> QED BY <1>1, <1>3, <1>4, RetriesStay DEF BoundInv, ClaimTypes, RowsKeepBound

\* The workers stand still.
LEMMA OthersKeepBound ==
    ASSUME BoundInv, RowsKeepBound, UNCHANGED <<pc, held, seen>>, RetriesKnown'
    PROVE  BoundInv'
  BY ReadStays DEF BoundInv, ClaimTypes, RowsKeepBound

\* A new row counts from zero.
LEMMA EnqueueKeepsBound ==
    ASSUME BoundInv, NEW x \in Apps \union {Starter}, Enqueue(x)
    PROVE  BoundInv'
  <1> DEFINE new == [app |-> x, status |-> "queued", attempts |-> 0,
                     maximum |-> MaximumAttempts, accepted |-> FALSE]
  <1>1. PICK j \in Jobs \ Created : jobs' = [jobs EXCEPT ![j] = new]
    BY DEF Enqueue
  <1>2. /\ new \in JobRow /\ new # NULL
        /\ new.attempts <= MaximumAttempts /\ new.maximum <= MaximumAttempts
    <2>1. new \in JobRow
      BY AttemptsAssumption DEF JobRow, JobStatus
    <2>2. new.attempts <= MaximumAttempts /\ new.maximum <= MaximumAttempts
      BY AttemptsAssumption
    <2> HIDE DEF new
    <2> QED BY <2>1, <2>2, NullAssumption
  <1> HIDE DEF new
  <1>3. \A k \in Jobs : jobs'[k] = IF k = j THEN new ELSE jobs[k]
    BY <1>1 DEF BoundInv, ClaimTypes
  <1>4. jobs' \in [Jobs -> JobRow \union {NULL}]
    BY <1>1, <1>2 DEF BoundInv, ClaimTypes
  <1>5. \A k \in Created : k \in Created' /\ jobs'[k] = jobs[k]
    BY <1>3 DEF Created
  <1>6. \A k \in Created' : k = j \/ k \in Created
    BY <1>3 DEF Created
  <1>7. UNCHANGED <<pc, held, seen, retrying>>
    BY DEF Enqueue, locals
  <1>8. Granted(j, jobs[j].maximum)' /\ Granted(j, jobs[j].attempts)'
    BY <1>2, <1>3 DEF Granted
  <1>9. MaximumGranted' /\ AttemptsGranted'
    BY <1>5, <1>6, <1>7, <1>8, RowGrantsStay DEF MaximumGranted, AttemptsGranted
  <1>10. RowsKeepBound
    BY <1>4, <1>5, <1>7, <1>9 DEF RowsKeepBound
  <1>11. RetriesKnown'
    BY <1>7, <1>10, RetriesStay
  <1> QED BY <1>7, <1>10, <1>11, OthersKeepBound

LEMMA SelectKeepsBound ==
    ASSUME BoundInv, NEW w \in Workers, SelectCandidate(w)
    PROVE  BoundInv'
  <1>1. PICK j \in Created : /\ Runnable(j)
                             /\ held' = [held EXCEPT ![w] = j]
                             /\ seen' = [seen EXCEPT ![w] = SnapshotOf(j)]
    BY DEF SelectCandidate, IsOldest
  <1>2. pc' = [pc EXCEPT ![w] = "selected"] /\ UNCHANGED <<jobs, retrying>>
    BY DEF SelectCandidate, Goto
  <1>3. j \in Jobs /\ jobs[j] \in JobRow /\ SnapshotOf(j) \in Snapshot
    BY CreatedIsRow, SnapshotType DEF BoundInv
  <1>4. RowsKeepBound
    BY <1>2, SameRowsKeepBound
  <1>5. /\ pc' \in [Workers -> PC] /\ held' \in [Workers -> Jobs \union {NULL}]
        /\ seen' \in [Workers -> Snapshot \union {NULL}]
    BY <1>1, <1>2, <1>3 DEF BoundInv, ClaimTypes, PC
  <1>6. /\ pc'[w] = "selected" /\ held'[w] = j /\ seen'[w] = SnapshotOf(j)
        /\ \A v \in Workers \ {w} : pc'[v] = pc[v] /\ held'[v] = held[v] /\ seen'[v] = seen[v]
    BY <1>1, <1>2 DEF BoundInv, ClaimTypes
  <1>7. ReadWithin(w)'
    <2>1. PICK m \in Nat, a \in Nat, n \in Nat, d \in BOOLEAN :
            /\ m = jobs[j].maximum /\ a = jobs[j].attempts /\ d = jobs[j].accepted
            /\ n = NextAttemptCount(a, d)
      BY <1>3 DEF JobRow, NextAttemptCount
    <2>2. Granted(j, m) /\ Granted(j, a)
      BY <2>1 DEF BoundInv, MaximumGranted, AttemptsGranted
    <2>3. n = a \/ n <= m
      BY <1>1, <2>1 DEF Runnable, NextAttemptCount
    <2>4. Granted(j, n)
      BY <2>2, <2>3, FewerGranted DEF BoundInv
    <2>5. /\ seen'[w].maximum = m /\ seen'[w].attempts = a
          /\ NextAttemptCount(seen'[w].attempts, seen'[w].accepted) = n
      BY <1>6, <2>1 DEF SnapshotOf
    <2>6. j \in Created'
      BY <1>2 DEF Created
    <2> QED BY <1>2, <1>3, <1>6, <2>2, <2>4, <2>5, <2>6 DEF ReadWithin, Granted, NextAttemptCount
  <1>8. \A v \in Workers \ {w} : ReadWithin(v)'
    BY <1>4, <1>6, ReadStays
  <1>9. RetriesKnown'
    BY <1>2, <1>4, RetriesStay
  <1> QED BY <1>4, <1>5, <1>7, <1>8, <1>9 DEF BoundInv, ClaimTypes, RowsKeepBound

\* The count a claim stores was granted when the candidate was read.
LEMMA ClaimKeepsBound ==
    ASSUME BoundInv, NEW w \in Workers, Claim(w)
    PROVE  BoundInv'
  <1>1. /\ pc[w] = "selected" /\ pc' = [pc EXCEPT ![w] = "claimed"]
        /\ UNCHANGED <<held, retrying>>
    BY DEF Claim, Goto
  <1>2. PICK j \in Created : j = held[w]
    BY <1>1 DEF BoundInv, ReadWithin
  <1>3. PICK n \in Nat : n = NextAttemptCount(seen[w].attempts, seen[w].accepted)
    BY <1>1 DEF BoundInv, ReadWithin, NextAttemptCount, Snapshot
  <1>4. j \in Jobs /\ jobs[j] \in JobRow /\ SnapshotOf(j) \in Snapshot
    BY CreatedIsRow, SnapshotType DEF BoundInv
  <1>5. Granted(j, n) /\ Granted(j, jobs[j].maximum)
    BY <1>1, <1>2, <1>3 DEF BoundInv, ReadWithin, MaximumGranted
  <1>6. /\ jobs' = [jobs EXCEPT ![j] = [jobs[j] EXCEPT !.status = "processing", !.attempts = n]]
        /\ seen' = [seen EXCEPT ![w] = [SnapshotOf(j) EXCEPT !.attempts = n]]
    BY <1>2, <1>3 DEF Claim
  <1>7. PICK row \in JobRow : /\ row = [jobs[j] EXCEPT !.status = "processing", !.attempts = n]
                              /\ row.maximum = jobs[j].maximum /\ row.attempts = n
    <2> DEFINE moved == [jobs[j] EXCEPT !.status = "processing", !.attempts = n]
    <2>1. moved \in JobRow /\ moved.maximum = jobs[j].maximum /\ moved.attempts = n
      BY <1>4 DEF JobRow, JobStatus
    <2> HIDE DEF moved
    <2>2. \E row \in JobRow : row = moved /\ row.maximum = jobs[j].maximum /\ row.attempts = n
      BY <2>1
    <2> QED BY <2>2 DEF moved
  <1>8. RowsKeepBound
    <2>1. jobs' = [jobs EXCEPT ![j] = row] /\ Granted(j, row.maximum) /\ Granted(j, row.attempts)
      BY <1>5, <1>6, <1>7
    <2> QED BY <1>1, <2>1, OneRowKeepsBound
  <1>9. PICK read \in Snapshot : /\ read = [SnapshotOf(j) EXCEPT !.attempts = n]
                                 /\ read.attempts = n /\ read.maximum = jobs[j].maximum
    <2> DEFINE stored == [SnapshotOf(j) EXCEPT !.attempts = n]
    <2>1. stored \in Snapshot /\ stored.attempts = n /\ stored.maximum = jobs[j].maximum
      BY <1>4 DEF Snapshot, SnapshotOf
    <2> HIDE DEF stored
    <2>2. \E read \in Snapshot : read = stored /\ read.attempts = n /\ read.maximum = jobs[j].maximum
      BY <2>1
    <2> QED BY <2>2 DEF stored
  <1>10. /\ pc' \in [Workers -> PC] /\ seen' \in [Workers -> Snapshot \union {NULL}]
    BY <1>1, <1>6, <1>9 DEF BoundInv, ClaimTypes, PC, Engaged
  <1>11. /\ pc'[w] = "claimed" /\ held'[w] = j /\ seen'[w] = read
         /\ \A v \in Workers \ {w} : pc'[v] = pc[v] /\ held'[v] = held[v] /\ seen'[v] = seen[v]
    BY <1>1, <1>2, <1>6, <1>9 DEF BoundInv, ClaimTypes
  <1>12. ReadWithin(w)'
    <2>1. j \in Created'
      BY <1>8 DEF RowsKeepBound
    <2>2. Granted(j, read.maximum) /\ Granted(j, read.attempts)
      BY <1>5, <1>9
    <2> QED BY <1>1, <1>9, <1>11, <2>1, <2>2 DEF ReadWithin, Granted
  <1>13. \A v \in Workers \ {w} : ReadWithin(v)'
    BY <1>8, <1>11, ReadStays
  <1>14. RetriesKnown'
    BY <1>1, <1>8, RetriesStay
  <1> QED BY <1>1, <1>8, <1>10, <1>12, <1>13, <1>14 DEF BoundInv, ClaimTypes, RowsKeepBound

\* A worker writes status, result and attempt count of its job.
LEMMA WriteKeepsBound ==
    ASSUME BoundInv, NEW w \in Workers, pc[w] \in Engaged, NEW to \in {"idle", "failed"},
           pc' = [pc EXCEPT ![w] = to], UNCHANGED retrying,
           to = "idle" => Forget(w), to = "failed" => UNCHANGED <<held, seen>>,
           NEW row \in JobRow, jobs' = [jobs EXCEPT ![held[w]] = row],
           row.maximum = jobs[held[w]].maximum, Granted(held[w], row.attempts)
    PROVE  BoundInv'
  <1>1. pc[w] # "idle" /\ pc[w] # "selected" /\ to \in PC
    BY DEF Engaged, PC
  <1>2. PICK j \in Created : j = held[w]
    BY <1>1 DEF BoundInv, ReadWithin
  <1>3. RowsKeepBound
    <2>1. jobs' = [jobs EXCEPT ![j] = row] /\ Granted(j, row.maximum) /\ Granted(j, row.attempts)
      BY <1>2 DEF BoundInv, MaximumGranted
    <2> QED BY <2>1, OneRowKeepsBound
  <1> QED BY <1>1, <1>3, WorkerKeepsBound

LEMMA HeldRow ==
    ASSUME BoundInv, NEW w \in Workers, pc[w] \in Engaged
    PROVE  /\ held[w] \in Created /\ jobs[held[w]] \in JobRow
           /\ Granted(held[w], jobs[held[w]].attempts)
           /\ seen[w] \in Snapshot
           /\ Granted(held[w], seen[w].attempts)
           /\ Granted(held[w], seen[w].maximum)
  <1>1. pc[w] # "idle" /\ pc[w] # "selected"
    BY DEF Engaged
  <1>2. held[w] \in Created
    BY <1>1 DEF BoundInv, ReadWithin
  <1> QED BY <1>1, <1>2, CreatedIsRow DEF BoundInv, ReadWithin, AttemptsGranted

LEMMA CommitKeepsBound ==
    ASSUME BoundInv, NEW w \in Workers,
           \/ CommitRedeployment(w) \/ CommitSubmission(w) \/ CommitStillRunning(w)
           \/ CommitSucceeded(w)
    PROVE  BoundInv'
  <1>1. /\ pc[w] \in Engaged /\ pc' = [pc EXCEPT ![w] = "idle"]
        /\ Forget(w) /\ UNCHANGED retrying
    BY DEF CommitRedeployment, CommitSubmission, CommitStillRunning, CommitSucceeded, Goto, Engaged
  <1>2. PICK s \in JobStatus :
          jobs' = [jobs EXCEPT ![held[w]] = [jobs[held[w]] EXCEPT !.status = s, !.accepted = TRUE]]
    BY DEF CommitRedeployment, CommitSubmission, CommitStillRunning, CommitSucceeded, AwaitPoll, JobStatus
  <1>3. PICK row \in JobRow : /\ row = [jobs[held[w]] EXCEPT !.status = s, !.accepted = TRUE]
                              /\ row.maximum = jobs[held[w]].maximum
                              /\ row.attempts = jobs[held[w]].attempts
    <2> DEFINE moved == [jobs[held[w]] EXCEPT !.status = s, !.accepted = TRUE]
    <2>1. /\ moved \in JobRow
          /\ moved.maximum = jobs[held[w]].maximum /\ moved.attempts = jobs[held[w]].attempts
      BY <1>1, HeldRow DEF JobRow
    <2> HIDE DEF moved
    <2>2. \E row \in JobRow : /\ row = moved /\ row.maximum = jobs[held[w]].maximum
                              /\ row.attempts = jobs[held[w]].attempts
      BY <2>1
    <2> QED BY <2>2 DEF moved
  <1> QED BY <1>1, <1>2, <1>3, HeldRow, WriteKeepsBound

LEMMA FailureKeepsBound ==
    ASSUME BoundInv, NEW w \in Workers, RecordFailure(w)
    PROVE  BoundInv'
  <1>1. /\ pc[w] \in Engaged /\ pc' = [pc EXCEPT ![w] = "failed"]
        /\ UNCHANGED <<held, seen, retrying>>
    BY DEF RecordFailure, Goto, locals, Engaged
  <1>2. PICK n \in Nat :
          /\ n = IF Terminal(w) THEN seen[w].maximum ELSE seen[w].attempts
          /\ Granted(held[w], n)
    BY <1>1, HeldRow DEF Snapshot, JobRow
  <1>3. jobs' = [jobs EXCEPT ![held[w]] = [jobs[held[w]] EXCEPT !.status = "failed", !.attempts = n]]
    BY <1>2 DEF RecordFailure
  <1>4. PICK row \in JobRow : /\ row = [jobs[held[w]] EXCEPT !.status = "failed", !.attempts = n]
                              /\ row.maximum = jobs[held[w]].maximum
                              /\ row.attempts = n
    <2> DEFINE moved == [jobs[held[w]] EXCEPT !.status = "failed", !.attempts = n]
    <2>1. moved \in JobRow /\ moved.maximum = jobs[held[w]].maximum /\ moved.attempts = n
      BY <1>1, HeldRow DEF JobRow, JobStatus
    <2> HIDE DEF moved
    <2>2. \E row \in JobRow : row = moved /\ row.maximum = jobs[held[w]].maximum /\ row.attempts = n
      BY <2>1
    <2> QED BY <2>2 DEF moved
  <1> QED BY <1>1, <1>2, <1>3, <1>4, WriteKeepsBound

LEMMA MoveKeepsBound ==
    ASSUME BoundInv, NEW w \in Workers,
           \/ ClaimLost(w) \/ WorkerDies(w) \/ RecordFailedRows(w)
           \/ ResolveForSubmission(w) \/ ResolveForPoll(w) \/ ListProvider(w)
           \/ CreateOrReuse(w) \/ PollProvider(w) \/ CommitResourceFailed(w)
           \/ ProviderThrows(w)
    PROVE  BoundInv'
  <1>1. RowsKeepBound /\ UNCHANGED <<jobs, retrying>>
    BY SameRowsKeepBound
       DEF ClaimLost, WorkerDies, RecordFailedRows, ResolveForSubmission, ResolveForPoll,
           ListProvider, CreateOrReuse, PollProvider, CommitResourceFailed, ProviderThrows
  <1>2. CASE ClaimLost(w) \/ WorkerDies(w) \/ RecordFailedRows(w)
    <2>1. pc' = [pc EXCEPT ![w] = "idle"] /\ Forget(w) /\ "idle" \in PC
      BY <1>2 DEF ClaimLost, WorkerDies, RecordFailedRows, Goto, PC
    <2> QED BY <1>1, <2>1, WorkerKeepsBound
  <1>3. CASE \/ ResolveForSubmission(w) \/ ResolveForPoll(w) \/ ListProvider(w)
             \/ CreateOrReuse(w) \/ PollProvider(w) \/ CommitResourceFailed(w)
             \/ ProviderThrows(w)
    <2>1. PICK to \in Engaged : pc' = [pc EXCEPT ![w] = to]
      BY <1>3 DEF ResolveForSubmission, ResolveForPoll, ListProvider, CreateOrReuse,
                  PollProvider, CommitResourceFailed, ProviderThrows, Goto, Engaged
    <2>2. pc[w] \in Engaged /\ UNCHANGED <<held, seen>>
      BY <1>3 DEF ResolveForSubmission, ResolveForPoll, ListProvider, CreateOrReuse,
                  PollProvider, CommitResourceFailed, ProviderThrows, Goto, Engaged, locals
    <2>3. pc[w] \notin {"idle", "selected"} /\ to # "selected" /\ to \in PC
      BY <2>1, <2>2 DEF Engaged, PC
    <2> QED BY <1>1, <2>1, <2>2, <2>3, WorkerKeepsBound
  <1> QED BY <1>2, <1>3

LEMMA RetryKeepsBound ==
    ASSUME BoundInv, RetryWrite \/ \E j \in Created : RetryRead(j)
    PROVE  BoundInv'
  <1>1. ASSUME NEW j \in Created, RetryRead(j) PROVE BoundInv'
    <2>1. /\ retrying' = retrying \union
                {[job |-> j, attempts |-> jobs[j].attempts, maximum |-> jobs[j].maximum]}
          /\ UNCHANGED <<jobs, pc, held, seen>>
      BY <1>1 DEF RetryRead, locals
    <2>2. j \in Jobs /\ jobs[j] \in JobRow
      BY CreatedIsRow DEF BoundInv
    <2>3. RetriesKnown'
      BY <2>1, <2>2 DEF BoundInv, RetriesKnown, RetryRow, JobRow, Created
    <2> QED BY <2>1, <2>3, SameRowsKeepBound, OthersKeepBound
  <1>2. CASE RetryWrite
    <2>1. PICK t \in retrying : jobs' = [jobs EXCEPT ![t.job].status = "queued",
                                                     ![t.job].maximum = Raised(t)]
      BY <1>2 DEF RetryWrite
    <2>2. UNCHANGED <<pc, held, seen, retrying>>
      BY <1>2 DEF RetryWrite, locals
    <2>3. PICK j \in Created, m \in Nat : j = t.job /\ m = Raised(t)
      BY DEF BoundInv, RetriesKnown, RetryRow, Raised
    <2>4. j \in Jobs /\ jobs[j] \in JobRow /\ Granted(j, jobs[j].attempts)
      BY CreatedIsRow DEF BoundInv, AttemptsGranted
    <2>5. jobs' = [jobs EXCEPT ![j] = [jobs[j] EXCEPT !.status = "queued", !.maximum = m]]
      BY <2>1, <2>3, <2>4 DEF BoundInv, ClaimTypes
    <2>6. PICK row \in JobRow : /\ row = [jobs[j] EXCEPT !.status = "queued", !.maximum = m]
                                /\ row.maximum = m /\ row.attempts = jobs[j].attempts
      <3> DEFINE moved == [jobs[j] EXCEPT !.status = "queued", !.maximum = m]
      <3>1. moved \in JobRow /\ moved.maximum = m /\ moved.attempts = jobs[j].attempts
        BY <2>4 DEF JobRow, JobStatus
      <3> HIDE DEF moved
      <3>2. \E row \in JobRow : row = moved /\ row.maximum = m /\ row.attempts = jobs[j].attempts
        BY <3>1
      <3> QED BY <3>2 DEF moved
    <2>7. Granted(j, m)
      BY <2>3 DEF Granted
    <2>8. RowsKeepBound
      <3>1. jobs' = [jobs EXCEPT ![j] = row] /\ Granted(j, row.maximum) /\ Granted(j, row.attempts)
        BY <2>4, <2>5, <2>6, <2>7
      <3> QED BY <2>2, <3>1, OneRowKeepsBound
    <2> QED BY <2>2, <2>8, RetriesStay, OthersKeepBound
  <1> QED BY <1>1, <1>2

LEMMA BoundStep ==
    ASSUME BoundInv, [Next]_vars
    PROVE  BoundInv'
  <1>1. ASSUME UNCHANGED <<jobs, pc, held, seen, retrying>> PROVE BoundInv'
    BY <1>1, SameRowsKeepBound, RetriesStay, OthersKeepBound
  <1>2. ASSUME NEW x \in Apps,
               CreateApplication(x) \/ \E n \in Names : UpdateApplication(x, n)
        PROVE  BoundInv'
    BY <1>2, EnqueueKeepsBound DEF CreateApplication, UpdateApplication
  <1>3. CASE QueueStarter
    BY <1>3, EnqueueKeepsBound DEF QueueStarter
  <1>4. ASSUME NEW j \in Created, BecomesDue(j) PROVE BoundInv'
    BY <1>4, <1>1 DEF BecomesDue, locals
  <1>5. ASSUME NEW u \in Uuids, NEW s, ProviderChanges(u, s) PROVE BoundInv'
    BY <1>5, <1>1 DEF ProviderChanges, locals
  <1>6. CASE UNCHANGED vars
    BY <1>6, <1>1 DEF vars, locals
  <1> QED
    BY <1>2, <1>3, <1>4, <1>5, <1>6, RetryKeepsBound, SelectKeepsBound, ClaimKeepsBound,
       CommitKeepsBound, FailureKeepsBound, MoveKeepsBound DEF Next, Work

\* The stored attempt count stays within what the job was queued with or an
\* operator's retry has granted: with any number of workers that claim from old
\* reads, with crashes, and with any number of retries that write late.
THEOREM AttemptsStayGranted == Spec => []AttemptsGranted
  <1>1. BoundInv /\ [Next]_vars => BoundInv'
    BY BoundStep
  <1>2. BoundInv => AttemptsGranted
    BY DEF BoundInv
  <1> QED BY <1>1, <1>2, BoundInit, PTL DEF Spec

-----------------------------------------------------------------------------
(* Types: every table, every worker, and the copies at the provider        *)

\* A resource row names an application the provider has deployed, a job of an
\* application has its build, and a build names an existing resource row.
TablesLinked ==
    /\ \A u \in Uuids : resource[u] # NULL => latest[u] # "none"
    /\ \A j \in Created : IsApp(j) => build[jobs[j].app] # NULL
    /\ \A x \in Apps : build[x] # NULL /\ build[x].resource # NULL => resource[build[x].resource] # NULL

\* What a worker has read or created when it goes on.
Knows(w) ==
    /\ pc[w] \in {"listing", "creating", "created"} =>
        /\ called[w] \in Names
        /\ existing[w] # NULL => resource[existing[w]] # NULL
    /\ pc[w] = "creating" /\ target[w] # NULL => latest[target[w]] # "none"
    /\ pc[w] = "created" => target[w] \in Uuids /\ latest[target[w]] # "none"
    /\ pc[w] \in {"polling", "answered"} => existing[w] \in Uuids /\ resource[existing[w]] # NULL

\* Workers that are about to create an application of a name had found none
\* in the list, so that there are no more of that name than workers.
Creating(n) == {w \in Workers : pc[w] = "creating" /\ called[w] = n /\ target[w] = NULL}

CopiesCounted == \A n \in Names : copies[n] + Cardinality(Creating(n)) <= Cardinality(Workers)

\* An application that exists at the provider has been deployed.
CopiesDeployed == \A n \in Names : \A i \in 1..copies[n] : latest[<<n, i>>] # "none"

TypeInv ==
    /\ BoundInv
    /\ TypeOK
    /\ TablesLinked
    /\ \A w \in Workers : Knows(w)
    /\ CopiesCounted
    /\ CopiesDeployed

\* The steps that write each table.
LEMMA WhoWrites ==
    ASSUME [Next]_vars
    PROVE  /\ \/ UNCHANGED jobs
              \/ QueueStarter
              \/ \E x \in Apps : CreateApplication(x) \/ \E n \in Names : UpdateApplication(x, n)
              \/ RetryWrite
              \/ \E w \in Workers : Claim(w) \/ CommitRedeployment(w) \/ CommitSubmission(w)
                                    \/ CommitStillRunning(w) \/ CommitSucceeded(w) \/ RecordFailure(w)
           /\ \/ UNCHANGED build
              \/ \E x \in Apps : CreateApplication(x) \/ \E n \in Names : UpdateApplication(x, n)
              \/ \E w \in Workers : ResolveForSubmission(w) \/ CommitRedeployment(w) \/ CommitSubmission(w)
                                    \/ CommitSucceeded(w) \/ RecordFailedRows(w)
           /\ \/ UNCHANGED deployed
              \/ \E x \in Apps \union {Starter} : Enqueue(x)
              \/ \E w \in Workers : ResolveForSubmission(w) \/ CommitRedeployment(w) \/ CommitSubmission(w)
                                    \/ CommitSucceeded(w) \/ RecordFailedRows(w)
           /\ \/ UNCHANGED resource
              \/ \E w \in Workers : CommitRedeployment(w) \/ CommitSubmission(w) \/ CommitStillRunning(w)
                                    \/ CommitSucceeded(w) \/ CommitResourceFailed(w)
           /\ \/ UNCHANGED latest
              \/ \E w \in Workers : CreateOrReuse(w)
              \/ \E u \in Uuids, s \in {"failed", "succeeded"} : ProviderChanges(u, s)
           /\ UNCHANGED copies \/ \E w \in Workers : CreateOrReuse(w)
           /\ UNCHANGED name \/ \E x \in Apps, n \in Names : UpdateApplication(x, n)
  <1>1. CASE UNCHANGED vars
    BY <1>1 DEF vars, rows, provider
  <1>2. ASSUME NEW x \in Apps, CreateApplication(x) \/ \E n \in Names : UpdateApplication(x, n)
        PROVE  Enqueue(x) /\ UNCHANGED <<resource, latest, copies>> /\ (CreateApplication(x) => UNCHANGED name)
    BY <1>2 DEF CreateApplication, UpdateApplication, Enqueue, provider
  <1>3. CASE QueueStarter
    BY <1>3 DEF QueueStarter, Enqueue, provider
  <1>4. ASSUME RetryWrite \/ \E j \in Created : BecomesDue(j) \/ RetryRead(j)
        PROVE  UNCHANGED <<rows, provider, name>> /\ (RetryWrite \/ UNCHANGED jobs)
    BY <1>4 DEF RetryWrite, RetryRead, BecomesDue
  <1>5. ASSUME NEW u, NEW s, ProviderChanges(u, s)
        PROVE  UNCHANGED <<jobs, rows, copies, name>>
    BY <1>5 DEF ProviderChanges
  <1>6. ASSUME NEW w \in Workers,
               \/ SelectCandidate(w) \/ ClaimLost(w) \/ WorkerDies(w) \/ ProviderThrows(w)
               \/ ResolveForPoll(w) \/ ListProvider(w) \/ PollProvider(w)
        PROVE  UNCHANGED <<jobs, rows, provider, name>>
    BY <1>6 DEF SelectCandidate, ClaimLost, WorkerDies, ProviderThrows, ResolveForPoll,
                ListProvider, PollProvider
  <1>7. ASSUME NEW w \in Workers, ResolveForSubmission(w)
        PROVE  UNCHANGED <<jobs, resource, provider, name>>
    BY <1>7 DEF ResolveForSubmission
  <1>8. ASSUME NEW w \in Workers, Claim(w) \/ RecordFailure(w)
        PROVE  UNCHANGED <<rows, provider, name>>
    BY <1>8 DEF Claim, RecordFailure
  <1>9. ASSUME NEW w \in Workers, CreateOrReuse(w)
        PROVE  UNCHANGED <<jobs, rows, name>>
    BY <1>9 DEF CreateOrReuse
  <1>10. ASSUME NEW w \in Workers, CommitRedeployment(w) \/ CommitSubmission(w) \/ CommitSucceeded(w)
         PROVE  UNCHANGED <<provider, name>>
    BY <1>10 DEF CommitRedeployment, CommitSubmission, CommitSucceeded
  <1>11. ASSUME NEW w \in Workers, CommitStillRunning(w)
         PROVE  UNCHANGED <<build, deployed, provider, name>>
    BY <1>11 DEF CommitStillRunning
  <1>12. ASSUME NEW w \in Workers, CommitResourceFailed(w)
         PROVE  UNCHANGED <<jobs, build, deployed, provider, name>>
    BY <1>12 DEF CommitResourceFailed
  <1>13. ASSUME NEW w \in Workers, RecordFailedRows(w)
         PROVE  UNCHANGED <<jobs, resource, provider, name>>
    BY <1>13 DEF RecordFailedRows
  <1> QED
    BY <1>1, <1>2, <1>3, <1>4, <1>5, <1>6, <1>7, <1>8, <1>9, <1>10, <1>11, <1>12, <1>13
       DEF Next, Work, rows, provider

\* No row is taken back: a job keeps its application and what the provider has
\* accepted, a build its resource, a resource row its job.
JobsGrow ==
    \A j \in Created :
        /\ j \in Created'
        /\ jobs'[j].app = jobs[j].app
        /\ jobs[j].accepted => jobs'[j].accepted

BuildsGrow ==
    \A x \in Apps : build[x] # NULL =>
        /\ build'[x] # NULL
        /\ build[x].resource # NULL => build'[x].resource # NULL

ResourcesGrow ==
    \A u \in Uuids : resource[u] # NULL => resource'[u] # NULL /\ resource'[u].job = resource[u].job

\* The job of a worker that is past its claim.
LEMMA WorkersRow ==
    ASSUME BoundInv, NEW w \in Workers, pc[w] # "idle"
    PROVE  /\ held[w] \in Created /\ held[w] \in Jobs /\ jobs[held[w]] \in JobRow
           /\ jobs[held[w]].app \in Apps \union {Starter}
           /\ seen[w] \in Snapshot
  <1>1. held[w] \in Created /\ seen[w] \in Snapshot
    BY DEF BoundInv, ReadWithin
  <1> QED BY <1>1, CreatedIsRow DEF BoundInv, JobRow

LEMMA OneJobGrows ==
    ASSUME BoundInv, NEW j \in Created, NEW row \in JobRow, jobs' = [jobs EXCEPT ![j] = row],
           row.app = jobs[j].app, jobs[j].accepted => row.accepted
    PROVE  JobsGrow
  <1>1. row # NULL /\ j \in Jobs /\ jobs \in [Jobs -> JobRow \union {NULL}]
    BY NullAssumption DEF BoundInv, ClaimTypes, Created
  <1> QED BY <1>1 DEF JobsGrow, Created

LEMMA JobsGrowStep ==
    ASSUME BoundInv, [Next]_vars
    PROVE  JobsGrow
  <1> USE DEF BoundInv, ClaimTypes
  <1>1. CASE UNCHANGED jobs
    BY <1>1 DEF JobsGrow, Created
  <1>2. ASSUME NEW x \in Apps \union {Starter}, Enqueue(x) PROVE JobsGrow
    <2>1. PICK j \in Jobs \ Created, row \in JobRow : jobs' = [jobs EXCEPT ![j] = row]
      BY <1>2, EnqueueIsNew
    <2> QED BY <2>1, NullAssumption DEF JobsGrow, Created
  <1>3. CASE RetryWrite
    <2>1. PICK t \in retrying : jobs' = [jobs EXCEPT ![t.job].status = "queued",
                                                     ![t.job].maximum = Raised(t)]
      BY <1>3 DEF RetryWrite
    <2>2. PICK j \in Created, n \in Nat : j = t.job /\ n = Raised(t)
      BY DEF RetriesKnown, RetryRow, Raised
    <2>3. /\ jobs[j] \in JobRow /\ j \in Jobs
          /\ jobs' = [jobs EXCEPT ![j] = [jobs[j] EXCEPT !.status = "queued", !.maximum = n]]
      BY <2>1, <2>2, CreatedIsRow
    <2> DEFINE moved == [jobs[j] EXCEPT !.status = "queued", !.maximum = n]
    <2>4. moved \in JobRow /\ moved.app = jobs[j].app /\ moved.accepted = jobs[j].accepted
      BY <2>3 DEF JobRow, JobStatus
    <2> HIDE DEF moved
    <2>5. PICK row \in JobRow : row = moved
      BY <2>4
    <2>6. jobs' = [jobs EXCEPT ![j] = row]
      BY <2>3, <2>5 DEF moved
    <2> QED BY <2>4, <2>5, <2>6, OneJobGrows
  <1>4. ASSUME NEW w \in Workers, Claim(w) \/ RecordFailure(w) PROVE JobsGrow
    <2>1. pc[w] # "idle"
      BY <1>4 DEF Claim, RecordFailure, Goto
    <2>2. held[w] \in Created /\ jobs[held[w]] \in JobRow /\ seen[w] \in Snapshot
      BY <2>1, WorkersRow
    <2>3. PICK s \in JobStatus, n \in Nat :
            jobs' = [jobs EXCEPT ![held[w]] = [jobs[held[w]] EXCEPT !.status = s, !.attempts = n]]
      <3>1. CASE Claim(w)
        <4>1. NextAttemptCount(seen[w].attempts, seen[w].accepted) \in Nat
          BY <2>2 DEF NextAttemptCount, Snapshot
        <4> QED BY <3>1, <4>1 DEF Claim, JobStatus
      <3>2. CASE RecordFailure(w)
        <4>1. PICK n \in Nat : n = IF Terminal(w) THEN seen[w].maximum ELSE seen[w].attempts
          BY <2>2 DEF Snapshot
        <4>2. jobs' = [jobs EXCEPT ![held[w]] = [jobs[held[w]] EXCEPT !.status = "failed", !.attempts = n]]
          BY <3>2, <4>1 DEF RecordFailure
        <4> QED BY <4>2 DEF JobStatus
      <3> QED BY <1>4, <3>1, <3>2
    <2> DEFINE moved == [jobs[held[w]] EXCEPT !.status = s, !.attempts = n]
    <2>4. moved \in JobRow /\ moved.app = jobs[held[w]].app /\ moved.accepted = jobs[held[w]].accepted
      BY <2>2 DEF JobRow
    <2> HIDE DEF moved
    <2>5. PICK j \in Created, row \in JobRow : j = held[w] /\ row = moved
      BY <2>2, <2>4
    <2>6. jobs' = [jobs EXCEPT ![j] = row]
      BY <2>3, <2>5 DEF moved
    <2> QED BY <2>4, <2>5, <2>6, OneJobGrows
  <1>5. ASSUME NEW w \in Workers,
               \/ CommitRedeployment(w) \/ CommitSubmission(w) \/ CommitStillRunning(w)
               \/ CommitSucceeded(w)
        PROVE  JobsGrow
    <2>1. pc[w] # "idle"
      BY <1>5 DEF CommitRedeployment, CommitSubmission, CommitStillRunning, CommitSucceeded, Goto
    <2>2. held[w] \in Created /\ jobs[held[w]] \in JobRow
      BY <2>1, WorkersRow
    <2>3. PICK s \in JobStatus :
            jobs' = [jobs EXCEPT ![held[w]] = [jobs[held[w]] EXCEPT !.status = s, !.accepted = TRUE]]
      BY <1>5 DEF CommitRedeployment, CommitSubmission, CommitStillRunning, CommitSucceeded,
                  AwaitPoll, JobStatus
    <2> DEFINE moved == [jobs[held[w]] EXCEPT !.status = s, !.accepted = TRUE]
    <2>4. moved \in JobRow /\ moved.app = jobs[held[w]].app /\ moved.accepted
      BY <2>2 DEF JobRow
    <2> HIDE DEF moved
    <2>5. PICK j \in Created, row \in JobRow : j = held[w] /\ row = moved
      BY <2>2, <2>4
    <2>6. jobs' = [jobs EXCEPT ![j] = row]
      BY <2>3, <2>5 DEF moved
    <2> QED BY <2>4, <2>5, <2>6, OneJobGrows
  <1> QED
    BY <1>1, <1>2, <1>3, <1>4, <1>5, WhoWrites DEF QueueStarter, CreateApplication, UpdateApplication

LEMMA StatusKeepsBuild ==
    ASSUME TypeOK, NEW x \in Apps, build[x] # NULL,
           NEW s \in {"queued", "building", "succeeded", "failed"},
           build' = [build EXCEPT ![x].status = s]
    PROVE  /\ build' \in [Apps -> BuildRow \union {NULL}] /\ BuildsGrow
           /\ \A y \in Apps : build'[y] # NULL => build[y] # NULL /\ build'[y].resource = build[y].resource
  <1>1. build[x] \in BuildRow /\ build \in [Apps -> BuildRow \union {NULL}]
    BY DEF TypeOK
  <1> DEFINE row == [build[x] EXCEPT !.status = s]
  <1>2. row \in BuildRow /\ row.resource = build[x].resource /\ row # NULL
    BY <1>1, NullAssumption DEF BuildRow
  <1>3. build' = [build EXCEPT ![x] = row]
    OBVIOUS
  <1> HIDE DEF row
  <1> QED BY <1>1, <1>2, <1>3 DEF BuildsGrow

\* The application of a worker's job has a build.
LEMMA WorkersBuild ==
    ASSUME TypeInv, NEW w \in Workers, pc[w] # "idle", IsApp(held[w])
    PROVE  jobs[held[w]].app \in Apps /\ build[jobs[held[w]].app] # NULL
  BY WorkersRow DEF TypeInv, TablesLinked, IsApp

LEMMA ResourcesGrowStep ==
    ASSUME TypeInv, [Next]_vars
    PROVE  resource' \in [Uuids -> ResourceRow \union {NULL}] /\ ResourcesGrow
  <1>1. resource \in [Uuids -> ResourceRow \union {NULL}]
    BY DEF TypeInv, TypeOK
  <1>2. CASE UNCHANGED resource
    BY <1>1, <1>2 DEF ResourcesGrow
  <1>3. ASSUME NEW w \in Workers, NEW s \in {"provisioning", "running", "failed"},
               existing[w] \in Uuids, resource[existing[w]] # NULL,
               resource' = [resource EXCEPT ![existing[w]].status = s]
        PROVE  resource' \in [Uuids -> ResourceRow \union {NULL}] /\ ResourcesGrow
    <2>1. PICK u \in Uuids : u = existing[w]
      BY <1>3
    <2>2. resource[u] \in ResourceRow
      BY <1>1, <1>3, <2>1
    <2> DEFINE row == [resource[u] EXCEPT !.status = s]
    <2>3. row \in ResourceRow /\ row.job = resource[u].job /\ row # NULL
      BY <2>2, NullAssumption DEF ResourceRow
    <2>4. resource' = [resource EXCEPT ![u] = row]
      BY <1>3, <2>1
    <2> HIDE DEF row
    <2> QED BY <1>1, <2>3, <2>4 DEF ResourcesGrow
  <1>4. ASSUME NEW w \in Workers, CommitRedeployment(w)
        PROVE  resource' \in [Uuids -> ResourceRow \union {NULL}] /\ ResourcesGrow
    <2>1. existing[w] \in Uuids /\ resource[existing[w]] # NULL
      BY <1>4 DEF CommitRedeployment, Goto, TypeInv, TypeOK, Knows
    <2> QED BY <1>3, <1>4, <2>1 DEF CommitRedeployment
  <1>5. ASSUME NEW w \in Workers, CommitStillRunning(w) \/ CommitSucceeded(w) \/ CommitResourceFailed(w)
        PROVE  resource' \in [Uuids -> ResourceRow \union {NULL}] /\ ResourcesGrow
    <2>1. existing[w] \in Uuids /\ resource[existing[w]] # NULL
      BY <1>5 DEF CommitStillRunning, CommitSucceeded, CommitResourceFailed, Goto, TypeInv, Knows
    <2> QED BY <1>3, <1>5, <2>1 DEF CommitStillRunning, CommitSucceeded, CommitResourceFailed
  <1>6. ASSUME NEW w \in Workers, CommitSubmission(w)
        PROVE  resource' \in [Uuids -> ResourceRow \union {NULL}] /\ ResourcesGrow
    <2>1. target[w] \in Uuids /\ held[w] \in Jobs
      BY <1>6, WorkersRow DEF CommitSubmission, Goto, TypeInv, Knows
    <2>2. CASE resource[target[w]] # NULL
      BY <1>2, <1>6, <2>2 DEF CommitSubmission, rows
    <2>3. CASE resource[target[w]] = NULL
      <3>1. resource' = [resource EXCEPT ![target[w]] = [job |-> held[w], status |-> "provisioning"]]
        BY <1>6, <2>3 DEF CommitSubmission
      <3>2. [job |-> held[w], status |-> "provisioning"] \in ResourceRow
        BY <2>1 DEF ResourceRow
      <3> QED BY <1>1, <2>1, <2>3, <3>1, <3>2 DEF ResourcesGrow
    <2> QED BY <2>2, <2>3
  <1> QED BY <1>2, <1>4, <1>5, <1>6, WhoWrites

LEMMA LatestStep ==
    ASSUME TypeInv, [Next]_vars
    PROVE  /\ latest' \in [Uuids -> {"none", "running", "failed", "succeeded"}]
           /\ \A u \in Uuids : latest[u] # "none" => latest'[u] # "none"
  <1>1. latest \in [Uuids -> {"none", "running", "failed", "succeeded"}]
    BY DEF TypeInv, TypeOK
  <1>2. CASE UNCHANGED latest
    BY <1>1, <1>2
  <1>3. ASSUME NEW w \in Workers, CreateOrReuse(w), latest' # latest
        PROVE  \E u : latest' = [latest EXCEPT ![u] = "running"]
    BY <1>3 DEF CreateOrReuse
  <1>4. ASSUME NEW u, NEW s \in {"failed", "succeeded"}, ProviderChanges(u, s)
        PROVE  latest' = [latest EXCEPT ![u] = s]
    BY <1>4 DEF ProviderChanges
  <1> QED BY <1>1, <1>2, <1>3, <1>4, WhoWrites

LEMMA BuildsGrowStep ==
    ASSUME TypeInv, [Next]_vars
    PROVE  /\ build' \in [Apps -> BuildRow \union {NULL}] /\ BuildsGrow
           /\ \A x \in Apps : build'[x] # NULL /\ build'[x].resource # NULL => resource'[build'[x].resource] # NULL
  <1> DEFINE Goal == /\ build' \in [Apps -> BuildRow \union {NULL}] /\ BuildsGrow
                     /\ \A x \in Apps : build'[x] # NULL /\ build'[x].resource # NULL
                          => resource'[build'[x].resource] # NULL
  <1>1. build \in [Apps -> BuildRow \union {NULL}] /\ ResourcesGrow
    BY ResourcesGrowStep DEF TypeInv, TypeOK
  <1>2. \A x \in Apps : build[x] # NULL /\ build[x].resource # NULL =>
          build[x].resource \in Uuids /\ resource'[build[x].resource] # NULL
    <2>1. \A x \in Apps : build[x] # NULL => build[x].resource \in Uuids \union {NULL}
      BY <1>1 DEF BuildRow
    <2> QED BY <1>1, <2>1 DEF TypeInv, TablesLinked, ResourcesGrow
  <1>3. CASE UNCHANGED build
    BY <1>1, <1>2, <1>3 DEF BuildsGrow
  <1>4. ASSUME NEW x \in Apps, build[x] # NULL,
               NEW s \in {"queued", "building", "succeeded", "failed"},
               build' = [build EXCEPT ![x].status = s]
        PROVE  Goal
    BY <1>2, <1>4, StatusKeepsBuild DEF TypeInv
  <1>5. ASSUME NEW x \in Apps, CreateApplication(x) PROVE Goal
    <2>1. build[x] = NULL /\ build' = [build EXCEPT ![x] = [status |-> "queued", resource |-> NULL]]
      BY <1>5 DEF CreateApplication
    <2>2. [status |-> "queued", resource |-> NULL] \in BuildRow
      BY DEF BuildRow
    <2> QED BY <1>1, <1>2, <2>1, <2>2 DEF BuildsGrow
  <1>6. ASSUME NEW x \in Apps, NEW n \in Names, UpdateApplication(x, n) PROVE Goal
    BY <1>4, <1>6 DEF UpdateApplication
  <1>7. ASSUME NEW w \in Workers,
               \/ ResolveForSubmission(w) \/ CommitRedeployment(w) \/ CommitSucceeded(w) \/ RecordFailedRows(w)
        PROVE  Goal
    <2>1. pc[w] # "idle"
      BY <1>7 DEF ResolveForSubmission, CommitRedeployment, CommitSucceeded, RecordFailedRows, Goto
    <2>2. CASE ~IsApp(held[w])
      BY <1>3, <1>7, <2>2
         DEF ResolveForSubmission, CommitRedeployment, CommitSucceeded, RecordFailedRows, MarkDeploying
    <2>3. CASE IsApp(held[w])
      <3>1. jobs[held[w]].app \in Apps /\ build[jobs[held[w]].app] # NULL
        BY <2>1, <2>3, WorkersBuild
      <3>2. \E s \in {"building", "succeeded", "failed"} :
              build' = [build EXCEPT ![jobs[held[w]].app].status = s]
        BY <1>7, <2>3
           DEF ResolveForSubmission, CommitRedeployment, CommitSucceeded, RecordFailedRows, MarkDeploying
      <3>3. PICK x \in Apps : x = jobs[held[w]].app
        BY <3>1
      <3> QED BY <1>4, <3>1, <3>2, <3>3
    <2> QED BY <2>2, <2>3
  <1>8. ASSUME NEW w \in Workers, CommitSubmission(w) PROVE Goal
    <2>1. pc[w] = "created" /\ target[w] \in Uuids
      BY <1>8 DEF CommitSubmission, Goto, TypeInv, Knows
    <2>2. CASE resource[target[w]] # NULL \/ ~IsApp(held[w])
      BY <1>3, <1>8, <2>2 DEF CommitSubmission, rows
    <2>3. CASE resource[target[w]] = NULL /\ IsApp(held[w])
      <3>1. PICK x \in Apps, u \in Uuids : x = jobs[held[w]].app /\ u = target[w]
        BY <2>1, <2>3, WorkersBuild
      <3>2. /\ build' = [build EXCEPT ![x] = [status |-> "building", resource |-> u]]
            /\ resource' = [resource EXCEPT ![u] = [job |-> held[w], status |-> "provisioning"]]
        BY <1>8, <2>3, <3>1 DEF CommitSubmission
      <3>3. [status |-> "building", resource |-> u] \in BuildRow
        BY DEF BuildRow
      <3>4. resource'[u] # NULL
        <4>1. [job |-> held[w], status |-> "provisioning"] \in ResourceRow
          BY <2>1, WorkersRow DEF ResourceRow, TypeInv
        <4> QED BY <3>2, <4>1, NullAssumption DEF TypeInv, TypeOK
      <3> QED BY <1>1, <1>2, <3>2, <3>3, <3>4, NullAssumption DEF BuildsGrow
    <2> QED BY <2>2, <2>3
  <1> QED BY <1>3, <1>5, <1>6, <1>7, <1>8, WhoWrites

LEMMA NewResource ==
    ASSUME TypeInv, [Next]_vars, NEW u \in Uuids, resource[u] = NULL, resource'[u] # NULL
    PROVE  \E w \in Workers :
             /\ CommitSubmission(w) /\ u = target[w]
             /\ resource'[u] = [job |-> held[w], status |-> "provisioning"]
  <1>1. resource \in [Uuids -> ResourceRow \union {NULL}]
    BY DEF TypeInv, TypeOK
  <1>2. ASSUME NEW w \in Workers,
               CommitRedeployment(w) \/ CommitStillRunning(w) \/ CommitSucceeded(w) \/ CommitResourceFailed(w)
        PROVE  FALSE
    <2>1. existing[w] \in Uuids /\ resource[existing[w]] # NULL
      BY <1>2 DEF CommitRedeployment, CommitStillRunning, CommitSucceeded, CommitResourceFailed,
                  Goto, TypeInv, TypeOK, Knows
    <2>2. resource'[u] = resource[u]
      BY <1>1, <1>2, <2>1
         DEF CommitRedeployment, CommitStillRunning, CommitSucceeded, CommitResourceFailed
    <2> QED BY <2>2
  <1>3. PICK w \in Workers : CommitSubmission(w)
    BY <1>2, WhoWrites
  <1>4. resource[target[w]] = NULL
    BY <1>3 DEF CommitSubmission, rows
  <1>5. resource' = [resource EXCEPT ![target[w]] = [job |-> held[w], status |-> "provisioning"]]
    BY <1>3, <1>4 DEF CommitSubmission
  <1> QED BY <1>1, <1>3, <1>5

\* The rows that a worker's step or a retry writes exist.
LEMMA NewJob ==
    ASSUME BoundInv, [Next]_vars, NEW j \in Created', j \notin Created
    PROVE  \/ QueueStarter /\ jobs'[j].app = Starter
           \/ \E x \in Apps : /\ jobs'[j].app = x
                              /\ CreateApplication(x) \/ \E n \in Names : UpdateApplication(x, n)
  <1>1. j \in Jobs /\ jobs \in [Jobs -> JobRow \union {NULL}] /\ jobs'[j] # jobs[j]
    BY DEF Created, BoundInv, ClaimTypes
  <1>2. ASSUME NEW x, Enqueue(x) PROVE jobs'[j].app = x
    BY <1>1, <1>2 DEF Enqueue
  <1>3. ~RetryWrite
    BY <1>1 DEF RetryWrite, BoundInv, RetriesKnown, Created
  <1>4. ASSUME NEW w \in Workers,
               \/ Claim(w) \/ CommitRedeployment(w) \/ CommitSubmission(w)
               \/ CommitStillRunning(w) \/ CommitSucceeded(w) \/ RecordFailure(w)
        PROVE  FALSE
    <2>1. held[w] \in Created
      BY <1>4, WorkersRow
         DEF Claim, CommitRedeployment, CommitSubmission, CommitStillRunning, CommitSucceeded,
             RecordFailure, Goto
    <2>2. jobs'[j] = jobs[j]
      BY <1>1, <1>4, <2>1
         DEF Claim, CommitRedeployment, CommitSubmission, CommitStillRunning, CommitSucceeded,
             RecordFailure, AwaitPoll
    <2> QED BY <1>1, <2>2
  <1> QED BY <1>1, <1>2, <1>3, <1>4, WhoWrites DEF QueueStarter, CreateApplication, UpdateApplication

LEMMA TablesLinkedStep ==
    ASSUME TypeInv, [Next]_vars
    PROVE  TablesLinked'
  <1>1. BoundInv /\ BoundInv'
    BY BoundStep DEF TypeInv
  <1>2. ASSUME NEW u \in Uuids, resource'[u] # NULL PROVE latest'[u] # "none"
    <2>1. CASE resource[u] # NULL
      BY <2>1, LatestStep DEF TypeInv, TablesLinked
    <2>2. CASE resource[u] = NULL
      <3>1. PICK w \in Workers : CommitSubmission(w) /\ u = target[w]
        BY <1>2, <2>2, NewResource
      <3>2. latest[u] # "none"
        BY <3>1 DEF CommitSubmission, Goto, TypeInv, Knows
      <3> QED BY <3>2, LatestStep
    <2> QED BY <2>1, <2>2
  <1>3. ASSUME NEW j \in Created', IsApp(j)' PROVE build'[jobs'[j].app] # NULL
    <2>1. CASE j \in Created
      <3>1. jobs'[j].app = jobs[j].app
        BY <1>1, <2>1, JobsGrowStep DEF JobsGrow
      <3>2. jobs[j].app \in Apps /\ build[jobs[j].app] # NULL
        BY <1>3, <2>1, <3>1 DEF IsApp, TypeInv, TablesLinked
      <3> QED BY <3>1, <3>2, BuildsGrowStep DEF BuildsGrow
    <2>2. CASE j \notin Created
      <3>1. PICK x \in Apps : /\ jobs'[j].app = x
                              /\ CreateApplication(x) \/ \E n \in Names : UpdateApplication(x, n)
        BY <1>1, <1>3, <2>2, NewJob, AppsAssumption DEF IsApp
      <3>2. CASE CreateApplication(x)
        <4>1. build'[x] = [status |-> "queued", resource |-> NULL]
          BY <3>2 DEF CreateApplication, TypeInv, TypeOK
        <4>2. build'[x] \in BuildRow
          BY <4>1 DEF BuildRow
        <4> QED BY <3>1, <4>2, NullAssumption
      <3>3. CASE \E n \in Names : UpdateApplication(x, n)
        BY <3>1, <3>3, BuildsGrowStep DEF UpdateApplication, BuildsGrow
      <3> QED BY <3>1, <3>2, <3>3
    <2> QED BY <2>1, <2>2
  <1> QED BY <1>2, <1>3, BuildsGrowStep DEF TablesLinked

LEMMA RestStep ==
    ASSUME TypeInv, [Next]_vars
    PROVE  /\ due' \subseteq Jobs
           /\ deployed' \in [Jobs -> {"none", "queued", "deploying", "running", "failed"}]
           /\ name' \in [Apps \union {Starter} -> Names]
  <1>1. name' \in [Apps \union {Starter} -> Names]
    BY WhoWrites DEF UpdateApplication, TypeInv, TypeOK
  <1>2. deployed' \in [Jobs -> {"none", "queued", "deploying", "running", "failed"}]
    <2>1. ASSUME NEW w \in Workers,
                 \/ ResolveForSubmission(w) \/ CommitRedeployment(w) \/ CommitSubmission(w)
                 \/ CommitSucceeded(w) \/ RecordFailedRows(w)
          PROVE  deployed' \in [Jobs -> {"none", "queued", "deploying", "running", "failed"}]
      BY <2>1 DEF ResolveForSubmission, CommitRedeployment, CommitSubmission, CommitSucceeded,
                  RecordFailedRows, MarkDeploying, TypeInv, TypeOK, rows
    <2>2. ASSUME NEW x, Enqueue(x)
          PROVE  deployed' \in [Jobs -> {"none", "queued", "deploying", "running", "failed"}]
      BY <2>2 DEF Enqueue, TypeInv, TypeOK
    <2> QED BY <2>1, <2>2, WhoWrites DEF TypeInv, TypeOK
  <1>3. due' \subseteq Jobs
    <2>1. due \subseteq Jobs /\ Created \subseteq Jobs /\ (\A t \in retrying : t.job \in Jobs)
      BY DEF TypeInv, TypeOK, BoundInv, RetriesKnown, RetryRow, Created
    <2>2. ASSUME NEW w \in Workers,
                 \/ CommitRedeployment(w) \/ CommitSubmission(w) \/ CommitStillRunning(w)
                 \/ CommitSucceeded(w) \/ RecordFailure(w)
          PROVE  due' \subseteq Jobs
      BY <2>1, <2>2 DEF CommitRedeployment, CommitSubmission, CommitStillRunning, CommitSucceeded,
                        RecordFailure, AwaitPoll
    <2>3. ASSUME NEW w \in Workers,
                 \/ SelectCandidate(w) \/ Claim(w) \/ ClaimLost(w) \/ WorkerDies(w) \/ ProviderThrows(w)
                 \/ ResolveForSubmission(w) \/ ResolveForPoll(w) \/ ListProvider(w) \/ CreateOrReuse(w)
                 \/ PollProvider(w) \/ CommitResourceFailed(w) \/ RecordFailedRows(w)
          PROVE  UNCHANGED due
      BY <2>3 DEF SelectCandidate, Claim, ClaimLost, WorkerDies, ProviderThrows, ResolveForSubmission,
                  ResolveForPoll, ListProvider, CreateOrReuse, PollProvider, CommitResourceFailed,
                  RecordFailedRows
    <2>4. ASSUME NEW x, Enqueue(x) PROVE due' \subseteq Jobs
      BY <2>1, <2>4 DEF Enqueue
    <2>5. ASSUME NEW j \in Created, BecomesDue(j) \/ RetryRead(j) PROVE due' \subseteq Jobs
      BY <2>1, <2>5 DEF BecomesDue, RetryRead
    <2>6. CASE RetryWrite
      BY <2>1, <2>6 DEF RetryWrite
    <2>7. ASSUME NEW u, NEW s, ProviderChanges(u, s) PROVE UNCHANGED due
      BY <2>7 DEF ProviderChanges
    <2>8. CASE UNCHANGED vars
      BY <2>1, <2>8 DEF vars
    <2> QED BY <2>1, <2>2, <2>3, <2>4, <2>5, <2>6, <2>7, <2>8
            DEF Next, Work, QueueStarter, CreateApplication, UpdateApplication
  <1> QED BY <1>1, <1>2, <1>3

\* A worker that is about to create an application is counted, so that one
\* more of that name is still a provider application of the model.
LEMMA RoomToCreate ==
    ASSUME TypeInv, NEW w \in Workers, pc[w] = "creating", target[w] = NULL
    PROVE  /\ called[w] \in Names
           /\ copies[called[w]] \in Nat
           /\ copies[called[w]] + 1 \in 1..Cardinality(Workers)
  <1>1. called[w] \in Names /\ copies \in [Names -> 0..Cardinality(Workers)]
    BY DEF TypeInv, TypeOK, Knows
  <1>2. PICK n \in Names : n = called[w]
    BY <1>1
  <1>3. PICK S \in SUBSET Workers : S = Creating(n)
    BY DEF Creating
  <1>4. w \in S
    BY <1>2, <1>3 DEF Creating
  <1>5. IsFiniteSet(S) /\ Cardinality(S) \in Nat /\ Cardinality(S) # 0
    BY <1>4, WorkersAssumption, FS_Subset, FS_CardinalityType, FS_EmptySet
  <1>6. copies[n] + Cardinality(S) <= Cardinality(Workers)
    BY <1>3 DEF TypeInv, CopiesCounted
  <1>7. copies[n] \in Nat /\ Cardinality(Workers) \in Nat
    BY <1>1, WorkersAssumption, FS_CardinalityType
  <1> QED BY <1>1, <1>2, <1>5, <1>6, <1>7

\* What a worker finds when it looks for the resource row of its job.
LEMMA ResourceFound ==
    ASSUME TypeInv, NEW j \in Created
    PROVE  /\ ResourceOf(j) \in Uuids \union {NULL}
           /\ ResourceOf(j) # NULL => resource[ResourceOf(j)] # NULL
  <1> DEFINE own == {u \in Uuids : resource[u] # NULL /\ resource[u].job = j}
  <1>1. CASE IsApp(j) /\ build[jobs[j].app].resource # NULL
    <2>1. PICK x \in Apps : x = jobs[j].app /\ build[x] # NULL
      BY <1>1 DEF IsApp, TypeInv, TablesLinked
    <2>2. build[x] \in BuildRow
      BY <2>1 DEF TypeInv, TypeOK
    <2> QED BY <1>1, <2>1, <2>2 DEF ResourceOf, BuildRow, TypeInv, TablesLinked
  <1>2. CASE ~(IsApp(j) /\ build[jobs[j].app].resource # NULL) /\ own # {}
    <2>1. ResourceOf(j) = CHOOSE u \in own : TRUE
      BY <1>2 DEF ResourceOf
    <2>2. ResourceOf(j) \in own
      BY <1>2, <2>1
    <2> QED BY <2>2
  <1>3. CASE ~(IsApp(j) /\ build[jobs[j].app].resource # NULL) /\ own = {}
    BY <1>3 DEF ResourceOf
  <1> QED BY <1>1, <1>2, <1>3

LocalTypes ==
    /\ called \in [Workers -> Names \union {NULL}]
    /\ existing \in [Workers -> Uuids \union {NULL}]
    /\ target \in [Workers -> Uuids \union {NULL}]
    /\ answer \in [Workers -> {"running", "failed", "succeeded", NULL}]

\* A worker that stays where it is keeps what it knows.
LEMMA OthersKnow ==
    ASSUME TypeInv, [Next]_vars, NEW v \in Workers,
           pc'[v] = pc[v], called'[v] = called[v], existing'[v] = existing[v], target'[v] = target[v]
    PROVE  Knows(v)'
  <1>1. existing[v] \in Uuids \union {NULL} /\ target[v] \in Uuids \union {NULL} /\ Knows(v)
    BY DEF TypeInv, TypeOK
  <1> QED BY <1>1, ResourcesGrowStep, LatestStep DEF Knows, ResourcesGrow

\* A worker that moves on to p, with what it has read on the way.
Moves(w, p, c, e, t, a) ==
    /\ pc' = [pc EXCEPT ![w] = p]
    /\ called' = [called EXCEPT ![w] = c]
    /\ existing' = [existing EXCEPT ![w] = e]
    /\ target' = [target EXCEPT ![w] = t]
    /\ answer' = [answer EXCEPT ![w] = a]

LEMMA MovesOn ==
    ASSUME TypeInv, [Next]_vars, NEW w \in Workers, NEW p,
           NEW c \in Names \union {NULL}, NEW e \in Uuids \union {NULL},
           NEW t \in Uuids \union {NULL}, NEW a \in {"running", "failed", "succeeded", NULL},
           Moves(w, p, c, e, t, a),
           p \in {"listing", "creating", "created"} => c \in Names /\ (e # NULL => resource[e] # NULL),
           p = "creating" /\ t # NULL => latest[t] # "none",
           p = "created" => t # NULL /\ latest'[t] # "none",
           p \in {"polling", "answered"} => e # NULL /\ resource[e] # NULL
    PROVE  LocalTypes' /\ \A v \in Workers : Knows(v)'
  <1>1. /\ LocalTypes /\ pc \in [Workers -> PC]
        /\ pc'[w] = p /\ called'[w] = c /\ existing'[w] = e /\ target'[w] = t
    BY DEF TypeInv, TypeOK, LocalTypes, PC, Moves
  <1>2. LocalTypes'
    BY <1>1 DEF LocalTypes, Moves
  <1>3. Knows(w)'
    BY <1>1, ResourcesGrowStep, LatestStep DEF Knows, ResourcesGrow
  <1>4. ASSUME NEW v \in Workers, v # w PROVE Knows(v)'
    <2>1. pc'[v] = pc[v] /\ called'[v] = called[v] /\ existing'[v] = existing[v] /\ target'[v] = target[v]
      BY <1>1, <1>4 DEF LocalTypes, Moves
    <2> QED BY <2>1, OthersKnow
  <1> QED BY <1>2, <1>3, <1>4

LEMMA Stays ==
    ASSUME TypeInv, NEW w \in Workers
    PROVE  /\ called = [called EXCEPT ![w] = called[w]] /\ called[w] \in Names \union {NULL}
           /\ existing = [existing EXCEPT ![w] = existing[w]] /\ existing[w] \in Uuids \union {NULL}
           /\ target = [target EXCEPT ![w] = target[w]] /\ target[w] \in Uuids \union {NULL}
           /\ answer = [answer EXCEPT ![w] = answer[w]]
           /\ answer[w] \in {"running", "failed", "succeeded", NULL}
           /\ pc[w] \in PC
  BY DEF TypeInv, TypeOK, PC

\* What each step leaves a worker with.
LEMMA LocalsStep ==
    ASSUME TypeInv, [Next]_vars
    PROVE  LocalTypes' /\ \A v \in Workers : Knows(v)'
  <1> DEFINE Goal == LocalTypes' /\ \A v \in Workers : Knows(v)'
  <1>1. ASSUME UNCHANGED <<pc, called, existing, target, answer>> PROVE Goal
    <2>1. LocalTypes'
      BY <1>1 DEF LocalTypes, TypeInv, TypeOK
    <2> QED BY <1>1, <2>1, OthersKnow
  <1>2. ASSUME NEW w \in Workers, pc' = [pc EXCEPT ![w] = "idle"], Forget(w) PROVE Goal
    <2>1. Moves(w, "idle", NULL, NULL, NULL, NULL)
      BY <1>2 DEF Forget, Moves
    <2> QED BY <2>1, MovesOn
  <1>3. ASSUME NEW w \in Workers, NEW p \in {"selected", "claimed", "failing", "failed"},
               pc' = [pc EXCEPT ![w] = p], UNCHANGED <<called, existing, target, answer>>
        PROVE  Goal
    <2>1. PICK c \in Names \union {NULL}, e \in Uuids \union {NULL}, t \in Uuids \union {NULL},
               a \in {"running", "failed", "succeeded", NULL} :
            c = called[w] /\ e = existing[w] /\ t = target[w] /\ a = answer[w]
      BY Stays
    <2>2. Moves(w, p, c, e, t, a)
      BY <1>3, <2>1, Stays DEF Moves
    <2> QED BY <1>3, <2>2, MovesOn
  <1>4. ASSUME NEW w \in Workers, ResolveForSubmission(w) PROVE Goal
    <2>1. pc[w] = "claimed" /\ held[w] \in Created /\ jobs[held[w]].app \in Apps \union {Starter}
      BY <1>4, WorkersRow DEF ResolveForSubmission, Goto, TypeInv
    <2>2. PICK c \in Names, e \in Uuids \union {NULL} :
            /\ c = name[jobs[held[w]].app] /\ e = ResourceOf(held[w])
            /\ e # NULL => resource[e] # NULL
      BY <2>1, ResourceFound DEF TypeInv, TypeOK
    <2>3. PICK t \in Uuids \union {NULL}, a \in {"running", "failed", "succeeded", NULL} :
            t = target[w] /\ a = answer[w]
      BY Stays
    <2>4. Moves(w, "listing", c, e, t, a)
      BY <1>4, <2>2, <2>3, Stays DEF ResolveForSubmission, Goto, Moves
    <2> QED BY <2>2, <2>4, MovesOn
  <1>5. ASSUME NEW w \in Workers, ResolveForPoll(w) PROVE Goal
    <2>1. pc[w] = "claimed" /\ held[w] \in Created
      BY <1>5, WorkersRow DEF ResolveForPoll, Goto, TypeInv
    <2>2. PICK e \in Uuids \union {NULL} :
            e = ResourceOf(held[w]) /\ e # NULL /\ resource[e] # NULL
      BY <1>5, <2>1, ResourceFound DEF ResolveForPoll, Submits
    <2>3. PICK c \in Names \union {NULL}, t \in Uuids \union {NULL},
               a \in {"running", "failed", "succeeded", NULL} :
            c = called[w] /\ t = target[w] /\ a = answer[w]
      BY Stays
    <2>4. Moves(w, "polling", c, e, t, a)
      BY <1>5, <2>2, <2>3, Stays DEF ResolveForPoll, Goto, Moves
    <2> QED BY <2>2, <2>4, MovesOn
  <1>6. ASSUME NEW w \in Workers, ListProvider(w) PROVE Goal
    <2>1. /\ pc[w] = "listing" /\ called[w] \in Names
          /\ existing[w] # NULL => resource[existing[w]] # NULL
      BY <1>6 DEF ListProvider, Goto, TypeInv, Knows
    <2>2. PICK t \in Uuids \union {NULL} : /\ target' = [target EXCEPT ![w] = t]
                                           /\ t # NULL => latest[t] # "none"
      <3>1. copies[called[w]] \in 0..Cardinality(Workers) /\ Cardinality(Workers) \in Nat
        BY <2>1, WorkersAssumption, FS_CardinalityType DEF TypeInv, TypeOK
      <3>2. ASSUME NEW u \in {called[w]} \X (1..copies[called[w]])
            PROVE  u \in Uuids /\ latest[u] # "none"
        <4>1. PICK i \in 1..copies[called[w]] : u = <<called[w], i>>
          OBVIOUS
        <4>2. i \in 1..Cardinality(Workers)
          BY <3>1
        <4> QED BY <2>1, <4>1, <4>2 DEF Uuids, TypeInv, CopiesDeployed
      <3> QED BY <1>6, <3>2 DEF ListProvider
    <2>3. PICK c \in Names, e \in Uuids \union {NULL}, a \in {"running", "failed", "succeeded", NULL} :
            c = called[w] /\ e = existing[w] /\ a = answer[w]
      BY <2>1, Stays
    <2>4. pc' = [pc EXCEPT ![w] = "creating"] /\ UNCHANGED <<called, existing, answer>>
      BY <1>6 DEF ListProvider, Goto
    <2>5. Moves(w, "creating", c, e, t, a)
      BY <2>2, <2>3, <2>4, Stays DEF Moves
    <2>6. /\ e # NULL => resource[e] # NULL
          /\ t # NULL => latest[t] # "none"
      BY <2>1, <2>2, <2>3
    <2> QED BY <2>5, <2>6, MovesOn
  <1>7. ASSUME NEW w \in Workers, CreateOrReuse(w) PROVE Goal
    <2>1. /\ pc[w] = "creating" /\ called[w] \in Names
          /\ existing[w] # NULL => resource[existing[w]] # NULL
      BY <1>7 DEF CreateOrReuse, Goto, TypeInv, Knows
    <2> DEFINE u == IF target[w] # NULL THEN target[w] ELSE <<called[w], copies[called[w]] + 1>>
    <2>2. u \in Uuids
      BY <2>1, Stays, RoomToCreate DEF Uuids
    <2>3. /\ target' = [target EXCEPT ![w] = u]
          /\ latest' = IF target[w] # NULL /\ ~IsApp(held[w]) /\ latest[u] # "failed"
                       THEN latest ELSE [latest EXCEPT ![u] = "running"]
      BY <1>7 DEF CreateOrReuse
    <2>4. PICK t \in Uuids : t = u
      BY <2>2
    <2> HIDE DEF u
    <2>5. latest'[t] # "none"
      <3>1. latest \in [Uuids -> {"none", "running", "failed", "succeeded"}]
        BY DEF TypeInv, TypeOK
      <3>2. CASE latest' = [latest EXCEPT ![u] = "running"]
        BY <2>4, <3>1, <3>2
      <3>3. CASE latest' = latest /\ target[w] # NULL
        BY <1>7, <2>4, <3>3 DEF u, CreateOrReuse, Goto, TypeInv, Knows
      <3> QED BY <2>3, <3>2, <3>3
    <2>6. PICK c \in Names, e \in Uuids \union {NULL}, a \in {"running", "failed", "succeeded", NULL} :
            c = called[w] /\ e = existing[w] /\ a = answer[w]
      BY <2>1, Stays
    <2>7. Moves(w, "created", c, e, t, a)
      BY <1>7, <2>3, <2>4, <2>6, Stays DEF CreateOrReuse, Goto, Moves
    <2> QED BY <2>1, <2>3, <2>4, <2>5, <2>6, <2>7, NullAssumption, MovesOn
  <1>8. ASSUME NEW w \in Workers, PollProvider(w) PROVE Goal
    <2>1. pc[w] = "polling" /\ existing[w] \in Uuids /\ resource[existing[w]] # NULL
      BY <1>8 DEF PollProvider, Goto, TypeInv, Knows
    <2>2. PICK e \in Uuids : e = existing[w]
      BY <2>1
    <2>3. PICK a \in {"running", "failed", "succeeded"} : a = latest[e]
      <3>1. latest[e] # "none"
        BY <2>1, <2>2 DEF TypeInv, TablesLinked
      <3> QED BY <3>1 DEF TypeInv, TypeOK
    <2>4. PICK c \in Names \union {NULL}, t \in Uuids \union {NULL} : c = called[w] /\ t = target[w]
      BY Stays
    <2>5. Moves(w, "answered", c, e, t, a)
      BY <1>8, <2>2, <2>3, <2>4, Stays DEF PollProvider, Goto, Moves
    <2> QED BY <2>1, <2>2, <2>5, NullAssumption, MovesOn
  <1>9. ASSUME NEW w \in Workers,
               \/ ClaimLost(w) \/ CommitRedeployment(w) \/ CommitSubmission(w) \/ CommitStillRunning(w)
               \/ CommitSucceeded(w) \/ RecordFailedRows(w) \/ WorkerDies(w)
        PROVE  Goal
    BY <1>2, <1>9 DEF ClaimLost, CommitRedeployment, CommitSubmission, CommitStillRunning,
                      CommitSucceeded, RecordFailedRows, WorkerDies, Goto
  <1>10. ASSUME NEW w \in Workers,
                \/ SelectCandidate(w) \/ Claim(w) \/ ProviderThrows(w) \/ CommitResourceFailed(w)
                \/ RecordFailure(w)
         PROVE  Goal
    BY <1>3, <1>10 DEF SelectCandidate, Claim, ProviderThrows, CommitResourceFailed, RecordFailure,
                       Goto, locals
  <1>11. ASSUME NEW x, Enqueue(x) PROVE Goal
    BY <1>1, <1>11 DEF Enqueue, locals
  <1>12. ASSUME NEW j, BecomesDue(j) \/ RetryRead(j) PROVE Goal
    BY <1>1, <1>12 DEF BecomesDue, RetryRead, locals
  <1>13. ASSUME NEW u, NEW s, ProviderChanges(u, s) PROVE Goal
    BY <1>1, <1>13 DEF ProviderChanges, locals
  <1>14. CASE RetryWrite \/ UNCHANGED vars
    BY <1>1, <1>14 DEF RetryWrite, vars, locals
  <1> QED BY <1>4, <1>5, <1>6, <1>7, <1>8, <1>9, <1>10, <1>11, <1>12, <1>13, <1>14
          DEF Next, Work, QueueStarter, CreateApplication, UpdateApplication

\* A step that lets no further worker create an application of a name.
LEMMA FewerCreate ==
    ASSUME TypeInv, NEW n \in Names, Creating(n)' \subseteq Creating(n), copies'[n] = copies[n]
    PROVE  copies'[n] + Cardinality(Creating(n)') <= Cardinality(Workers)
  <1>1. PICK S \in SUBSET Workers, T \in SUBSET Workers :
          S = Creating(n) /\ T = Creating(n)' /\ T \in SUBSET S
    BY DEF Creating
  <1>2. IsFiniteSet(S) /\ IsFiniteSet(T) /\ Cardinality(T) <= Cardinality(S)
    BY <1>1, WorkersAssumption, FS_Subset
  <1>3. Cardinality(S) \in Nat /\ Cardinality(T) \in Nat /\ Cardinality(Workers) \in Nat
    BY <1>2, WorkersAssumption, FS_CardinalityType
  <1>4. copies[n] \in Nat /\ copies[n] + Cardinality(S) <= Cardinality(Workers)
    BY <1>1, <1>3 DEF TypeInv, TypeOK, CopiesCounted
  <1> QED BY <1>1, <1>2, <1>3, <1>4

\* A worker whose list had no application of a name.
LEMMA NoneListed ==
    ASSUME TypeInv, NEW n \in Names, copies'[n] = 0
    PROVE  copies'[n] + Cardinality(Creating(n)') <= Cardinality(Workers)
  <1>1. PICK T \in SUBSET Workers : T = Creating(n)'
    BY DEF Creating
  <1>2. Cardinality(T) \in Nat /\ Cardinality(T) <= Cardinality(Workers)
    BY <1>1, WorkersAssumption, FS_Subset, FS_CardinalityType
  <1> QED BY <1>1, <1>2

\* The worker that creates the application is no longer one of those to do so.
LEMMA OneCreates ==
    ASSUME TypeInv, NEW w \in Workers, NEW n \in Names, w \in Creating(n),
           Creating(n)' \subseteq Creating(n) \ {w}, copies'[n] = copies[n] + 1
    PROVE  copies'[n] + Cardinality(Creating(n)') <= Cardinality(Workers)
  <1>1. PICK S \in SUBSET Workers, T \in SUBSET Workers :
          S = Creating(n) /\ T = Creating(n)' /\ w \in S /\ T \in SUBSET (S \ {w})
    <2>1. PICK S \in SUBSET Workers : S = Creating(n)
      BY DEF Creating
    <2>2. PICK T \in SUBSET Workers : T = Creating(n)'
      BY DEF Creating
    <2>3. w \in S /\ T \in SUBSET (S \ {w})
      BY <2>1, <2>2
    <2> QED BY <2>1, <2>2, <2>3
  <1>2. IsFiniteSet(S) /\ Cardinality(S) \in Nat /\ Cardinality(Workers) \in Nat
    BY <1>1, WorkersAssumption, FS_Subset, FS_CardinalityType
  <1>3. IsFiniteSet(S \ {w}) /\ Cardinality(S \ {w}) = Cardinality(S) - 1
    BY <1>1, <1>2, FS_RemoveElement
  <1>4. IsFiniteSet(T) /\ Cardinality(T) <= Cardinality(S \ {w})
    BY <1>1, <1>3, FS_Subset
  <1>5. Cardinality(T) \in Nat
    BY <1>4, FS_CardinalityType
  <1>6. copies[n] \in Nat /\ copies[n] + Cardinality(S) <= Cardinality(Workers)
    BY <1>1, <1>2 DEF TypeInv, TypeOK, CopiesCounted
  <1> QED BY <1>1, <1>2, <1>3, <1>4, <1>5, <1>6

\* Only a worker that has just listed joins those that create.
LEMMA WhoCreates ==
    ASSUME TypeInv, [Next]_vars, \A w \in Workers : ~ListProvider(w), NEW n \in Names
    PROVE  Creating(n)' \subseteq Creating(n)
  <1>1. ASSUME NEW w \in Workers, NEW p \in PC, p # "creating", pc' = [pc EXCEPT ![w] = p],
               \A v \in Workers : v # w => called'[v] = called[v] /\ target'[v] = target[v]
        PROVE  Creating(n)' \subseteq Creating(n)
    BY <1>1 DEF Creating, TypeInv, TypeOK
  <1>2. ASSUME UNCHANGED <<pc, called, target>>
        PROVE  Creating(n)' \subseteq Creating(n)
    BY <1>2 DEF Creating
  <1>3. ASSUME NEW w \in Workers,
               \/ ClaimLost(w) \/ CommitRedeployment(w) \/ CommitSubmission(w) \/ CommitStillRunning(w)
               \/ CommitSucceeded(w) \/ RecordFailedRows(w) \/ WorkerDies(w)
               \/ SelectCandidate(w) \/ Claim(w) \/ ProviderThrows(w) \/ CommitResourceFailed(w)
               \/ RecordFailure(w) \/ ResolveForSubmission(w) \/ ResolveForPoll(w)
               \/ CreateOrReuse(w) \/ PollProvider(w)
        PROVE  /\ \E p \in PC : p # "creating" /\ pc' = [pc EXCEPT ![w] = p]
               /\ \A v \in Workers : v # w => called'[v] = called[v] /\ target'[v] = target[v]
    <2>1. \E p \in PC : p # "creating" /\ pc' = [pc EXCEPT ![w] = p]
      BY <1>3 DEF ClaimLost, CommitRedeployment, CommitSubmission, CommitStillRunning,
                  CommitSucceeded, RecordFailedRows, WorkerDies, SelectCandidate, Claim,
                  ProviderThrows, CommitResourceFailed, RecordFailure, ResolveForSubmission,
                  ResolveForPoll, CreateOrReuse, PollProvider, Goto, PC, Engaged
    <2>2. UNCHANGED called \/ \E c : called' = [called EXCEPT ![w] = c]
      BY <1>3 DEF ClaimLost, CommitRedeployment, CommitSubmission, CommitStillRunning,
                  CommitSucceeded, RecordFailedRows, WorkerDies, SelectCandidate, Claim,
                  ProviderThrows, CommitResourceFailed, RecordFailure, ResolveForSubmission,
                  ResolveForPoll, CreateOrReuse, PollProvider, Forget, locals
    <2>3. UNCHANGED target \/ \E t : target' = [target EXCEPT ![w] = t]
      BY <1>3 DEF ClaimLost, CommitRedeployment, CommitSubmission, CommitStillRunning,
                  CommitSucceeded, RecordFailedRows, WorkerDies, SelectCandidate, Claim,
                  ProviderThrows, CommitResourceFailed, RecordFailure, ResolveForSubmission,
                  ResolveForPoll, CreateOrReuse, PollProvider, Forget, locals
    <2> QED BY <2>1, <2>2, <2>3 DEF TypeInv, TypeOK
  <1>4. ASSUME NEW x, Enqueue(x) PROVE UNCHANGED <<pc, called, target>>
    BY <1>4 DEF Enqueue, locals
  <1>5. ASSUME NEW j, BecomesDue(j) \/ RetryRead(j) PROVE UNCHANGED <<pc, called, target>>
    BY <1>5 DEF BecomesDue, RetryRead, locals
  <1>6. ASSUME NEW u, NEW s, ProviderChanges(u, s) PROVE UNCHANGED <<pc, called, target>>
    BY <1>6 DEF ProviderChanges, locals
  <1>7. ASSUME RetryWrite \/ UNCHANGED vars PROVE UNCHANGED <<pc, called, target>>
    BY <1>7 DEF RetryWrite, vars, locals
  <1>8. ASSUME NEW w \in Workers, SelectCandidate(w) \/ Work(w) \/ ProviderThrows(w) \/ WorkerDies(w)
        PROVE  Creating(n)' \subseteq Creating(n)
    BY <1>1, <1>3, <1>8 DEF Work
  <1> QED BY <1>2, <1>4, <1>5, <1>6, <1>7, <1>8
          DEF Next, QueueStarter, CreateApplication, UpdateApplication

LEMMA CopiesStep ==
    ASSUME TypeInv, [Next]_vars
    PROVE  /\ copies' \in [Names -> 0..Cardinality(Workers)]
           /\ CopiesCounted' /\ CopiesDeployed'
  <1>1. /\ copies \in [Names -> 0..Cardinality(Workers)] /\ Cardinality(Workers) \in Nat
        /\ latest \in [Uuids -> {"none", "running", "failed", "succeeded"}]
    BY WorkersAssumption, FS_CardinalityType DEF TypeInv, TypeOK
  <1>2. CASE \E w \in Workers : ListProvider(w)
    <2>1. PICK w \in Workers : ListProvider(w)
      BY <1>2
    <2>2. PICK n \in Names : n = called[w]
      BY <2>1 DEF ListProvider, Goto, TypeInv, Knows
    <2>3. /\ pc' = [pc EXCEPT ![w] = "creating"] /\ UNCHANGED <<called, copies, latest>>
          /\ \A m \in Names \ {n} : w \notin Creating(m)'
      BY <2>1, <2>2 DEF ListProvider, Goto, provider, Creating
    <2>4. ASSUME NEW m \in Names, w \notin Creating(m)' PROVE Creating(m)' \subseteq Creating(m)
      <3>1. PICK t : target' = [target EXCEPT ![w] = t]
        BY <2>1 DEF ListProvider
      <3>2. \A v \in Workers \ {w} : pc'[v] = pc[v] /\ target'[v] = target[v]
        BY <2>3, <3>1 DEF TypeInv, TypeOK
      <3> QED BY <2>3, <2>4, <3>2 DEF Creating
    <2>5. CASE copies[n] = 0
      BY <1>1, <2>3, <2>4, <2>5, NoneListed, FewerCreate DEF CopiesCounted, CopiesDeployed, TypeInv
    <2>6. CASE copies[n] # 0
      <3>1. PICK u \in {n} \X (1..copies[n]) : target' = [target EXCEPT ![w] = u]
        <4>1. <<n, 1>> \in {n} \X (1..copies[n])
          BY <1>1, <2>6
        <4> QED BY <2>1, <2>2, <4>1 DEF ListProvider
      <3>2. u # NULL
        <4>1. PICK i \in 1..copies[n] : u = <<n, i>>
          OBVIOUS
        <4>2. i \in 1..Cardinality(Workers)
          BY <1>1
        <4> QED BY <4>1, <4>2, NullAssumption DEF Uuids
      <3>3. w \notin Creating(n)'
        BY <3>1, <3>2 DEF Creating, TypeInv, TypeOK
      <3> QED BY <1>1, <2>3, <2>4, <3>3, FewerCreate DEF CopiesCounted, CopiesDeployed, TypeInv
    <2> QED BY <1>1, <2>5, <2>6
  <1>3. CASE \A w \in Workers : ~ListProvider(w)
    <2>1. CASE UNCHANGED copies
      <3>1. CopiesCounted'
        BY <1>3, <2>1, WhoCreates, FewerCreate DEF CopiesCounted
      <3>2. ASSUME NEW n \in Names, NEW i \in 1..copies[n] PROVE latest'[<<n, i>>] # "none"
        <4>1. <<n, i>> \in Uuids
          BY <1>1 DEF Uuids
        <4> QED BY <4>1, LatestStep DEF TypeInv, CopiesDeployed
      <3> QED BY <1>1, <2>1, <3>1, <3>2 DEF CopiesDeployed
    <2>2. CASE copies' # copies
      <3>1. PICK w \in Workers : CreateOrReuse(w)
        BY <2>2, WhoWrites
      <3>2. target[w] = NULL /\ pc[w] = "creating" /\ called[w] \in Names
        BY <2>2, <3>1 DEF CreateOrReuse, Goto, TypeInv, Knows
      <3>3. PICK n \in Names, i \in 1..Cardinality(Workers) : n = called[w] /\ i = copies[n] + 1
        BY <3>2, RoomToCreate
      <3>4. /\ copies' = [copies EXCEPT ![n] = i]
            /\ latest' = [latest EXCEPT ![<<n, i>>] = "running"]
        BY <3>1, <3>2, <3>3 DEF CreateOrReuse
      <3>5. w \in Creating(n) /\ w \notin Creating(n)'
        BY <3>1, <3>2, <3>3 DEF Creating, CreateOrReuse, Goto, TypeInv, TypeOK
      <3>6. copies' \in [Names -> 0..Cardinality(Workers)]
        BY <1>1, <3>4
      <3>7. ASSUME NEW m \in Names
            PROVE  copies'[m] + Cardinality(Creating(m)') <= Cardinality(Workers)
        <4>1. Creating(m)' \subseteq Creating(m)
          BY <1>3, WhoCreates
        <4>2. CASE m = n
          BY <1>1, <3>3, <3>4, <3>5, <4>1, <4>2, OneCreates
        <4>3. CASE m # n
          BY <1>1, <3>4, <4>1, <4>3, FewerCreate
        <4> QED BY <4>2, <4>3
      <3>8. ASSUME NEW m \in Names, NEW k \in 1..copies'[m] PROVE latest'[<<m, k>>] # "none"
        <4>1. k \in 1..Cardinality(Workers) /\ <<m, k>> \in Uuids /\ <<n, i>> \in Uuids
          BY <3>6, <1>1 DEF Uuids
        <4>2. CASE m = n /\ k = i
          BY <1>1, <3>4, <4>1, <4>2
        <4>3. CASE ~(m = n /\ k = i)
          <5>1. k \in 1..copies[m]
            BY <1>1, <3>3, <3>4, <4>3
          <5> QED BY <5>1, <4>1, LatestStep DEF TypeInv, CopiesDeployed
        <4> QED BY <4>2, <4>3
      <3> QED BY <3>6, <3>7, <3>8 DEF CopiesCounted, CopiesDeployed
    <2> QED BY <2>1, <2>2
  <1> QED BY <1>2, <1>3

LEMMA TypeInit == Init => TypeInv
  <1> SUFFICES ASSUME Init PROVE TypeInv
    OBVIOUS
  <1>1. BoundInv
    BY BoundInit
  <1>2. TypeOK
    BY NamesAssumption, WorkersAssumption, FS_CardinalityType DEF Init, TypeOK
  <1>3. TablesLinked /\ (\A w \in Workers : Knows(w)) /\ CopiesDeployed
    BY DEF Init, TablesLinked, Knows, CopiesDeployed, Created
  <1>4. ASSUME NEW n \in Names PROVE copies[n] + Cardinality(Creating(n)) <= Cardinality(Workers)
    <2>1. copies[n] = 0 /\ Creating(n) = {}
      BY DEF Init, Creating
    <2> QED BY <2>1, FS_EmptySet, WorkersAssumption, FS_CardinalityType
  <1> QED BY <1>1, <1>2, <1>3, <1>4 DEF TypeInv, CopiesCounted

LEMMA TypeStep == TypeInv /\ [Next]_vars => TypeInv'
  <1> SUFFICES ASSUME TypeInv, [Next]_vars PROVE TypeInv'
    OBVIOUS
  <1>1. BoundInv'
    BY BoundStep DEF TypeInv
  <1>2. TypeOK'
    <2>1. jobs' \in [Jobs -> JobRow \union {NULL}] /\ pc' \in [Workers -> PC]
          /\ held' \in [Workers -> Jobs \union {NULL}] /\ seen' \in [Workers -> Snapshot \union {NULL}]
          /\ retrying' \subseteq RetryRow
      BY <1>1 DEF BoundInv, ClaimTypes, RetriesKnown
    <2> QED BY <2>1, RestStep, BuildsGrowStep, ResourcesGrowStep, LatestStep, CopiesStep, LocalsStep
            DEF TypeOK, LocalTypes, PC, RetryRow
  <1>3. TablesLinked' /\ (\A w \in Workers : Knows(w))' /\ CopiesCounted' /\ CopiesDeployed'
    BY TablesLinkedStep, LocalsStep, CopiesStep
  <1> QED BY <1>1, <1>2, <1>3 DEF TypeInv

LEMMA TypeHolds == Spec => []TypeInv
  <1>1. TypeInv /\ [Next]_vars => TypeInv'
    BY TypeStep
  <1> QED BY <1>1, TypeInit, PTL DEF Spec

\* Every row, every worker and every provider application keeps its type, with
\* any number of workers, crashes and retries: in particular a worker submits
\* to, polls and links an application it has read or created, and the provider
\* never holds more applications of a name than there are workers.
THEOREM ProvisioningTypes == Spec => []TypeOK
  <1>1. TypeInv => TypeOK
    BY DEF TypeInv
  <1> QED BY <1>1, TypeHolds, PTL

-----------------------------------------------------------------------------
(* The resource row of an accepted job                                     *)

\* A worker's step, and what every other worker is left with.
WorkerSteps(w) == SelectCandidate(w) \/ Work(w) \/ ProviderThrows(w) \/ WorkerDies(w)

StaysPut(w) ==
    /\ pc'[w] = pc[w] /\ held'[w] = held[w] /\ seen'[w] = seen[w] /\ called'[w] = called[w]
    /\ existing'[w] = existing[w] /\ target'[w] = target[w] /\ answer'[w] = answer[w]

LEMMA OneMoves ==
    ASSUME TypeInv, [Next]_vars, NEW v \in Workers
    PROVE  StaysPut(v) \/ WorkerSteps(v)
  <1>1. ASSUME UNCHANGED <<pc, locals>> PROVE StaysPut(v)
    BY <1>1 DEF StaysPut, locals
  <1>2. ASSUME NEW w \in Workers, w # v, WorkerSteps(w) PROVE StaysPut(v)
    <2>1. \E p : pc' = [pc EXCEPT ![w] = p]
      BY <1>2 DEF WorkerSteps, Work, ClaimLost, CommitRedeployment, CommitSubmission, CommitStillRunning,
                  CommitSucceeded, RecordFailedRows, WorkerDies, SelectCandidate, Claim,
                  ProviderThrows, CommitResourceFailed, RecordFailure, ResolveForSubmission,
                  ResolveForPoll, ListProvider, CreateOrReuse, PollProvider, Goto
    <2>2. /\ UNCHANGED held \/ \E x : held' = [held EXCEPT ![w] = x]
          /\ UNCHANGED seen \/ \E x : seen' = [seen EXCEPT ![w] = x]
      BY <1>2 DEF WorkerSteps, Work, ClaimLost, CommitRedeployment, CommitSubmission, CommitStillRunning,
                  CommitSucceeded, RecordFailedRows, WorkerDies, SelectCandidate, Claim,
                  ProviderThrows, CommitResourceFailed, RecordFailure, ResolveForSubmission,
                  ResolveForPoll, ListProvider, CreateOrReuse, PollProvider, Forget, locals
    <2>3. /\ UNCHANGED called \/ \E x : called' = [called EXCEPT ![w] = x]
          /\ UNCHANGED existing \/ \E x : existing' = [existing EXCEPT ![w] = x]
      BY <1>2 DEF WorkerSteps, Work, ClaimLost, CommitRedeployment, CommitSubmission, CommitStillRunning,
                  CommitSucceeded, RecordFailedRows, WorkerDies, SelectCandidate, Claim,
                  ProviderThrows, CommitResourceFailed, RecordFailure, ResolveForSubmission,
                  ResolveForPoll, ListProvider, CreateOrReuse, PollProvider, Forget, locals
    <2>4. /\ UNCHANGED target \/ \E x : target' = [target EXCEPT ![w] = x]
          /\ UNCHANGED answer \/ \E x : answer' = [answer EXCEPT ![w] = x]
      BY <1>2 DEF WorkerSteps, Work, ClaimLost, CommitRedeployment, CommitSubmission, CommitStillRunning,
                  CommitSucceeded, RecordFailedRows, WorkerDies, SelectCandidate, Claim,
                  ProviderThrows, CommitResourceFailed, RecordFailure, ResolveForSubmission,
                  ResolveForPoll, ListProvider, CreateOrReuse, PollProvider, Forget, locals
    <2>5. /\ pc \in [Workers -> PC] /\ DOMAIN held = Workers /\ DOMAIN seen = Workers
          /\ DOMAIN called = Workers /\ DOMAIN existing = Workers /\ DOMAIN target = Workers
          /\ DOMAIN answer = Workers
      BY DEF TypeInv, TypeOK, PC
    <2>6. pc'[v] = pc[v] /\ held'[v] = held[v] /\ seen'[v] = seen[v]
      BY <1>2, <2>1, <2>2, <2>5
    <2>7. called'[v] = called[v] /\ existing'[v] = existing[v]
      BY <1>2, <2>3, <2>5
    <2>8. target'[v] = target[v] /\ answer'[v] = answer[v]
      BY <1>2, <2>4, <2>5
    <2> QED BY <2>6, <2>7, <2>8 DEF StaysPut
  <1>3. ASSUME NEW x, Enqueue(x) PROVE UNCHANGED <<pc, locals>>
    BY <1>3 DEF Enqueue
  <1>4. ASSUME NEW j, BecomesDue(j) \/ RetryRead(j) PROVE UNCHANGED <<pc, locals>>
    BY <1>4 DEF BecomesDue, RetryRead
  <1>5. ASSUME NEW u, NEW s, ProviderChanges(u, s) PROVE UNCHANGED <<pc, locals>>
    BY <1>5 DEF ProviderChanges
  <1>6. ASSUME RetryWrite \/ UNCHANGED vars PROVE UNCHANGED <<pc, locals>>
    BY <1>6 DEF RetryWrite, vars, locals
  <1> QED BY <1>1, <1>2, <1>3, <1>4, <1>5, <1>6
          DEF Next, WorkerSteps, QueueStarter, CreateApplication, UpdateApplication

\* A job has a resource row: its application's, or one that it made.
HasResource(j) ==
    \/ IsApp(j) /\ build[jobs[j].app].resource # NULL
    \/ \E u \in Uuids : resource[u] # NULL /\ resource[u].job = j

LEMMA ResourceIsFound ==
    ASSUME TypeInv, NEW j \in Created
    PROVE  ResourceOf(j) # NULL <=> HasResource(j)
  <1> DEFINE own == {u \in Uuids : resource[u] # NULL /\ resource[u].job = j}
  <1>1. CASE IsApp(j) /\ build[jobs[j].app].resource # NULL
    BY <1>1 DEF ResourceOf, HasResource
  <1>2. CASE ~(IsApp(j) /\ build[jobs[j].app].resource # NULL) /\ own # {}
    <2>1. ResourceOf(j) = CHOOSE u \in own : TRUE
      BY <1>2 DEF ResourceOf
    <2>2. ResourceOf(j) \in own
      BY <1>2, <2>1
    <2> QED BY <2>2, NullAssumption DEF HasResource
  <1>3. CASE ~(IsApp(j) /\ build[jobs[j].app].resource # NULL) /\ own = {}
    BY <1>3 DEF ResourceOf, HasResource
  <1> QED BY <1>1, <1>2, <1>3

LEMMA ResourceStays ==
    ASSUME TypeInv, [Next]_vars, NEW j \in Created, HasResource(j)
    PROVE  HasResource(j)'
  <1>1. jobs'[j].app = jobs[j].app
    BY JobsGrowStep DEF TypeInv, JobsGrow
  <1>2. CASE IsApp(j) /\ build[jobs[j].app].resource # NULL
    <2>1. PICK x \in Apps : x = jobs[j].app /\ build[x] # NULL
      BY <1>2 DEF IsApp, TypeInv, TablesLinked
    <2>2. build'[x].resource # NULL
      BY <1>2, <2>1, BuildsGrowStep DEF BuildsGrow
    <2> QED BY <1>1, <2>1, <2>2 DEF HasResource, IsApp
  <1>3. CASE \E u \in Uuids : resource[u] # NULL /\ resource[u].job = j
    BY <1>3, ResourcesGrowStep DEF ResourcesGrow, HasResource
  <1> QED BY <1>2, <1>3 DEF HasResource

\* No name of one application is ever a name of another: a name has one owner.
NamesApart(Owner) == \A x \in Apps \union {Starter} : Owner[name[x]] = x

OneStarterJob ==
    \A j, k \in Created : jobs[j].app = Starter /\ jobs[k].app = Starter => j = k

\* A resource row is of a job of the application that its name belongs to, and
\* the build of that application is linked to a row.
RowsBelong(Owner) ==
    \A u \in Uuids : resource[u] # NULL =>
        /\ resource[u].job \in Created
        /\ Owner[u[1]] = jobs[resource[u].job].app
        /\ IsApp(resource[u].job) => build[jobs[resource[u].job].app].resource # NULL

\* What a worker submits to is of the application of its job, and a worker that
\* has found a resource row has found one of its job.
Means(Owner, w) ==
    /\ pc[w] \in {"listing", "creating", "created"} => Owner[called[w]] = jobs[held[w]].app
    /\ pc[w] = "creating" /\ target[w] # NULL => target[w][1] = called[w]
    /\ pc[w] = "created" => target[w][1] = called[w]
    /\ \A j \in Created :
          /\ j = held[w] /\ existing[w] # NULL
          /\ pc[w] \in {"listing", "creating", "created", "polling", "answered"}
          => HasResource(j)

LinkInv(Owner) ==
    /\ OneStarterJob
    /\ RowsBelong(Owner)
    /\ \A w \in Workers : Means(Owner, w)
    /\ \A j \in Created : jobs[j].accepted => HasResource(j)

LEMMA LinkInit == ASSUME NEW Owner PROVE Init => LinkInv(Owner)
  BY DEF Init, LinkInv, OneStarterJob, RowsBelong, Means, Created

LEMMA OneStarterStep ==
    ASSUME TypeInv, [Next]_vars, OneStarterJob
    PROVE  OneStarterJob'
  <1>1. BoundInv /\ jobs \in [Jobs -> JobRow \union {NULL}]
    BY DEF TypeInv, TypeOK
  <1>2. ASSUME NEW j \in Created, j \in Created' PROVE jobs'[j].app = jobs[j].app
    BY <1>1, JobsGrowStep DEF JobsGrow
  <1>3. CASE QueueStarter
    <2>1. PICK i \in Jobs \ Created, row \in JobRow : jobs' = [jobs EXCEPT ![i] = row]
      BY <1>3, EnqueueIsNew DEF QueueStarter
    <2>2. \A j \in Created' : j = i \/ j \in Created
      BY <1>1, <2>1 DEF Created
    <2>3. \A j \in Created : jobs[j].app # Starter
      BY <1>3 DEF QueueStarter
    <2> QED BY <1>2, <2>2, <2>3 DEF OneStarterJob
  <1>4. CASE ~QueueStarter
    <2>1. ASSUME NEW j \in Created', jobs'[j].app = Starter PROVE j \in Created /\ jobs[j].app = Starter
      BY <1>1, <1>2, <1>4, <2>1, NewJob, AppsAssumption
    <2> QED BY <2>1 DEF OneStarterJob
  <1> QED BY <1>3, <1>4

LEMMA RowsBelongStep ==
    ASSUME NEW Owner, TypeInv, LinkInv(Owner), [Next]_vars
    PROVE  RowsBelong(Owner)'
  <1>1. BoundInv /\ BoundInv' /\ JobsGrow
    BY BoundStep, JobsGrowStep DEF TypeInv
  <1>2. ASSUME NEW u \in Uuids, resource'[u] # NULL
        PROVE  /\ resource'[u].job \in Created'
               /\ Owner[u[1]] = jobs'[resource'[u].job].app
               /\ jobs'[resource'[u].job].app \in Apps => build'[jobs'[resource'[u].job].app].resource # NULL
    <2>1. CASE resource[u] # NULL
      <3>1. PICK j \in Created : j = resource[u].job /\ j = resource'[u].job
        BY <2>1, ResourcesGrowStep DEF ResourcesGrow, LinkInv, RowsBelong
      <3>2. j \in Created' /\ jobs'[j].app = jobs[j].app
        BY <1>1 DEF JobsGrow
      <3>3. jobs[j].app \in Apps => build'[jobs[j].app].resource # NULL
        BY <2>1, <3>1, BuildsGrowStep DEF LinkInv, RowsBelong, IsApp, BuildsGrow, TypeInv, TablesLinked
      <3> QED BY <2>1, <3>1, <3>2, <3>3 DEF LinkInv, RowsBelong
    <2>2. CASE resource[u] = NULL
      <3>1. PICK w \in Workers : /\ CommitSubmission(w) /\ u = target[w]
                                 /\ resource'[u] = [job |-> held[w], status |-> "provisioning"]
        BY <1>2, <2>2, NewResource
      <3>2. pc[w] = "created" /\ held[w] \in Created
        BY <1>1, <3>1, WorkersRow DEF CommitSubmission, Goto
      <3>3. PICK j \in Created : j = held[w]
        BY <3>2
      <3>4. j \in Created' /\ jobs'[j].app = jobs[j].app /\ resource'[u].job = j
        BY <1>1, <3>1, <3>3 DEF JobsGrow
      <3>5. Owner[u[1]] = jobs[j].app
        BY <3>1, <3>2, <3>3 DEF LinkInv, Means
      <3>6. ASSUME jobs[j].app \in Apps PROVE build'[jobs[j].app].resource # NULL
        <4>1. build' = [build EXCEPT ![jobs[j].app] = [status |-> "building", resource |-> u]]
          BY <2>2, <3>1, <3>3, <3>6 DEF CommitSubmission, IsApp
        <4> QED BY <3>6, <4>1, NullAssumption DEF TypeInv, TypeOK
      <3> QED BY <3>4, <3>5, <3>6
    <2> QED BY <2>1, <2>2
  <1> QED BY <1>2 DEF RowsBelong, IsApp

\* A job is accepted by the worker that commits to it.
Commits(w) ==
    \/ CommitRedeployment(w) \/ CommitSubmission(w)
    \/ CommitStillRunning(w) \/ CommitSucceeded(w)

LEMMA WhoAccepts ==
    ASSUME TypeInv, [Next]_vars, NEW j \in Created', jobs'[j].accepted
    PROVE  \/ j \in Created /\ jobs[j].accepted
           \/ \E w \in Workers : held[w] = j /\ pc[w] # "idle" /\ Commits(w)
  <1>1. BoundInv /\ j \in Jobs /\ jobs \in [Jobs -> JobRow \union {NULL}] /\ jobs'[j] # NULL
    BY DEF TypeInv, TypeOK, Created
  <1>2. ASSUME NEW x, Enqueue(x) PROVE j \in Created /\ jobs[j].accepted
    <2>1. PICK i \in Jobs : jobs' = [jobs EXCEPT ![i] =
                [app |-> x, status |-> "queued", attempts |-> 0,
                 maximum |-> MaximumAttempts, accepted |-> FALSE]]
      BY <1>2 DEF Enqueue
    <2>2. j # i
      BY <1>1, <2>1
    <2> QED BY <1>1, <2>1, <2>2 DEF Created
  <1>3. CASE RetryWrite
    <2>1. PICK t \in retrying : jobs' = [jobs EXCEPT ![t.job].status = "queued",
                                                     ![t.job].maximum = Raised(t)]
      BY <1>3 DEF RetryWrite
    <2>2. t.job \in Created /\ jobs[t.job] \in JobRow
      BY <1>1, CreatedIsRow DEF BoundInv, RetriesKnown
    <2> QED BY <1>1, <2>1, <2>2 DEF Created, JobRow
  <1>4. ASSUME NEW w \in Workers, Claim(w) \/ RecordFailure(w)
        PROVE  j \in Created /\ jobs[j].accepted
    <2>1. held[w] \in Created /\ jobs[held[w]] \in JobRow
      BY <1>1, <1>4, WorkersRow DEF Claim, RecordFailure, Goto
    <2>2. PICK s, n : jobs' = [jobs EXCEPT ![held[w]].status = s, ![held[w]].attempts = n]
      BY <1>4 DEF Claim, RecordFailure
    <2> QED BY <1>1, <2>1, <2>2 DEF Created, JobRow
  <1>5. ASSUME NEW w \in Workers, Commits(w)
        PROVE  \/ j \in Created /\ jobs[j].accepted
               \/ held[w] = j /\ pc[w] # "idle" /\ Commits(w)
    <2>1. pc[w] # "idle"
      BY <1>5 DEF Commits, CommitRedeployment, CommitSubmission, CommitStillRunning, CommitSucceeded, Goto
    <2>2. held[w] \in Created
      BY <1>1, <2>1, WorkersRow
    <2>3. held[w] # j => jobs'[j] = jobs[j]
      BY <1>1, <1>5, <2>2 DEF Commits, CommitRedeployment, CommitSubmission, CommitStillRunning,
                              CommitSucceeded, AwaitPoll
    <2> QED BY <1>1, <1>5, <2>1, <2>3 DEF Created
  <1>6. CASE UNCHANGED jobs
    BY <1>1, <1>6 DEF Created
  <1> QED BY <1>2, <1>3, <1>4, <1>5, <1>6, WhoWrites
          DEF QueueStarter, CreateApplication, UpdateApplication, Commits

LEMMA AcceptedStep ==
    ASSUME NEW Owner, TypeInv, LinkInv(Owner), [Next]_vars, NEW j \in Created', jobs'[j].accepted
    PROVE  HasResource(j)'
  <1>1. CASE j \in Created /\ jobs[j].accepted
    BY <1>1, ResourceStays DEF LinkInv
  <1>2. ASSUME NEW w \in Workers, held[w] = j, pc[w] # "idle", Commits(w)
        PROVE  HasResource(j)'
    <2>1. j \in Created
      BY <1>2, WorkersRow DEF TypeInv
    <2>2. CASE CommitRedeployment(w)
      <3>1. HasResource(j)
        BY <1>2, <2>1, <2>2 DEF CommitRedeployment, Goto, LinkInv, Means
      <3> QED BY <2>1, <3>1, ResourceStays
    <2>3. CASE CommitStillRunning(w) \/ CommitSucceeded(w)
      <3>1. pc[w] = "answered" /\ existing[w] # NULL
        BY <2>3, NullAssumption DEF CommitStillRunning, CommitSucceeded, Goto, TypeInv, Knows
      <3>2. HasResource(j)
        BY <1>2, <2>1, <3>1 DEF LinkInv, Means
      <3> QED BY <2>1, <3>2, ResourceStays
    <2>4. CASE CommitSubmission(w)
      <3>1. pc[w] = "created" /\ target[w] \in Uuids
        BY <2>4 DEF CommitSubmission, Goto, TypeInv, Knows
      <3>2. PICK u \in Uuids : u = target[w]
        BY <3>1
      <3>3. CASE resource[u] = NULL
        <4>1. resource' = [resource EXCEPT ![u] = [job |-> j, status |-> "provisioning"]]
          BY <1>2, <2>4, <3>2, <3>3 DEF CommitSubmission
        <4>2. resource'[u].job = j /\ resource'[u] \in ResourceRow
          BY <2>1, <4>1 DEF ResourceRow, Created, TypeInv, TypeOK
        <4> QED BY <4>2, NullAssumption DEF HasResource
      <3>4. CASE resource[u] # NULL
        <4>1. PICK k \in Created : /\ k = resource[u].job
                                   /\ jobs[k].app = jobs[j].app
                                   /\ IsApp(k) => build[jobs[k].app].resource # NULL
          BY <1>2, <3>1, <3>2, <3>4 DEF LinkInv, RowsBelong, Means
        <4>2. CASE IsApp(j)
          <5>1. HasResource(j)
            BY <4>1, <4>2 DEF IsApp, HasResource
          <5> QED BY <2>1, <5>1, ResourceStays
        <4>3. CASE ~IsApp(j)
          <5>1. jobs[j].app = Starter
            BY <2>1, <4>3, CreatedIsRow DEF IsApp, JobRow, TypeInv, BoundInv
          <5>2. k = j
            BY <2>1, <4>1, <5>1 DEF LinkInv, OneStarterJob
          <5>3. HasResource(j)
            BY <3>4, <4>1, <5>2 DEF HasResource
          <5> QED BY <2>1, <5>3, ResourceStays
        <4> QED BY <4>2, <4>3
      <3> QED BY <3>3, <3>4
    <2> QED BY <1>2, <2>2, <2>3, <2>4 DEF Commits
  <1> QED BY <1>1, <1>2, WhoAccepts

\* A worker that moves on and keeps its job.
LEMMA MeansIt ==
    ASSUME NEW Owner, TypeInv, [Next]_vars, NEW w \in Workers, pc[w] # "idle", held'[w] = held[w],
           pc'[w] \in {"listing", "creating", "created"} => Owner[called'[w]] = jobs[held[w]].app,
           pc'[w] = "creating" /\ target'[w] # NULL => target'[w][1] = called'[w],
           pc'[w] = "created" => target'[w][1] = called'[w],
           \A j \in Created :
               /\ j = held[w] /\ existing'[w] # NULL
               /\ pc'[w] \in {"listing", "creating", "created", "polling", "answered"}
               => HasResource(j)
    PROVE  Means(Owner, w)'
  <1>1. PICK j \in Created : j = held[w]
    BY WorkersRow DEF TypeInv
  <1>2. jobs'[j].app = jobs[j].app
    BY JobsGrowStep DEF TypeInv, JobsGrow
  <1>3. HasResource(j) => HasResource(j)'
    BY ResourceStays
  <1> QED BY <1>1, <1>2, <1>3 DEF Means

LEMMA MeansStep ==
    ASSUME NEW Owner, TypeInv, LinkInv(Owner), NamesApart(Owner), [Next]_vars, NEW w \in Workers
    PROVE  Means(Owner, w)'
  <1>1. /\ pc \in [Workers -> PC] /\ Means(Owner, w)
        /\ \A j \in Created : ResourceOf(j) # NULL <=> HasResource(j)
        /\ DOMAIN called = Workers /\ DOMAIN existing = Workers /\ DOMAIN target = Workers
    BY ResourceIsFound DEF TypeInv, TypeOK, PC, LinkInv
  <1>2. CASE pc'[w] \notin {"listing", "creating", "created", "polling", "answered"}
    BY <1>2 DEF Means
  <1>3. CASE StaysPut(w) /\ pc[w] # "idle"
    BY <1>1, <1>3, MeansIt DEF StaysPut, Means
  <1>4. CASE ResolveForSubmission(w)
    <2>1. /\ pc[w] = "claimed" /\ pc'[w] = "listing" /\ held' = held
          /\ called'[w] = name[jobs[held[w]].app] /\ existing'[w] = ResourceOf(held[w])
      BY <1>1, <1>4 DEF ResolveForSubmission, Goto
    <2>2. jobs[held[w]].app \in Apps \union {Starter}
      BY <2>1, WorkersRow DEF TypeInv
    <2>3. Owner[called'[w]] = jobs[held[w]].app
      BY <2>1, <2>2 DEF NamesApart
    <2> QED BY <1>1, <2>1, <2>3, MeansIt
  <1>5. CASE ResolveForPoll(w)
    <2>1. /\ pc[w] = "claimed" /\ pc'[w] = "polling" /\ held' = held
          /\ existing'[w] = ResourceOf(held[w])
      BY <1>1, <1>5 DEF ResolveForPoll, Goto
    <2> QED BY <1>1, <2>1, MeansIt
  <1>6. CASE ListProvider(w)
    <2>1. /\ pc[w] = "listing" /\ pc'[w] = "creating" /\ held' = held
          /\ called' = called /\ existing' = existing
      BY <1>1, <1>6 DEF ListProvider, Goto
    <2>2. target'[w] # NULL => target'[w][1] = called[w]
      BY <1>1, <1>6 DEF ListProvider
    <2>3. Owner[called'[w]] = jobs[held[w]].app
      BY <1>1, <2>1 DEF Means
    <2>4. \A j \in Created : j = held[w] /\ existing'[w] # NULL => HasResource(j)
      BY <1>1, <2>1 DEF Means
    <2> QED BY <2>1, <2>2, <2>3, <2>4, MeansIt
  <1>7. CASE CreateOrReuse(w)
    <2>1. /\ pc[w] = "creating" /\ pc'[w] = "created" /\ held' = held
          /\ called' = called /\ existing' = existing
      BY <1>1, <1>7 DEF CreateOrReuse, Goto
    <2>2. target'[w] = IF target[w] # NULL THEN target[w] ELSE <<called[w], copies[called[w]] + 1>>
      BY <1>1, <1>7 DEF CreateOrReuse
    <2>3. target'[w][1] = called'[w]
      BY <1>1, <2>1, <2>2 DEF Means
    <2>4. Owner[called'[w]] = jobs[held[w]].app
      BY <1>1, <2>1 DEF Means
    <2>5. \A j \in Created : j = held[w] /\ existing'[w] # NULL => HasResource(j)
      BY <1>1, <2>1 DEF Means
    <2> QED BY <2>1, <2>3, <2>4, <2>5, MeansIt
  <1>8. CASE PollProvider(w)
    <2>1. /\ pc[w] = "polling" /\ pc'[w] = "answered" /\ held' = held /\ existing' = existing
      BY <1>1, <1>8 DEF PollProvider, Goto
    <2>2. \A j \in Created : j = held[w] /\ existing'[w] # NULL => HasResource(j)
      BY <1>1, <2>1 DEF Means
    <2> QED BY <2>1, <2>2, MeansIt
  <1>9. CASE \/ ClaimLost(w) \/ CommitRedeployment(w) \/ CommitSubmission(w) \/ CommitStillRunning(w)
             \/ CommitSucceeded(w) \/ RecordFailedRows(w) \/ WorkerDies(w)
             \/ SelectCandidate(w) \/ Claim(w) \/ ProviderThrows(w) \/ CommitResourceFailed(w)
             \/ RecordFailure(w)
    <2>1. pc'[w] \in {"idle", "selected", "claimed", "failing", "failed"}
      BY <1>1, <1>9
         DEF ClaimLost, CommitRedeployment, CommitSubmission, CommitStillRunning, CommitSucceeded,
             RecordFailedRows, WorkerDies, SelectCandidate, Claim, ProviderThrows,
             CommitResourceFailed, RecordFailure, Goto
    <2> QED BY <1>2, <2>1
  <1>10. CASE StaysPut(w) /\ pc[w] = "idle"
    BY <1>2, <1>10 DEF StaysPut
  <1> QED BY <1>3, <1>4, <1>5, <1>6, <1>7, <1>8, <1>9, <1>10, OneMoves DEF WorkerSteps, Work

LEMMA LinkStep ==
    ASSUME NEW Owner, TypeInv, LinkInv(Owner), NamesApart(Owner), [Next]_vars
    PROVE  LinkInv(Owner)'
  <1>1. OneStarterJob'
    BY OneStarterStep DEF LinkInv
  <1>2. ASSUME NEW j \in Created', jobs'[j].accepted PROVE HasResource(j)'
    BY <1>2, AcceptedStep
  <1> QED BY <1>1, <1>2, RowsBelongStep, MeansStep DEF LinkInv

\* A job the provider has accepted has a resource row to poll: for any number of
\* workers and jobs, with crashes, operator's retries and renames, as long as no
\* name of one application is ever a name of another (Owner says whose a name
\* is).  Applications of one name do break it, which the code allows.
THEOREM AcceptedIsLinked ==
    ASSUME NEW Owner
    PROVE  Spec /\ []NamesApart(Owner) => []AcceptedHasResource
  <1>1. Init => LinkInv(Owner)
    BY LinkInit
  <1>2. TypeInv /\ LinkInv(Owner) /\ NamesApart(Owner) /\ [Next]_vars => LinkInv(Owner)'
    BY LinkStep
  <1>3. TypeInv /\ LinkInv(Owner) => AcceptedHasResource
    BY ResourceIsFound DEF LinkInv, AcceptedHasResource
  <1> QED BY <1>1, <1>2, <1>3, TypeHolds, PTL DEF Spec

\* Names that are apart when an application is created stay so without renames.
LEMMA NamesStay ==
    ASSUME Renames = {}, \A x, y \in Apps \union {Starter} : Named[x] = Named[y] => x = y,
           NEW Owner, \A x \in Apps \union {Starter} : Owner[Named[x]] = x
    PROVE  Spec => []NamesApart(Owner)
  <1> DEFINE Same == name = Named
  <1>1. Init => Same
    BY DEF Init
  <1>2. Same /\ [Next]_vars => Same'
    <2> SUFFICES ASSUME Same, [Next]_vars PROVE Same'
      OBVIOUS
    <2>1. ASSUME NEW x \in Apps, NEW n \in Names, UpdateApplication(x, n) PROVE Same'
      BY <2>1, NamesAssumption DEF UpdateApplication
    <2> QED BY <2>1, WhoWrites
  <1>3. Same => NamesApart(Owner)
    BY DEF NamesApart
  <1> QED BY <1>1, <1>2, <1>3, PTL DEF Spec

\* Applications that are given names of their own, and never another one, have
\* a resource row for every accepted job.
COROLLARY AcceptedIsLinkedByName ==
    ASSUME Renames = {}, \A x, y \in Apps \union {Starter} : Named[x] = Named[y] => x = y
    PROVE  Spec => []AcceptedHasResource
  <1> DEFINE Owner == [n \in Names |-> CHOOSE x \in Apps \union {Starter} : Named[x] = n]
  <1>1. \A x \in Apps \union {Starter} : Owner[Named[x]] = x
    BY NamesAssumption
  <1> HIDE DEF Owner
  <1> QED BY <1>1, NamesStay, AcceptedIsLinked, PTL

\* What a worker has read of its job's acceptance is still so, and a worker that
\* is about to submit holds a job that has not been accepted.
Fresh(w) ==
    /\ pc[w] \in Engaged => (seen[w].accepted <=> jobs[held[w]].accepted)
    /\ pc[w] \in {"listing", "creating"} => ~jobs[held[w]].accepted

FreshInv == \A w \in Workers : Fresh(w)

LEMMA FreshStep ==
    ASSUME NEW Owner, TypeInv, LinkInv(Owner), ClaimInv, FreshInv, [Next]_vars, NEW w \in Workers
    PROVE  Fresh(w)'
  <1> USE DEF Engaged
  <1>1. CASE pc'[w] \notin Engaged
    BY <1>1 DEF Fresh
  <1>2. /\ pc \in [Workers -> PC] /\ seen \in [Workers -> Snapshot \union {NULL}]
        /\ BoundInv /\ Fresh(w)
    BY DEF TypeInv, TypeOK, PC, FreshInv
  <1>3. ASSUME pc[w] \in Engaged, pc'[w] \in Engaged, held'[w] = held[w]
        PROVE  jobs'[held[w]].accepted <=> jobs[held[w]].accepted
    <2>1. PICK j \in Created : j = held[w]
      BY <1>2, <1>3, WorkersRow
    <2>2. j \in Created' /\ (jobs[j].accepted => jobs'[j].accepted)
      BY <1>2, JobsGrowStep DEF JobsGrow
    <2>3. ASSUME jobs'[j].accepted PROVE jobs[j].accepted
      <3>1. ASSUME NEW v \in Workers, held[v] = j, Commits(v) PROVE FALSE
        <4>1. pc[v] \in Engaged /\ pc' = [pc EXCEPT ![v] = "idle"]
          BY <3>1 DEF Commits, CommitRedeployment, CommitSubmission, CommitStillRunning,
                      CommitSucceeded, Goto
        <4>2. v = w
          BY <1>3, <2>1, <3>1, <4>1 DEF ClaimInv, OneWorkerPerJob
        <4> QED BY <1>2, <1>3, <4>1, <4>2
      <3> QED BY <2>2, <2>3, <3>1, WhoAccepts
    <2> QED BY <2>1, <2>2, <2>3
  <1>4. ASSUME pc[w] \in Engaged, pc'[w] \in Engaged, held'[w] = held[w], seen'[w] = seen[w],
               pc'[w] \in {"listing", "creating"} => ~jobs[held[w]].accepted
        PROVE  Fresh(w)'
    BY <1>2, <1>3, <1>4 DEF Fresh
  <1>5. CASE StaysPut(w) /\ pc[w] \in Engaged
    BY <1>2, <1>4, <1>5 DEF StaysPut, Fresh
  <1>6. CASE StaysPut(w) /\ pc[w] \notin Engaged
    BY <1>1, <1>6 DEF StaysPut
  <1>7. CASE Claim(w)
    <2>1. held[w] \in Created /\ jobs[held[w]] \in JobRow
      BY <1>2, <1>7, WorkersRow DEF Claim, Goto
    <2>2. /\ pc'[w] = "claimed" /\ held' = held
          /\ seen'[w].accepted = jobs[held[w]].accepted
      BY <1>2, <1>7 DEF Claim, Goto, SnapshotOf
    <2>3. jobs'[held[w]].accepted = jobs[held[w]].accepted
      BY <1>2, <1>7, <2>1 DEF Claim, TypeInv, TypeOK, Created, JobRow
    <2> QED BY <2>2, <2>3 DEF Fresh
  <1>8. CASE ResolveForSubmission(w)
    <2>1. /\ pc[w] = "claimed" /\ pc'[w] = "listing" /\ held' = held /\ seen' = seen
          /\ Submits(w)
      BY <1>2, <1>8 DEF ResolveForSubmission, Goto
    <2>2. PICK j \in Created : j = held[w]
      BY <1>2, <2>1, WorkersRow
    <2>3. ~jobs[j].accepted
      BY <1>2, <2>1, <2>2, ResourceIsFound DEF Submits, Fresh, LinkInv
    <2> QED BY <1>4, <2>1, <2>2, <2>3
  <1>9. CASE ListProvider(w)
    <2>1. /\ pc[w] = "listing" /\ pc'[w] = "creating" /\ held' = held /\ seen' = seen
      BY <1>2, <1>9 DEF ListProvider, Goto
    <2> QED BY <1>2, <1>4, <2>1 DEF Fresh
  <1>10. CASE \/ ResolveForPoll(w) \/ CreateOrReuse(w) \/ PollProvider(w)
              \/ CommitResourceFailed(w) \/ ProviderThrows(w)
    <2>1. /\ pc[w] \in Engaged /\ pc'[w] \in {"polling", "created", "answered", "failing"}
          /\ held' = held /\ seen' = seen
      BY <1>2, <1>10 DEF ResolveForPoll, CreateOrReuse, PollProvider, CommitResourceFailed,
                         ProviderThrows, Goto, locals
    <2> QED BY <1>4, <2>1
  <1>11. CASE \/ ClaimLost(w) \/ CommitRedeployment(w) \/ CommitSubmission(w) \/ CommitStillRunning(w)
              \/ CommitSucceeded(w) \/ RecordFailedRows(w) \/ WorkerDies(w)
              \/ SelectCandidate(w) \/ RecordFailure(w)
    <2>1. pc'[w] \in {"idle", "selected", "failed"}
      BY <1>2, <1>11
         DEF ClaimLost, CommitRedeployment, CommitSubmission, CommitStillRunning, CommitSucceeded,
             RecordFailedRows, WorkerDies, SelectCandidate, RecordFailure, Goto
    <2> QED BY <1>1, <2>1
  <1> QED BY <1>5, <1>6, <1>7, <1>8, <1>9, <1>10, <1>11, OneMoves DEF WorkerSteps, Work

\* Once the provider has accepted a job, workers only poll for it: for any number
\* of workers and jobs, with crashes and renames, without an operator's retries
\* and as long as no name of one application is ever a name of another.
THEOREM AcceptedOnlyPolled ==
    ASSUME RetryLimit = 0, NEW Owner
    PROVE  Spec /\ []NamesApart(Owner) => AcceptedIsOnlyPolled
  <1>1. Init => LinkInv(Owner)
    BY LinkInit
  <1>2. TypeInv /\ LinkInv(Owner) /\ NamesApart(Owner) /\ [Next]_vars => LinkInv(Owner)'
    BY LinkStep
  <1>3. Init => FreshInv
    BY DEF Init, FreshInv, Fresh, Engaged
  <1>4. TypeInv /\ LinkInv(Owner) /\ ClaimInv /\ FreshInv /\ [Next]_vars => FreshInv'
    BY FreshStep DEF FreshInv
  <1>5. FreshInv => [\A w \in Workers :
                       pc[w] = "creating" /\ pc'[w] = "created" => ~jobs[held[w]].accepted]_vars
    BY DEF FreshInv, Fresh
  <1> QED BY <1>1, <1>2, <1>3, <1>4, <1>5, TypeHolds, ClaimHolds, PTL DEF Spec, AcceptedIsOnlyPolled
=============================================================================
