---------------------------- MODULE DatabaseProofs ----------------------------
(***************************************************************************)
(* Proofs about customer databases: of module Transfers, that one run      *)
(* executes a job and what download offers exists, for every number of     *)
(* jobs, runs, attempts and artifacts; of module LogicalDatabases, that    *)
(* creation, rename and deletion, in any number and order, leave every row *)
(* its data unless its name was in the hands of two requests at a time.    *)
(***************************************************************************)
EXTENDS Transfers, LogicalDatabases, FiniteSetTheorems, TLAPS

ExecutionSteps == {"start", "work", "store", "complete", "audit", "caught", "give up"}
Steps == {"idle", "claim", "delete", "forget"} \union ExecutionSteps
Statuses == {"none"} \union ActiveStatus \union Settled

JobRow == [status : Statuses, import : BOOLEAN, attempts : Nat, key : Nat]
RunnerRow == [step : Steps, job : Jobs \union {NoJob}, attempts : Nat, key : Nat, cancelled : BOOLEAN]

TransferTypes ==
    /\ job \in [Jobs -> JobRow]
    /\ lapsed \subseteq Jobs
    /\ retry \in [Retriers -> Jobs \union {NoJob}]
    /\ runner \in [Runners -> RunnerRow]
    /\ \A w \in Runners : ~RunnerAt(w, "idle") => runner[w].job \in Jobs

\* A run holds a row that exists.
HeldExists == \A w \in Runners : ~RunnerAt(w, "idle") => ~Is(runner[w].job, {"none"})

\* Nobody works on an expired job, or will.
LapsedIsOver ==
    \A j \in lapsed :
        /\ Is(j, {"completed"})
        /\ \A q \in Retriers : retry[q] # j
        /\ \A w \in Runners : runner[w].job = j => ~Executing(w)

\* Keys of artifacts.  A row that has not expired has its artifact, and no two
\* rows have one.
RowsHaveArtifacts ==
    /\ \A i, j \in Jobs : job[i].key = job[j].key /\ job[i].key # NoKey => i = j
    /\ \A j \in Jobs : job[j].key # NoKey /\ j \notin lapsed => job[j].key \in artifacts

\* A run that is about to complete an export has written an artifact that only
\* it knows of.
ExportsAreWritten ==
    \A w \in Runners :
        /\ runner[w].step \in {"claim", "start", "work", "store"} => runner[w].key = NoKey
        /\ RunnerAt(w, "store") => ~job[runner[w].job].import
        /\ RunnerAt(w, "complete") /\ ~job[runner[w].job].import => runner[w].key # NoKey
        /\ RunnerAt(w, "complete") /\ runner[w].key # NoKey =>
            /\ runner[w].key \in artifacts
            /\ \A j \in Jobs : job[j].key # runner[w].key
            /\ \A v \in Runners \ {w} : runner[v].key # runner[w].key

\* A run that cleans deletes the artifact of an expired row and of no other.
CleansExpired ==
    \A w \in Runners : runner[w].step \in {"delete", "forget"} =>
        /\ runner[w].job \in lapsed
        /\ runner[w].key # NoKey
        /\ \A i \in Jobs : job[i].key = runner[w].key => i = runner[w].job

TransfersInv ==
    /\ TransferTypes
    /\ HeldExists
    /\ LapsedIsOver
    /\ RowsHaveArtifacts
    /\ ExportsAreWritten
    /\ CleansExpired

ExecutedIsActive ==
    \A w \in Runners : Executing(w) => Is(runner[w].job, {"running", "cancel_requested", "completed"})

OneRunner ==
    \A w, v \in Runners :
        Executing(w) /\ Executing(v) /\ runner[w].job = runner[v].job => w = v

RetriedIsSettled == \A q \in Retriers : retry[q] # NoJob => Is(retry[q], {"failed", "cancelled"})

Alone == ExecutedIsActive /\ OneRunner /\ RetriedIsSettled

\* The customer waits for the answer to a retry before the next one.
OneRetrier == \A q, p \in Retriers : q = p

Kept == TransfersInv' /\ (OneRetrier /\ Alone => Alone')

-----------------------------------------------------------------------------
(* What a step does to one run and to one row                              *)

StepTo(w, s, j, k) ==
    /\ runner' \in [Runners -> RunnerRow]
    /\ runner'[w].step = s /\ runner'[w].job = j /\ runner'[w].key = k
    /\ \A v \in Runners \ {w} : runner'[v] = runner[v]

RowTo(j, s, k) ==
    /\ job' \in [Jobs -> JobRow]
    /\ job'[j].status = s /\ job'[j].key = k
    /\ \A i \in Jobs \ {j} : job'[i].status = job[i].status /\ job'[i].key = job[i].key
    /\ \A i \in Jobs \ {j} : job'[i].import = job[i].import

LEMMA RunnerStep ==
    ASSUME TransferTypes, NEW w \in Runners, NEW s \in Steps, RunnerTo(w, s)
    PROVE  StepTo(w, s, runner[w].job, runner[w].key)
  BY DEF TransferTypes, RunnerTo, StepTo, RunnerRow

LEMMA RunnerRead ==
    ASSUME TransferTypes, NEW w \in Runners, NEW r \in RunnerRow, runner' = [runner EXCEPT ![w] = r]
    PROVE  StepTo(w, r.step, r.job, r.key)
  BY DEF TransferTypes, StepTo

LEMMA RunnerIdle ==
    ASSUME TransferTypes, NEW w \in Runners, runner' = [runner EXCEPT ![w] = Between]
    PROVE  StepTo(w, "idle", NoJob, NoKey)
  <1>1. Between \in RunnerRow /\ Between.step = "idle" /\ Between.job = NoJob /\ Between.key = NoKey
    BY DEF Between, RunnerRow, NoKey, Steps
  <1>2. StepTo(w, Between.step, Between.job, Between.key)
    BY <1>1, RunnerRead
  <1> QED BY <1>1, <1>2

LEMMA RowStep ==
    ASSUME TransferTypes, NEW j \in Jobs, NEW s \in Statuses, Becomes(j, s)
    PROVE  RowTo(j, s, job[j].key) /\ job'[j].import = job[j].import
  BY DEF TransferTypes, Becomes, RowTo, JobRow

-----------------------------------------------------------------------------
(* Steps of a run that change no row                                       *)

RowsKept == UNCHANGED <<job, lapsed, artifacts, retry>>
Claimed == {"claim", "start", "work", "store"}

LEMMA RunnerKeeps ==
    ASSUME TransfersInv, RowsKept, NEW w \in Runners, NEW s \in Steps,
           NEW j \in Jobs \union {NoJob}, NEW k \in Nat, StepTo(w, s, j, k),
           s # "idle" => j \in Jobs /\ job[j].status # "none",
           s \in ExecutionSteps => Executing(w) /\ j = runner[w].job,
           s \in Claimed => k = NoKey,
           s = "store" => ~job[j].import,
           s = "complete" => job[j].import /\ k = NoKey,
           s \in {"delete", "forget"} => j \in lapsed /\ k # NoKey /\ \A i \in Jobs : job[i].key = k => i = j,
           k # NoKey => k = runner[w].key \/ \E i \in Jobs : job[i].key = k
    PROVE  Kept
  <1> USE DEF TransfersInv, StepTo, RowsKept
  <1>1. TransferTypes'
    <2>1. \A v \in Runners : ~RunnerAt(v, "idle")' => runner'[v].job \in Jobs
      BY DEF TransferTypes, RunnerAt
    <2> QED BY <2>1 DEF TransferTypes, RunnerAt
  <1>2. LapsedIsOver'
    <2> SUFFICES ASSUME NEW i \in lapsed, NEW v \in Runners, runner'[v].job = i
                 PROVE  ~Executing(v)'
      BY DEF LapsedIsOver, Is
    <2>1. CASE v = w
      BY <2>1 DEF LapsedIsOver, Executing, ExecutionSteps
    <2>2. CASE v # w
      BY <2>2 DEF LapsedIsOver, Executing
    <2> QED BY <2>1, <2>2
  <1>3. Alone => Alone'
    <2> SUFFICES ASSUME Alone
                 PROVE  Alone'
      OBVIOUS
    <2>1. ExecutedIsActive'
      BY DEF Alone, ExecutedIsActive, Executing, ExecutionSteps, Is
    <2>2. OneRunner'
      <3> SUFFICES ASSUME NEW u \in Runners, NEW v \in Runners,
                          Executing(u)', Executing(v)', runner'[u].job = runner'[v].job
                   PROVE  u = v
        BY DEF OneRunner
      <3>1. \A x \in {u, v} : Executing(x) /\ runner[x].job = runner'[x].job
        BY DEF Executing, ExecutionSteps
      <3> QED BY <3>1 DEF Alone, OneRunner
    <2>3. RetriedIsSettled'
      BY DEF Alone, RetriedIsSettled, Is
    <2> QED BY <2>1, <2>2, <2>3 DEF Alone
  <1>4. RowsHaveArtifacts'
    BY DEF RowsHaveArtifacts
  <1>5. ExportsAreWritten'
    BY DEF ExportsAreWritten, RunnerAt, Claimed
  <1>6. CleansExpired'
    BY DEF CleansExpired
  <1>7. HeldExists'
    BY DEF HeldExists, RunnerAt, Is
  <1> QED BY <1>1, <1>2, <1>3, <1>4, <1>5, <1>6, <1>7 DEF Kept

LEMMA SelectInv ==
    ASSUME TransfersInv, NEW w \in Runners, Select(w)
    PROVE  Kept
  <1>1. PICK j \in Jobs :
            /\ job[j].status = "queued"
            /\ runner' = [runner EXCEPT ![w] = [Between EXCEPT !.step = "claim", !.job = j,
                                                               !.attempts = job[j].attempts]]
    BY DEF Select, Is
  <1> DEFINE r == [Between EXCEPT !.step = "claim", !.job = j, !.attempts = job[j].attempts]
  <1>2. job[j].attempts \in Nat
    BY DEF TransfersInv, TransferTypes, JobRow
  <1>3. r \in RunnerRow /\ r.step = "claim" /\ r.job = j /\ r.key = NoKey
    BY <1>2 DEF Between, RunnerRow, NoKey, Steps
  <1>4. StepTo(w, "claim", j, NoKey)
    <2>1. StepTo(w, r.step, r.job, r.key)
      BY <1>1, <1>3, RunnerRead DEF TransfersInv
    <2> QED BY <1>3, <2>1
  <1>5. RowsKept
    BY DEF Select, RowsKept
  <1>6. NoKey \in Nat
    BY DEF NoKey
  <1> QED BY <1>1, <1>4, <1>5, <1>6, RunnerKeeps DEF ExecutionSteps, Claimed, Steps

LEMMA SelectExpiredInv ==
    ASSUME TransfersInv, NEW w \in Runners, NEW j \in Jobs, SelectExpired(w, j)
    PROVE  Kept
  <1> DEFINE r == [Between EXCEPT !.step = "delete", !.job = j, !.key = job[j].key]
             k == job[j].key
  <1>1. job[j].key \in Nat
    BY DEF TransfersInv, TransferTypes, JobRow
  <1>2. r \in RunnerRow /\ r.step = "delete" /\ r.job = j /\ r.key = k
    BY <1>1 DEF Between, RunnerRow, NoKey, Steps
  <1>3. StepTo(w, "delete", j, k)
    <2>1. runner' = [runner EXCEPT ![w] = r]
      BY DEF SelectExpired
    <2>2. StepTo(w, r.step, r.job, r.key)
      BY <1>2, <2>1, RunnerRead DEF TransfersInv
    <2> QED BY <1>2, <2>2
  <1>4. /\ RowsKept
        /\ j \in lapsed
        /\ k # NoKey
        /\ job[j].status # "none"
    BY DEF SelectExpired, RowsKept, Is
  <1>5. \A i \in Jobs : job[i].key = k => i = j
    BY <1>4 DEF TransfersInv, RowsHaveArtifacts
  <1> HIDE DEF k, r
  <1> QED BY <1>1, <1>3, <1>4, <1>5, RunnerKeeps DEF ExecutionSteps, Claimed, Steps, k

\* A step of an execution that only goes on.
LEMMA GoesOn ==
    ASSUME TransfersInv, RowsKept, NEW w \in Runners, Executing(w),
           NEW s \in {"work", "store", "complete", "audit", "caught", "give up"},
           StepTo(w, s, runner[w].job, runner[w].key),
           s \in Claimed => runner[w].step \in Claimed,
           s = "store" => ~job[runner[w].job].import,
           s = "complete" => job[runner[w].job].import /\ runner[w].step \in Claimed
    PROVE  Kept
  <1>1. ~RunnerAt(w, "idle")
    BY DEF Executing, RunnerAt
  <1>2. runner[w].job \in Jobs /\ runner[w].key \in Nat /\ job[runner[w].job].status # "none"
    BY <1>1 DEF TransfersInv, TransferTypes, RunnerRow, HeldExists, Is
  <1>3. runner[w].step \in Claimed => runner[w].key = NoKey
    BY DEF TransfersInv, ExportsAreWritten, Claimed
  <1> QED BY <1>2, <1>3, RunnerKeeps DEF ExecutionSteps, Steps

LEMMA StopsInv ==
    ASSUME TransfersInv, RowsKept, NEW w \in Runners, runner' = [runner EXCEPT ![w] = Between]
    PROVE  Kept
  <1>1. StepTo(w, "idle", NoJob, NoKey)
    BY RunnerIdle DEF TransfersInv
  <1>2. NoKey \in Nat
    BY DEF NoKey
  <1> QED BY <1>1, <1>2, RunnerKeeps DEF ExecutionSteps, Claimed, Steps

\* An execution that goes on remembers what it read; it may notice a cancellation.
LEMMA NoticeStep ==
    ASSUME TransferTypes, NEW w \in Runners, NEW b \in BOOLEAN,
           runner' = [runner EXCEPT ![w].step = "give up", ![w].cancelled = b]
    PROVE  StepTo(w, "give up", runner[w].job, runner[w].key)
  <1> DEFINE r == [runner[w] EXCEPT !.step = "give up", !.cancelled = b]
  <1>1. r \in RunnerRow /\ r.step = "give up" /\ r.job = runner[w].job /\ r.key = runner[w].key
    BY DEF TransferTypes, RunnerRow, Steps, ExecutionSteps
  <1>2. runner' = [runner EXCEPT ![w] = r]
    BY DEF TransferTypes, RunnerRow
  <1>3. StepTo(w, r.step, r.job, r.key)
    BY <1>1, <1>2, RunnerRead
  <1> QED BY <1>1, <1>3

LEMMA ProgressInv ==
    ASSUME TransfersInv, NEW w \in Runners,
           BeginExecution(w) \/ Work(w) \/ NoticeCancel(w) \/ ExecutionFails(w) \/ Caught(w)
    PROVE  Kept
  <1>0. TransferTypes
    BY DEF TransfersInv
  <1>1. CASE BeginExecution(w)
    <2>1. RowsKept /\ Executing(w) /\ runner[w].step = "start" /\ RunnerTo(w, "work")
      BY <1>1 DEF BeginExecution, RowsKept, RunnerAt, Executing
    <2>2. StepTo(w, "work", runner[w].job, runner[w].key)
      BY <1>0, <2>1, RunnerStep DEF Steps, ExecutionSteps
    <2> QED BY <2>1, <2>2, GoesOn DEF Claimed
  <1>2. CASE Work(w)
    <2> DEFINE s == IF job[runner[w].job].import THEN "complete" ELSE "store"
    <2>1. RowsKept /\ Executing(w) /\ runner[w].step = "work" /\ RunnerTo(w, s)
      BY <1>2 DEF Work, RowsKept, RunnerAt, Executing
    <2>2. StepTo(w, s, runner[w].job, runner[w].key)
      BY <1>0, <2>1, RunnerStep DEF Steps, ExecutionSteps
    <2> QED BY <2>1, <2>2, GoesOn DEF Claimed
  <1>3. CASE NoticeCancel(w)
    <2>1. RowsKept /\ Executing(w)
      BY <1>3 DEF NoticeCancel, RowsKept, RunnerAt, Executing
    <2>2. StepTo(w, "give up", runner[w].job, runner[w].key)
      BY <1>0, <1>3, NoticeStep DEF NoticeCancel
    <2> QED BY <2>1, <2>2, GoesOn DEF Claimed
  <1>4. CASE ExecutionFails(w)
    <2>1. RowsKept /\ Executing(w) /\ RunnerTo(w, "caught")
      BY <1>4 DEF ExecutionFails, RowsKept
    <2>2. StepTo(w, "caught", runner[w].job, runner[w].key)
      BY <1>0, <2>1, RunnerStep DEF Steps, ExecutionSteps
    <2> QED BY <2>1, <2>2, GoesOn DEF Claimed
  <1>5. CASE Caught(w)
    <2>1. RowsKept /\ Executing(w)
      BY <1>5 DEF Caught, RowsKept, RunnerAt, Executing
    <2>2. Is(runner[w].job, {"cancel_requested"}) \in BOOLEAN
      BY DEF Is
    <2>3. StepTo(w, "give up", runner[w].job, runner[w].key)
      BY <1>0, <1>5, <2>2, NoticeStep DEF Caught
    <2> QED BY <2>1, <2>3, GoesOn DEF Claimed
  <1> QED BY <1>1, <1>2, <1>3, <1>4, <1>5

-----------------------------------------------------------------------------
(* Steps of customers, and time                                            *)

\* A row changes that nobody executes, or in a way that an execution allows.
LEMMA RowKeeps ==
    ASSUME TransfersInv, UNCHANGED <<lapsed, artifacts, runner>>,
           NEW j \in Jobs, j \notin lapsed, NEW s \in Statuses \ {"none"}, RowTo(j, s, job[j].key),
           \A w \in Runners : runner[w].step \in {"store", "complete"} /\ runner[w].job = j =>
                job'[j].import = job[j].import,
           retry' \in [Retriers -> Jobs \union {NoJob}],
           \A q \in Retriers : retry'[q] = retry[q] \/ retry'[q] = NoJob,
           OneRetrier /\ Alone =>
                /\ \A w \in Runners : Executing(w) /\ runner[w].job = j =>
                     s \in {"running", "cancel_requested", "completed"}
                /\ \A q \in Retriers : retry'[q] # j
    PROVE  Kept
  <1> USE DEF TransfersInv, RowTo
  <1>1. TransferTypes'
    BY DEF TransferTypes, RunnerAt
  <1>2. LapsedIsOver'
    <2> SUFFICES ASSUME NEW i \in lapsed
                 PROVE  /\ job'[i].status = "completed"
                        /\ \A q \in Retriers : retry'[q] # i
                        /\ \A w \in Runners : runner[w].job = i => ~Executing(w)
      BY DEF LapsedIsOver, Is, Executing
    <2>1. i \in Jobs /\ i # NoJob
      BY TransfersAssumption DEF TransferTypes, Jobs
    <2> QED BY <2>1 DEF LapsedIsOver, Is
  <1>3. RowsHaveArtifacts'
    BY DEF RowsHaveArtifacts
  <1>4. ExportsAreWritten'
    <2> SUFFICES ASSUME NEW w \in Runners
                 PROVE  /\ RunnerAt(w, "store") => ~job'[runner[w].job].import
                        /\ RunnerAt(w, "complete") /\ ~job'[runner[w].job].import => runner[w].key # NoKey
                        /\ RunnerAt(w, "complete") /\ runner[w].key # NoKey =>
                             \A i \in Jobs : job'[i].key # runner[w].key
      BY DEF ExportsAreWritten, RunnerAt
    <2>1. RunnerAt(w, "store") \/ RunnerAt(w, "complete") =>
            runner[w].job \in Jobs /\ job'[runner[w].job].import = job[runner[w].job].import
      BY DEF TransferTypes, RunnerAt
    <2>2. \A i \in Jobs : job'[i].key = job[i].key
      OBVIOUS
    <2> QED BY <2>1, <2>2 DEF ExportsAreWritten, RunnerAt
  <1>5. CleansExpired'
    BY DEF CleansExpired
  <1>6. OneRetrier /\ Alone => Alone'
    <2> SUFFICES ASSUME OneRetrier, Alone
                 PROVE  Alone'
      OBVIOUS
    <2>1. ExecutedIsActive'
      <3> SUFFICES ASSUME NEW w \in Runners, Executing(w)
                   PROVE  job'[runner[w].job].status \in {"running", "cancel_requested", "completed"}
        BY DEF ExecutedIsActive, Executing, Is
      <3>1. runner[w].job \in Jobs
        BY DEF TransferTypes, RunnerAt, Executing
      <3> QED BY <3>1 DEF Alone, ExecutedIsActive, Is
    <2>2. OneRunner'
      BY DEF Alone, OneRunner, Executing
    <2>3. RetriedIsSettled'
      <3> SUFFICES ASSUME NEW q \in Retriers, retry'[q] # NoJob
                   PROVE  job'[retry'[q]].status \in {"failed", "cancelled"}
        BY DEF RetriedIsSettled, Is
      <3>1. retry'[q] = retry[q] /\ retry[q] \in Jobs \ {j}
        BY DEF TransferTypes
      <3> QED BY <3>1 DEF Alone, RetriedIsSettled, Is
    <2> QED BY <2>1, <2>2, <2>3 DEF Alone
  <1>7. HeldExists'
    BY DEF HeldExists, RunnerAt, Is, TransferTypes
  <1> QED BY <1>1, <1>2, <1>3, <1>4, <1>5, <1>6, <1>7 DEF Kept

LEMMA EnqueueInv ==
    ASSUME TransfersInv, NEW j \in Jobs, NEW import \in BOOLEAN, Enqueue(j, import)
    PROVE  Kept
  <1> DEFINE r == [job[j] EXCEPT !.status = "queued", !.import = import]
  <1>1. /\ job[j].status = "none"
        /\ job' = [job EXCEPT ![j] = r]
        /\ UNCHANGED <<lapsed, artifacts, retry, runner>>
        /\ r \in JobRow /\ r.status = "queued" /\ r.key = job[j].key
    BY DEF Enqueue, Is, TransfersInv, TransferTypes, JobRow, Statuses, ActiveStatus
  <1>2. RowTo(j, "queued", job[j].key)
    <2> HIDE DEF r
    <2> QED BY <1>1 DEF RowTo, TransfersInv, TransferTypes
  <1>3. j \notin lapsed
    BY <1>1 DEF TransfersInv, LapsedIsOver, Is
  <1>4. \A w \in Runners : runner[w].job = j => RunnerAt(w, "idle")
    BY <1>1 DEF TransfersInv, HeldExists, Is
  <1>5. OneRetrier /\ Alone => \A q \in Retriers : retry'[q] # j
    <2>1. j # NoJob
      BY TransfersAssumption DEF Jobs
    <2> QED BY <1>1, <2>1 DEF Alone, RetriedIsSettled, Is
  <1> QED
    BY <1>1, <1>2, <1>3, <1>4, <1>5, RowKeeps
      DEF RunnerAt, Executing, Statuses, ActiveStatus, TransfersInv, TransferTypes

LEMMA CancelInv ==
    ASSUME TransfersInv, NEW j \in Jobs, Cancel(j)
    PROVE  Kept
  <1>1. /\ job[j].status \in {"queued", "running"}
        /\ Becomes(j, "cancel_requested")
        /\ UNCHANGED <<lapsed, artifacts, retry, runner>>
    BY DEF Cancel, Is
  <1>2. RowTo(j, "cancel_requested", job[j].key) /\ job'[j].import = job[j].import
    BY <1>1, RowStep DEF TransfersInv, Statuses, ActiveStatus
  <1>3. j \notin lapsed
    BY <1>1 DEF TransfersInv, LapsedIsOver, Is
  <1>4. OneRetrier /\ Alone => \A q \in Retriers : retry'[q] # j
    <2>1. j # NoJob
      BY TransfersAssumption DEF Jobs
    <2> QED BY <1>1, <2>1 DEF Alone, RetriedIsSettled, Is
  <1> QED
    BY <1>1, <1>2, <1>3, <1>4, RowKeeps DEF Statuses, ActiveStatus, TransfersInv, TransferTypes

\* No row changes.
LEMMA RetryKeeps ==
    ASSUME TransfersInv, UNCHANGED <<job, artifacts, runner>>,
           lapsed' \subseteq Jobs, lapsed \subseteq lapsed',
           retry' \in [Retriers -> Jobs \union {NoJob}],
           \A q \in Retriers :
                retry'[q] \in {retry[q], NoJob} \/ job[retry'[q]].status \in {"failed", "cancelled"},
           \A i \in lapsed' : /\ job[i].status = "completed"
                              /\ \A q \in Retriers : retry'[q] # i
                              /\ \A w \in Runners : runner[w].job = i => ~Executing(w)
    PROVE  Kept
  <1> USE DEF TransfersInv
  <1>1. TransferTypes' /\ HeldExists'
    BY DEF TransferTypes, HeldExists, RunnerAt, Is
  <1>2. LapsedIsOver'
    BY DEF LapsedIsOver, Is, Executing
  <1>3. RowsHaveArtifacts'
    BY DEF RowsHaveArtifacts
  <1>4. ExportsAreWritten' /\ CleansExpired'
    BY DEF ExportsAreWritten, CleansExpired, RunnerAt
  <1>5. Alone => Alone'
    <2> SUFFICES ASSUME Alone
                 PROVE  Alone'
      OBVIOUS
    <2>1. ExecutedIsActive' /\ OneRunner'
      BY DEF Alone, ExecutedIsActive, OneRunner, Executing, Is
    <2>2. RetriedIsSettled'
      BY DEF Alone, RetriedIsSettled, Is
    <2> QED BY <2>1, <2>2 DEF Alone
  <1> QED BY <1>1, <1>2, <1>3, <1>4, <1>5 DEF Kept

LEMMA ReadRetryInv ==
    ASSUME TransfersInv, NEW q \in Retriers, NEW j \in Jobs, ReadRetry(q, j)
    PROVE  Kept
  <1>1. /\ job[j].status \in {"failed", "cancelled"}
        /\ retry' = [retry EXCEPT ![q] = j]
        /\ UNCHANGED <<job, lapsed, artifacts, runner>>
    BY DEF ReadRetry, Is
  <1>2. /\ retry' \in [Retriers -> Jobs \union {NoJob}]
        /\ retry'[q] = j
        /\ \A p \in Retriers \ {q} : retry'[p] = retry[p]
    BY <1>1 DEF TransfersInv, TransferTypes
  <1>3. \A i \in lapsed' : /\ job[i].status = "completed"
                           /\ \A p \in Retriers : retry'[p] # i
                           /\ \A w \in Runners : runner[w].job = i => ~Executing(w)
    BY <1>1, <1>2 DEF TransfersInv, LapsedIsOver, Is
  <1>4. lapsed' \subseteq Jobs
    BY <1>1 DEF TransfersInv, TransferTypes
  <1> QED BY <1>1, <1>2, <1>3, <1>4, RetryKeeps

LEMMA ElapsedInv ==
    ASSUME TransfersInv, NEW j \in Jobs, Elapsed(j)
    PROVE  Kept
  <1>1. /\ job[j].status = "completed"
        /\ \A q \in Retriers : retry[q] # j
        /\ \A w \in Runners : runner[w].job = j => ~Executing(w)
        /\ lapsed' = lapsed \union {j}
        /\ UNCHANGED <<job, artifacts, retry, runner>>
    BY DEF Elapsed, Is
  <1>2. \A i \in lapsed' : /\ job[i].status = "completed"
                           /\ \A q \in Retriers : retry'[q] # i
                           /\ \A w \in Runners : runner[w].job = i => ~Executing(w)
    BY <1>1 DEF TransfersInv, LapsedIsOver, Is
  <1>3. lapsed' \subseteq Jobs /\ retry' \in [Retriers -> Jobs \union {NoJob}]
    BY <1>1 DEF TransfersInv, TransferTypes
  <1> QED BY <1>1, <1>2, <1>3, RetryKeeps

LEMMA RequeueInv ==
    ASSUME TransfersInv, NEW q \in Retriers, Requeue(q)
    PROVE  Kept
  <1> DEFINE j == retry[q]
  <1>1. /\ j \in Jobs /\ j # NoJob
        /\ retry' \in [Retriers -> Jobs \union {NoJob}]
        /\ retry'[q] = NoJob
        /\ \A p \in Retriers \ {q} : retry'[p] = retry[p]
        /\ UNCHANGED <<lapsed, artifacts, runner>>
    BY DEF Requeue, TransfersInv, TransferTypes
  <1>2. j \notin lapsed
    BY DEF TransfersInv, LapsedIsOver
  <1>3. CASE UNCHANGED job
    <2>1. \A i \in lapsed' : /\ job[i].status = "completed"
                             /\ \A p \in Retriers : retry'[p] # i
                             /\ \A w \in Runners : runner[w].job = i => ~Executing(w)
      <3>1. NoJob \notin lapsed
        BY TransfersAssumption DEF TransfersInv, TransferTypes, Jobs
      <3> QED BY <1>1, <3>1 DEF TransfersInv, LapsedIsOver, Is
    <2>2. lapsed' \subseteq Jobs
      BY <1>1 DEF TransfersInv, TransferTypes
    <2> QED BY <1>1, <1>3, <2>1, <2>2, RetryKeeps
  <1>4. CASE Becomes(j, "queued")
    <2>1. RowTo(j, "queued", job[j].key) /\ job'[j].import = job[j].import
      BY <1>1, <1>4, RowStep DEF TransfersInv, Statuses, ActiveStatus
    <2>2. ASSUME OneRetrier, Alone
          PROVE  /\ \A w \in Runners : runner[w].job = j => ~Executing(w)
                 /\ \A p \in Retriers : retry'[p] # j
      <3>1. job[j].status \in {"failed", "cancelled"}
        BY <1>1, <2>2 DEF Alone, RetriedIsSettled, Is
      <3> QED BY <1>1, <2>2, <3>1 DEF Alone, ExecutedIsActive, Is, OneRetrier
    <2> QED BY <1>1, <1>2, <2>1, <2>2, RowKeeps DEF Statuses, ActiveStatus
  <1> QED BY <1>3, <1>4 DEF Requeue

-----------------------------------------------------------------------------
(* Claiming, writing, completing, failing and cleaning                     *)

LEMMA GiveUpInv ==
    ASSUME TransfersInv, NEW w \in Runners, GiveUp(w)
    PROVE  Kept
  <1> DEFINE j == runner[w].job
             s == IF runner[w].cancelled THEN "cancelled" ELSE "failed"
  <1>1. /\ Executing(w)
        /\ Becomes(j, s)
        /\ runner' = [runner EXCEPT ![w] = Between]
        /\ UNCHANGED <<lapsed, artifacts, retry>>
    BY DEF GiveUp, Executing, RunnerAt
  <1>2. j \in Jobs /\ j \notin lapsed
    BY <1>1 DEF TransfersInv, TransferTypes, LapsedIsOver, RunnerAt, Executing
  <1>3. RowTo(j, s, job[j].key) /\ job'[j].import = job[j].import
    BY <1>1, <1>2, RowStep DEF TransfersInv, Statuses, Settled
  <1>4. StepTo(w, "idle", NoJob, NoKey)
    BY <1>1, RunnerIdle DEF TransfersInv
  <1> HIDE DEF j, s
  <1> USE <1>1, <1>2, <1>3, <1>4 DEF TransfersInv, RowTo, StepTo
  <1>5. TransferTypes'
    BY DEF TransferTypes, RunnerAt
  <1>6. HeldExists'
    BY DEF HeldExists, RunnerAt, Is, s, TransferTypes
  <1>7. LapsedIsOver'
    BY DEF LapsedIsOver, Is, Executing, TransferTypes
  <1>8. RowsHaveArtifacts'
    BY DEF RowsHaveArtifacts
  <1>9. ExportsAreWritten'
    BY DEF ExportsAreWritten, RunnerAt, TransferTypes
  <1>10. CleansExpired'
    BY DEF CleansExpired
  <1>11. Alone => Alone'
    <2> SUFFICES ASSUME Alone
                 PROVE  Alone'
      OBVIOUS
    <2>1. ExecutedIsActive'
      BY DEF Alone, ExecutedIsActive, OneRunner, Executing, Is, j, TransferTypes, RunnerAt
    <2>2. OneRunner'
      BY DEF Alone, OneRunner, Executing
    <2>3. RetriedIsSettled'
      BY DEF Alone, RetriedIsSettled, Is, s, TransferTypes
    <2> QED BY <2>1, <2>2, <2>3 DEF Alone
  <1> QED BY <1>5, <1>6, <1>7, <1>8, <1>9, <1>10, <1>11 DEF Kept

\* A run changes the row it holds, which has not expired.
LEMMA LapsedKept ==
    ASSUME TransfersInv, UNCHANGED <<lapsed, retry>>, NEW j \in Jobs, j \notin lapsed,
           NEW s, NEW k, RowTo(j, s, k), NEW w \in Runners, NEW t, NEW m, StepTo(w, t, j, m)
    PROVE  LapsedIsOver'
  <1> SUFFICES ASSUME NEW i \in lapsed
               PROVE  /\ job'[i].status = "completed"
                      /\ \A q \in Retriers : retry[q] # i
                      /\ \A v \in Runners : runner'[v].job = i => ~Executing(v)'
    BY DEF LapsedIsOver, Is
  <1>1. i \in Jobs /\ i # j
    BY DEF TransfersInv, TransferTypes
  <1>2. \A v \in Runners : runner'[v].job = i => runner'[v] = runner[v]
    BY <1>1 DEF StepTo
  <1> QED BY <1>1, <1>2 DEF TransfersInv, LapsedIsOver, Is, RowTo, Executing

LEMMA ActiveKept ==
    ASSUME TransfersInv, Alone, NEW j \in Jobs, NEW k, NEW s \in {"running", "completed"}, RowTo(j, s, k),
           NEW w \in Runners, NEW t, NEW m, StepTo(w, t, j, m)
    PROVE  ExecutedIsActive'
  <1> SUFFICES ASSUME NEW v \in Runners, Executing(v)'
               PROVE  job'[runner'[v].job].status \in {"running", "cancel_requested", "completed"}
    BY DEF ExecutedIsActive, Is
  <1>1. CASE runner'[v].job = j
    BY <1>1 DEF RowTo
  <1>2. CASE runner'[v].job # j
    <2>1. runner'[v] = runner[v] /\ Executing(v)
      BY <1>2 DEF StepTo, Executing
    <2>2. runner[v].job \in Jobs
      BY <2>1 DEF TransfersInv, TransferTypes, RunnerAt, Executing
    <2> QED BY <1>2, <2>1, <2>2 DEF Alone, ExecutedIsActive, Is, RowTo
  <1> QED BY <1>1, <1>2

LEMMA OneKept ==
    ASSUME Alone, NEW j, NEW w \in Runners, NEW t, NEW m, StepTo(w, t, j, m),
           \/ Executing(w) /\ j = runner[w].job
           \/ \A v \in Runners : runner[v].job = j => ~Executing(v)
    PROVE  OneRunner'
  <1> SUFFICES ASSUME NEW u \in Runners, NEW v \in Runners,
                      Executing(u)', Executing(v)', runner'[u].job = runner'[v].job
               PROVE  u = v
    BY DEF OneRunner
  <1>1. \A x \in Runners : x # w => runner'[x] = runner[x] /\ (Executing(x)' => Executing(x))
    BY DEF StepTo, Executing
  <1>2. runner'[w].job = j
    BY DEF StepTo
  <1> QED BY <1>1, <1>2 DEF Alone, OneRunner

LEMMA ClaimInv ==
    ASSUME TransfersInv, NEW w \in Runners, Claim(w)
    PROVE  Kept
  <1> DEFINE j == runner[w].job
  <1>1. /\ runner[w].step = "claim"
        /\ UNCHANGED <<lapsed, artifacts, retry>>
    BY DEF Claim, RunnerAt
  <1>2. j \in Jobs /\ runner[w].key = NoKey
    BY <1>1 DEF TransfersInv, TransferTypes, ExportsAreWritten, RunnerAt
  <1>3. CASE job[j].status # "queued"
    BY <1>1, <1>3, StopsInv DEF Claim, Is, RowsKept
  <1>4. CASE job[j].status = "queued"
    <2>1. /\ job' = [job EXCEPT ![j].status = "running", ![j].attempts = runner[w].attempts + 1]
          /\ RunnerTo(w, "start")
      BY <1>4 DEF Claim, Is
    <2> DEFINE r == [job[j] EXCEPT !.status = "running", !.attempts = runner[w].attempts + 1]
    <2>2. runner[w].attempts + 1 \in Nat
      BY DEF TransfersInv, TransferTypes, RunnerRow
    <2>3. /\ job' = [job EXCEPT ![j] = r]
          /\ r \in JobRow /\ r.status = "running" /\ r.key = job[j].key /\ r.import = job[j].import
      BY <1>2, <2>1, <2>2 DEF TransfersInv, TransferTypes, JobRow, Statuses, ActiveStatus
    <2>4. RowTo(j, "running", job[j].key) /\ job'[j].import = job[j].import
      <3> HIDE DEF r
      <3> QED BY <1>2, <2>3 DEF RowTo, TransfersInv, TransferTypes
    <2>5. StepTo(w, "start", j, NoKey)
      BY <1>2, <2>1, RunnerStep DEF TransfersInv, Steps, ExecutionSteps
    <2>6. j \notin lapsed
      BY <1>4 DEF TransfersInv, LapsedIsOver, Is
    <2>7. OneRetrier /\ Alone =>
            /\ \A v \in Runners : runner[v].job = j => ~Executing(v)
            /\ \A q \in Retriers : retry[q] # j
      <3>1. j # NoJob
        BY <1>2, TransfersAssumption DEF Jobs
      <3> QED BY <1>4, <3>1 DEF Alone, ExecutedIsActive, RetriedIsSettled, Is
    <2> HIDE DEF j, r
    <2> USE <1>1, <1>2, <2>4, <2>5, <2>6 DEF TransfersInv, RowTo, StepTo
    <2>8. TransferTypes'
      BY DEF TransferTypes, RunnerAt
    <2>9. HeldExists'
      BY DEF HeldExists, RunnerAt, Is, TransferTypes
    <2>10. LapsedIsOver'
      BY <1>1, <1>2, <2>4, <2>5, <2>6, LapsedKept
    <2>11. RowsHaveArtifacts'
      BY DEF RowsHaveArtifacts
    <2>12. ExportsAreWritten'
      BY DEF ExportsAreWritten, RunnerAt, TransferTypes
    <2>13. CleansExpired'
      BY DEF CleansExpired
    <2>14. OneRetrier /\ Alone => Alone'
      <3> SUFFICES ASSUME OneRetrier, Alone
                   PROVE  Alone'
        OBVIOUS
      <3>1. ExecutedIsActive'
        BY <1>2, <2>4, <2>5, ActiveKept
      <3>2. OneRunner'
        BY <2>5, <2>7, OneKept
      <3>3. RetriedIsSettled'
        BY <2>7 DEF Alone, RetriedIsSettled, Is, TransferTypes
      <3> QED BY <3>1, <3>2, <3>3 DEF Alone
    <2> QED BY <2>8, <2>9, <2>10, <2>11, <2>12, <2>13, <2>14 DEF Kept
  <1> QED BY <1>3, <1>4

LEMMA CompleteInv ==
    ASSUME TransfersInv, NEW w \in Runners, Complete(w)
    PROVE  Kept
  <1> DEFINE j == runner[w].job
             k == IF job[j].import THEN job[j].key ELSE runner[w].key
             r == [job[j] EXCEPT !.status = "completed", !.key = k]
  <1>1. /\ runner[w].step = "complete"
        /\ job' = [job EXCEPT ![j].status = "completed",
                              ![j].key = IF job[j].import THEN @ ELSE runner[w].key]
        /\ lapsed' = lapsed \ {j}
        /\ RunnerTo(w, "audit")
        /\ UNCHANGED <<artifacts, retry>>
    BY DEF Complete, RunnerAt
  <1>2. Executing(w) /\ j \in Jobs /\ j \notin lapsed
    BY <1>1 DEF TransfersInv, TransferTypes, LapsedIsOver, RunnerAt, Executing
  <1>3. k \in Nat /\ runner[w].key \in Nat
    BY <1>2 DEF TransfersInv, TransferTypes, JobRow, RunnerRow
  <1>4. /\ job' = [job EXCEPT ![j] = r]
        /\ r \in JobRow /\ r.status = "completed" /\ r.key = k /\ r.import = job[j].import
    BY <1>1, <1>2, <1>3 DEF TransfersInv, TransferTypes, JobRow, Statuses, Settled
  <1>5. RowTo(j, "completed", k) /\ job'[j].import = job[j].import
    <2> HIDE DEF r
    <2> QED BY <1>2, <1>4 DEF RowTo, TransfersInv, TransferTypes
  <1>6. StepTo(w, "audit", j, runner[w].key)
    BY <1>1, RunnerStep DEF TransfersInv, Steps, ExecutionSteps
  <1>7. k # NoKey /\ k # job[j].key =>
            /\ k = runner[w].key
            /\ k \in artifacts
            /\ \A i \in Jobs : job[i].key # k
            /\ \A v \in Runners \ {w} : runner[v].key # k
    BY <1>1 DEF TransfersInv, ExportsAreWritten, RunnerAt
  <1>8. lapsed' = lapsed
    BY <1>1, <1>2
  <1> HIDE DEF j, k, r
  <1> USE <1>2, <1>5, <1>6, <1>8 DEF TransfersInv, RowTo, StepTo
  <1>9. TransferTypes'
    BY <1>1 DEF TransferTypes, RunnerAt
  <1>10. HeldExists'
    BY DEF HeldExists, RunnerAt, Is, TransferTypes
  <1>11. LapsedIsOver'
    BY <1>1, <1>2, <1>5, <1>6, <1>8, LapsedKept
  <1>12. RowsHaveArtifacts'
    BY <1>1, <1>7 DEF RowsHaveArtifacts
  <1>13. ExportsAreWritten'
    BY <1>1, <1>7 DEF ExportsAreWritten, RunnerAt, TransferTypes
  <1>14. CleansExpired'
    BY <1>7 DEF CleansExpired
  <1>15. OneRetrier /\ Alone => Alone'
    <2> SUFFICES ASSUME OneRetrier, Alone
                 PROVE  Alone'
      OBVIOUS
    <2>1. ExecutedIsActive'
      BY <1>2, <1>5, <1>6, ActiveKept
    <2>2. OneRunner'
      BY <1>2, <1>6, OneKept DEF j
    <2>3. RetriedIsSettled'
      <3>1. job[j].status \notin {"failed", "cancelled"}
        BY DEF Alone, ExecutedIsActive, Is, j
      <3> QED BY <1>1, <3>1 DEF Alone, RetriedIsSettled, Is, TransferTypes
    <2> QED BY <2>1, <2>2, <2>3 DEF Alone
  <1> QED BY <1>9, <1>10, <1>11, <1>12, <1>13, <1>14, <1>15 DEF Kept

LEMMA StoreInv ==
    ASSUME TransfersInv, NEW w \in Runners, Store(w)
    PROVE  Kept
  <1>1. PICK k \in FreshKeys :
            /\ artifacts' = artifacts \union {k}
            /\ runner' = [runner EXCEPT ![w].step = "complete", ![w].key = k]
    BY DEF Store
  <1> DEFINE j == runner[w].job
             r == [runner[w] EXCEPT !.step = "complete", !.key = k]
  <1>2. /\ Executing(w) /\ j \in Jobs
        /\ UNCHANGED <<job, lapsed, retry>>
    BY DEF Store, RunnerAt, Executing, TransfersInv, TransferTypes
  <1>3. /\ k \in Nat /\ k # NoKey
        /\ \A i \in Jobs : job[i].key # k
        /\ \A v \in Runners : runner[v].key # k
    <2>1. k \in 1..MaxKeys /\ MaxKeys \in Nat
      BY TransfersAssumption DEF FreshKeys
    <2>2. k \in Nat /\ k # NoKey
      BY <2>1 DEF NoKey
    <2> QED BY <1>2, <2>2 DEF FreshKeys
  <1>4. /\ runner' = [runner EXCEPT ![w] = r]
        /\ r \in RunnerRow /\ r.step = "complete" /\ r.job = j /\ r.key = k
    BY <1>1, <1>3 DEF TransfersInv, TransferTypes, RunnerRow, Steps, ExecutionSteps
  <1>5. StepTo(w, "complete", j, k)
    <2>1. StepTo(w, r.step, r.job, r.key)
      BY <1>4, RunnerRead DEF TransfersInv
    <2> QED BY <1>4, <2>1
  <1> HIDE DEF j, r
  <1> USE <1>1, <1>2, <1>3, <1>5 DEF TransfersInv, StepTo
  <1>6. TransferTypes'
    BY DEF TransferTypes, RunnerAt
  <1>7. HeldExists'
    BY DEF HeldExists, RunnerAt, Is, Executing, j
  <1>8. LapsedIsOver'
    <2> SUFFICES ASSUME NEW i \in lapsed, NEW v \in Runners, runner'[v].job = i
                 PROVE  ~Executing(v)'
      BY DEF LapsedIsOver, Is
    <2> QED BY DEF LapsedIsOver, Executing, j
  <1>9. RowsHaveArtifacts'
    BY DEF RowsHaveArtifacts
  <1>10. ExportsAreWritten'
    BY DEF ExportsAreWritten, RunnerAt
  <1>11. CleansExpired'
    BY DEF CleansExpired
  <1>12. OneRetrier /\ Alone => Alone'
    <2> SUFFICES ASSUME Alone
                 PROVE  Alone'
      OBVIOUS
    <2>1. ExecutedIsActive'
      BY DEF Alone, ExecutedIsActive, Executing, Is, j
    <2>2. OneRunner'
      BY OneKept DEF j
    <2>3. RetriedIsSettled'
      BY DEF Alone, RetriedIsSettled, Is
    <2> QED BY <2>1, <2>2, <2>3 DEF Alone
  <1> QED BY <1>6, <1>7, <1>8, <1>9, <1>10, <1>11, <1>12 DEF Kept

LEMMA DeleteArtifactInv ==
    ASSUME TransfersInv, NEW w \in Runners, DeleteArtifact(w)
    PROVE  Kept
  <1> DEFINE j == runner[w].job
             k == runner[w].key
  <1>1. /\ runner[w].step = "delete"
        /\ artifacts' = artifacts \ {k}
        /\ RunnerTo(w, "forget")
        /\ UNCHANGED <<job, lapsed, retry>>
    BY DEF DeleteArtifact, RunnerAt
  <1>2. /\ j \in lapsed /\ j \in Jobs /\ k # NoKey
        /\ \A i \in Jobs : job[i].key = k => i = j
    BY <1>1 DEF TransfersInv, TransferTypes, CleansExpired
  <1>3. StepTo(w, "forget", j, k)
    BY <1>1, RunnerStep DEF TransfersInv, Steps
  <1>4. \A v \in Runners : RunnerAt(v, "complete") => runner[v].key = NoKey \/ runner[v].key # k
    BY <1>1 DEF TransfersInv, ExportsAreWritten, RunnerAt
  <1> HIDE DEF j, k
  <1> USE <1>1, <1>2, <1>3, <1>4 DEF TransfersInv, StepTo
  <1>5. TransferTypes'
    BY DEF TransferTypes, RunnerAt
  <1>6. HeldExists'
    BY DEF HeldExists, LapsedIsOver, RunnerAt, Is
  <1>7. LapsedIsOver'
    <2> SUFFICES ASSUME NEW i \in lapsed, NEW v \in Runners, runner'[v].job = i
                 PROVE  ~Executing(v)'
      BY DEF LapsedIsOver, Is
    <2> QED BY DEF LapsedIsOver, Executing, j
  <1>8. RowsHaveArtifacts'
    BY DEF RowsHaveArtifacts
  <1>9. ExportsAreWritten'
    BY DEF ExportsAreWritten, RunnerAt, j, k
  <1>10. CleansExpired'
    BY DEF CleansExpired
  <1>11. OneRetrier /\ Alone => Alone'
    <2> SUFFICES ASSUME Alone
                 PROVE  Alone'
      OBVIOUS
    <2>1. ExecutedIsActive'
      BY DEF Alone, ExecutedIsActive, Executing, Is
    <2>2. OneRunner'
      <3>1. \A v \in Runners : runner[v].job = j => ~Executing(v)
        BY DEF LapsedIsOver
      <3> QED BY <3>1, OneKept
    <2>3. RetriedIsSettled'
      BY DEF Alone, RetriedIsSettled, Is
    <2> QED BY <2>1, <2>2, <2>3 DEF Alone
  <1> QED BY <1>5, <1>6, <1>7, <1>8, <1>9, <1>10, <1>11 DEF Kept

LEMMA ForgetKeyInv ==
    ASSUME TransfersInv, NEW w \in Runners, ForgetKey(w)
    PROVE  Kept
  <1> DEFINE j == runner[w].job
             r == [job[j] EXCEPT !.key = NoKey]
  <1>1. /\ runner[w].step = "forget"
        /\ job' = [job EXCEPT ![j] = r]
        /\ runner' = [runner EXCEPT ![w] = Between]
        /\ UNCHANGED <<lapsed, artifacts, retry>>
    BY DEF ForgetKey, RunnerAt
  <1>2. j \in Jobs
    BY <1>1 DEF TransfersInv, TransferTypes, RunnerAt
  <1>3. r \in JobRow /\ r.status = job[j].status /\ r.key = NoKey /\ r.import = job[j].import
    BY <1>2 DEF TransfersInv, TransferTypes, JobRow, NoKey
  <1>4. /\ job' \in [Jobs -> JobRow]
        /\ job'[j].key = NoKey
        /\ \A i \in Jobs : job'[i].status = job[i].status /\ job'[i].import = job[i].import
        /\ \A i \in Jobs \ {j} : job'[i].key = job[i].key
    <2> HIDE DEF r
    <2> QED BY <1>1, <1>2, <1>3 DEF TransfersInv, TransferTypes
  <1>5. StepTo(w, "idle", NoJob, NoKey)
    BY <1>1, RunnerIdle DEF TransfersInv
  <1>6. j # NoJob
    BY <1>2, TransfersAssumption DEF Jobs
  <1>7. \A i \in Jobs : Is(i, {"none"})' <=> Is(i, {"none"})
    BY <1>4 DEF Is
  <1>8. UNCHANGED <<lapsed, artifacts, retry>>
    BY <1>1
  <1> HIDE DEF j, r
  <1> USE <1>2, <1>4, <1>5, <1>6, <1>8 DEF TransfersInv, StepTo
  <1>9. TransferTypes'
    BY DEF TransferTypes, RunnerAt
  <1>10. HeldExists'
    BY <1>7 DEF HeldExists, RunnerAt, TransferTypes
  <1>11. LapsedIsOver'
    <2> SUFFICES ASSUME NEW i \in lapsed
                 PROVE  /\ job'[i].status = "completed"
                        /\ \A v \in Runners : runner'[v].job = i => ~Executing(v)'
      BY DEF LapsedIsOver, Is
    <2>1. i \in Jobs
      BY DEF TransferTypes
    <2> QED BY <2>1 DEF LapsedIsOver, Executing, Is
  <1>12. RowsHaveArtifacts'
    BY DEF RowsHaveArtifacts
  <1>13. ExportsAreWritten'
    BY DEF ExportsAreWritten, RunnerAt, TransferTypes
  <1>14. CleansExpired'
    BY DEF CleansExpired, TransferTypes
  <1>15. OneRetrier /\ Alone => Alone'
    <2> SUFFICES ASSUME Alone
                 PROVE  Alone'
      OBVIOUS
    <2>1. ExecutedIsActive'
      <3> SUFFICES ASSUME NEW v \in Runners, Executing(v)'
                   PROVE  job'[runner'[v].job].status \in {"running", "cancel_requested", "completed"}
        BY DEF ExecutedIsActive, Is
      <3>1. runner'[v] = runner[v] /\ Executing(v)
        BY DEF Executing
      <3>2. runner[v].job \in Jobs
        BY <3>1 DEF TransferTypes, RunnerAt, Executing
      <3> QED BY <3>1, <3>2 DEF Alone, ExecutedIsActive, Is
    <2>2. OneRunner'
      <3> SUFFICES ASSUME NEW u \in Runners, NEW v \in Runners,
                          Executing(u)', Executing(v)', runner'[u].job = runner'[v].job
                   PROVE  u = v
        BY DEF OneRunner
      <3>1. u # w /\ v # w
        BY DEF Executing
      <3>2. runner'[u] = runner[u] /\ runner'[v] = runner[v]
        BY <3>1
      <3> QED BY <3>2 DEF Alone, OneRunner, Executing
    <2>3. RetriedIsSettled'
      BY DEF Alone, RetriedIsSettled, Is, TransferTypes
    <2> QED BY <2>1, <2>2, <2>3 DEF Alone
  <1> QED BY <1>9, <1>10, <1>11, <1>12, <1>13, <1>14, <1>15 DEF Kept

-----------------------------------------------------------------------------
(* Every step, and the theorems                                            *)

LEMMA StepKeeps ==
    ASSUME TransfersInv, [TransfersNext]_transferVars
    PROVE  Kept
  <1>1. CASE \E j \in Jobs :
                \/ \E import \in BOOLEAN : Enqueue(j, import)
                \/ Cancel(j)
                \/ Elapsed(j)
                \/ \E q \in Retriers : ReadRetry(q, j)
                \/ \E w \in Runners : SelectExpired(w, j)
    BY <1>1, EnqueueInv, CancelInv, ElapsedInv, ReadRetryInv, SelectExpiredInv
  <1>2. CASE \E q \in Retriers : Requeue(q)
    BY <1>2, RequeueInv
  <1>3. ASSUME NEW w \in Runners, Execute(w)
        PROVE  Kept
    <2>1. CASE Audit(w)
      BY <2>1, StopsInv DEF Audit, RowsKept
    <2> QED
      BY <1>3, <2>1, ProgressInv, StoreInv, CompleteInv, GiveUpInv DEF Execute
  <1>4. ASSUME NEW w \in Runners,
               \/ Select(w) \/ Claim(w) \/ Execute(w)
               \/ DeleteArtifact(w) \/ ForgetKey(w)
               \/ RunKilled(w)
        PROVE  Kept
    <2>1. CASE RunKilled(w)
      BY <2>1, StopsInv DEF RunKilled, RowsKept
    <2> QED
      BY <1>3, <1>4, <2>1, SelectInv, ClaimInv, DeleteArtifactInv, ForgetKeyInv
  <1>5. CASE UNCHANGED transferVars
    <2>1. UNCHANGED <<job, artifacts, runner>> /\ lapsed' = lapsed /\ retry' = retry
      BY <1>5 DEF transferVars
    <2>2. \A i \in lapsed' : /\ job[i].status = "completed"
                             /\ \A q \in Retriers : retry'[q] # i
                             /\ \A w \in Runners : runner[w].job = i => ~Executing(w)
      BY <2>1 DEF TransfersInv, LapsedIsOver, Is
    <2>3. lapsed' \subseteq Jobs /\ retry' \in [Retriers -> Jobs \union {NoJob}]
      BY <2>1 DEF TransfersInv, TransferTypes
    <2> QED BY <2>1, <2>2, <2>3, RetryKeeps
  <1> QED BY <1>1, <1>2, <1>4, <1>5 DEF TransfersNext

LEMMA InitHolds == TransfersInit => TransfersInv /\ Alone
  <1> SUFFICES ASSUME TransfersInit
               PROVE  TransfersInv /\ Alone
    OBVIOUS
  <1>1. NoRow \in JobRow /\ Between \in RunnerRow /\ Between.step = "idle" /\ Between.key = NoKey
    BY DEF NoRow, Between, JobRow, RunnerRow, NoKey, Statuses, Steps
  <1>2. /\ \A j \in Jobs : job[j] = NoRow
        /\ \A w \in Runners : runner[w] = Between
        /\ \A q \in Retriers : retry[q] = NoJob
        /\ lapsed = {} /\ NoRow.key = NoKey
    BY DEF TransfersInit, NoRow
  <1>3. TransferTypes
    BY <1>1, <1>2 DEF TransfersInit, TransferTypes, RunnerAt
  <1>4. HeldExists /\ LapsedIsOver /\ RowsHaveArtifacts /\ ExportsAreWritten /\ CleansExpired
    BY <1>1, <1>2 DEF HeldExists, LapsedIsOver, RowsHaveArtifacts, ExportsAreWritten, CleansExpired, RunnerAt
  <1>5. Alone
    BY <1>1, <1>2 DEF Alone, ExecutedIsActive, OneRunner, RetriedIsSettled, Executing
  <1> QED BY <1>3, <1>4, <1>5 DEF TransfersInv

\* Rows, runs and artifacts keep together whatever customers ask for and however
\* many of them retry (databaseTransferWorker, requestTransferAction).
THEOREM TransfersAreKept == TransfersSpec => []TransfersInv
  <1>1. TransfersInit => TransfersInv
    BY InitHolds
  <1>2. TransfersInv /\ [TransfersNext]_transferVars => TransfersInv'
    BY StepKeeps DEF Kept
  <1> QED BY <1>1, <1>2, PTL DEF TransfersSpec

\* A completed export that has not expired has its artifact: a run that cleans
\* deletes no other one, and a second completion of the job brings its own.
THEOREM DownloadAlwaysExists == TransfersSpec => []DownloadExists
  <1>1. TransfersInv => DownloadExists
    BY DEF TransfersInv, RowsHaveArtifacts, DownloadExists
  <1> QED BY <1>1, TransfersAreKept, PTL

LEMMA OneMember ==
    ASSUME NEW S, \A x, y \in S : x = y
    PROVE  Cardinality(S) <= 1
  <1>1. CASE S = {}
    BY <1>1, FS_EmptySet
  <1>2. CASE S # {}
    <2>1. PICK x \in S : S = {x}
      BY <1>2
    <2> QED BY <2>1, FS_Singleton
  <1> QED BY <1>1, <1>2

\* If the customer waits for the answer to a retry, one run at a time executes a
\* job: it is claimed as 'queued', and what is executed is neither that nor what
\* a retry looks for.
THEOREM OneRunExecutes ==
    ASSUME OneRetrier
    PROVE  TransfersSpec => []OneExecution
  <1>1. TransfersInit => TransfersInv /\ Alone
    BY InitHolds
  <1>2. TransfersInv /\ Alone /\ [TransfersNext]_transferVars => (TransfersInv /\ Alone)'
    BY StepKeeps DEF Kept
  <1>3. TransfersInv /\ Alone => OneExecution
    <2> SUFFICES ASSUME Alone, NEW j \in Jobs
                 PROVE  Cardinality({w \in Runners : runner[w].job = j /\ Executing(w)}) <= 1
      BY DEF OneExecution
    <2> QED BY OneMember DEF Alone, OneRunner
  <1> QED BY <1>1, <1>2, <1>3, PTL DEF TransfersSpec

-----------------------------------------------------------------------------
(* The data of logical databases                                           *)

OpSteps == {"idle", "create", "backup", "restore", "switch", "commit", "drop", "audit",
            "delete", "forget", "failed"}
OpRow == [step : OpSteps, kind : {"none", "create", "rename", "destroy"},
          source : Databases \union {Unused}, target : Databases \union {Unused},
          old : Names \union {"none"}, new : Names \union {"none"},
          copy : Databases \union {Unused}, created : BOOLEAN]

DatabaseTypes ==
    /\ name \in [Databases -> Names \union {"none"}]
    /\ op \in [Clients -> OpRow]

\* The physical database of a name exists and holds a row's data.
Holds(n, d) == Exists(n) /\ engine[n] = d

\* A row that a request is going to insert.
Pending(d) == d \in planned /\ ~Alive(d) /\ d \notin doomed

BeforeSwitch == {"create", "backup", "restore", "switch"}

\* Nothing that a request may still do touches its new database.
Past(r) == op[r].step \notin BeforeSwitch /\ ~op[r].created

Creates(r) ==
    /\ op[r].kind = "create" /\ op[r].step \in {"create", "switch", "commit", "audit"}
    /\ op[r].source = Unused /\ op[r].target \in Databases
    /\ op[r].old = "none" /\ op[r].new \in Names /\ ~op[r].created
    /\ IF op[r].step \in BeforeSwitch THEN Pending(op[r].target)
       ELSE Alive(op[r].target) \/ op[r].target \in doomed
    /\ op[r].step = "switch" /\ op[r].target \notin clashed => Holds(op[r].new, op[r].target)

Renames(r) ==
    /\ op[r].kind = "rename" /\ op[r].step \in BeforeSwitch \union {"drop", "audit", "failed"}
    /\ op[r].source \in Databases /\ op[r].target = op[r].source
    /\ op[r].old \in Names /\ op[r].new \in Names /\ op[r].old # op[r].new
    /\ Alive(op[r].source) \/ op[r].source \in doomed
    /\ op[r].step \in {"drop", "audit"} => ~op[r].created
    /\ op[r].step = "failed" => op[r].created
    /\ op[r].source \notin doomed \union clashed =>
         /\ op[r].step = "restore" => op[r].copy = op[r].source
         /\ op[r].step = "switch" => Holds(op[r].new, op[r].source)

Deletes(r) ==
    /\ op[r].kind = "destroy" /\ op[r].step \in {"delete", "forget", "audit"}
    /\ op[r].source \in Databases /\ op[r].source \in doomed /\ op[r].target = op[r].source
    /\ op[r].old \in Names /\ op[r].new = "none" /\ ~op[r].created

Sound(r) == op[r] = Resting \/ Creates(r) \/ Renames(r) \/ Deletes(r)

\* Two requests insert different rows.  Where the new name of one is also the new
\* name of the other, its row has clashed; where it is the other's old name as
\* well, unless the other began on the row when it already had that name.
PairOK(r, s) ==
    /\ op[r].kind = "create" /\ op[s].kind = "create" => op[r].target # op[s].target
    /\ op[r].new # "none" /\ op[r].new = op[s].new => op[r].target \in clashed
    /\ op[r].new # "none" /\ op[r].new = op[s].old =>
         op[r].target \in clashed \/ (op[r].target = op[s].source /\ Past(r))

\* A live row has a request's new name only after it was given it, or by a clash,
\* and keeps its old name only until the request drops that.
RowOK(r, d) ==
    /\ name[d] = op[r].new =>
         \/ d \in clashed /\ op[r].target \in clashed
         \/ d = op[r].target /\ Past(r)
    /\ name[d] = op[r].old =>
         \/ d \in clashed \union doomed
         \/ d = op[r].source /\ op[r].kind = "rename" /\ op[r].step # "drop"

NamesOnce == \A d, e \in Databases : Alive(d) /\ name[d] = name[e] => d = e

DatabaseInv ==
    /\ DatabaseTypes
    /\ \A r \in Clients : Sound(r)
    /\ \A r, s \in Clients : r # s => PairOK(r, s)
    /\ \A r \in Clients, d \in Databases : Alive(d) => RowOK(r, d)
    /\ NamesOnce
    /\ LossNeedsOverlap

\* Renames replace; clones and moves, which lose data without an overlap, are
\* left out.
NoCopies == Kinds \subseteq {"create", "rename", "destroy"}

-----------------------------------------------------------------------------
(* What a step touches                                                     *)

LEMMA PutOnly ==
    ASSUME NEW n, NEW owner, Put(n, owner)
    PROVE  /\ Holds(n, owner)'
           /\ \A m, d : m # n /\ Holds(m, d) => Holds(m, d)'
  BY DEF Put, Holds, Exists

LEMMA DropOnly ==
    ASSUME NEW n, Drop(n)
    PROVE  \A m, d : m # n /\ Holds(m, d) => Holds(m, d)'
  BY DEF Drop, Holds, Exists

LEMMA SameEngine == UNCHANGED engine => \A m, d : Holds(m, d) => Holds(m, d)'
  BY DEF Holds, Exists

LEMMA RestingRow ==
    /\ Resting \in OpRow /\ Resting.step = "idle" /\ Resting.kind = "none" /\ ~Resting.created
    /\ Resting.source = Unused /\ Resting.target = Unused
    /\ Resting.old = "none" /\ Resting.new = "none"
  BY DEF Resting, OpRow, OpSteps

LEMMA NamesAndRows ==
    /\ "none" \notin Names /\ Unused \notin Databases
    /\ \A d \in Databases : d # Unused
  BY DatabasesAssumption, NamesAssumption DEF Databases

\* The names whose databases a request may still put or drop.
Touched(r) ==
    {n \in Names : \/ n = op[r].new /\ ~Past(r)
                   \/ n = op[r].old /\ (op[r].step = "drop" \/ op[r].kind = "destroy")}

Untouched(r) == \A n \in Names : \A d : n \notin Touched(r) /\ Holds(n, d) => Holds(n, d)'

\* None of these names a row, but where there was a clash,
LEMMA RowsUntouched ==
    ASSUME DatabaseInv, NEW r \in Clients, NEW d \in Databases, Alive(d), d \notin doomed \union clashed
    PROVE  name[d] \in Names /\ name[d] \notin Touched(r) /\ Holds(name[d], d)
  <1>1. name[d] \in Names /\ RowOK(r, d)
    BY DEF DatabaseInv, DatabaseTypes, Alive
  <1>2. name[d] = op[r].new => Past(r)
    BY <1>1 DEF RowOK
  <1>3. name[d] = op[r].old => op[r].kind = "rename" /\ op[r].step # "drop"
    BY <1>1 DEF RowOK
  <1>4. name[d] \notin Touched(r)
    BY <1>2, <1>3 DEF Touched
  <1> QED BY <1>1, <1>4 DEF DatabaseInv, LossNeedsOverlap, HasData, Holds

\* and none is the name under which another one builds.
LEMMA NewUntouched ==
    ASSUME DatabaseInv, NEW r \in Clients, NEW s \in Clients, r # s,
           op[s].new \in Names, op[s].target \notin clashed, ~Past(s)
    PROVE  op[s].new \notin Touched(r)
  <1>1. PairOK(s, r)
    BY DEF DatabaseInv
  <1>2. op[s].new # "none"
    BY NamesAndRows
  <1>3. op[s].new # op[r].new
    BY <1>1, <1>2 DEF PairOK
  <1>4. op[s].new # op[r].old
    BY <1>1, <1>2 DEF PairOK
  <1> QED BY <1>3, <1>4 DEF Touched

-----------------------------------------------------------------------------
(* A request's later steps                                                 *)

LaterSteps(r) ==
    \/ CreatePhysical(r) \/ CreatePhysicalFails(r)
    \/ SafetyBackup(r) \/ Restore(r)
    \/ Switch(r) \/ CommitReservation(r) \/ DropOld(r) \/ Answer(r)
    \/ DropPhysical(r) \/ DeleteRow(r)
    \/ RequestFails(r) \/ Compensate(r) \/ ProcessDies(r)

SameOperation(r) ==
    /\ op'[r].kind = op[r].kind /\ op'[r].source = op[r].source /\ op'[r].target = op[r].target
    /\ op'[r].old = op[r].old /\ op'[r].new = op[r].new

\* It rests or goes on with what it holds, and never gets back to its new database;
\* it drops the old one only once no row names that.
Onward(r) ==
    /\ SameOperation(r)
    /\ Past(r) => Past(r)'
    /\ op'[r].step = "drop" =>
         \A d \in Databases : d = op[r].source /\ name'[d] # "none" => name'[d] # op[r].old

Continues(r) ==
    /\ op' \in [Clients -> OpRow]
    /\ op'[r] = Resting \/ Onward(r)
    /\ \A s \in Clients \ {r} : op'[s] = op[s]
    /\ UNCHANGED <<doomed, clashed>>
    /\ \A d : d \in planned /\ d # op[r].target => d \in planned'

LEMMA GoesToStep ==
    ASSUME DatabaseTypes, NEW r \in Clients, NEW s \in OpSteps, GoTo(r, s)
    PROVE  /\ op' \in [Clients -> OpRow] /\ SameOperation(r)
           /\ op'[r].step = s /\ op'[r].created = op[r].created /\ op'[r].copy = op[r].copy
           /\ \A q \in Clients \ {r} : op'[q] = op[q]
  <1>1. op \in [Clients -> OpRow] /\ op[r] \in OpRow
    BY DEF DatabaseTypes
  <1> DEFINE row == [op[r] EXCEPT !.step = s]
  <1>2. /\ row \in OpRow /\ row.step = s /\ row.created = op[r].created /\ row.copy = op[r].copy
        /\ row.kind = op[r].kind /\ row.source = op[r].source /\ row.target = op[r].target
        /\ row.old = op[r].old /\ row.new = op[r].new
    BY <1>1 DEF OpRow
  <1>3. op' = [op EXCEPT ![r] = row]
    BY DEF GoTo
  <1> HIDE DEF row
  <1> QED BY <1>1, <1>2, <1>3 DEF SameOperation

LEMMA Rests ==
    ASSUME DatabaseTypes, NEW r \in Clients, Rest(r)
    PROVE  /\ op' \in [Clients -> OpRow] /\ op'[r] = Resting
           /\ \A q \in Clients \ {r} : op'[q] = op[q]
           /\ \A d : d \in planned /\ d # op[r].target => d \in planned'
  BY RestingRow DEF Rest, DatabaseTypes

\* A step that changes step and flag.
LEMMA GoesOnFlagged ==
    ASSUME DatabaseTypes, NEW r \in Clients, NEW s \in OpSteps, NEW f \in BOOLEAN,
           op' = [op EXCEPT ![r].step = s, ![r].created = f]
    PROVE  /\ op' \in [Clients -> OpRow] /\ SameOperation(r)
           /\ op'[r].step = s /\ op'[r].created = f
           /\ \A q \in Clients \ {r} : op'[q] = op[q]
  <1>1. op \in [Clients -> OpRow] /\ op[r] \in OpRow
    BY DEF DatabaseTypes
  <1> DEFINE row == [op[r] EXCEPT !.step = s, !.created = f]
  <1>2. /\ row \in OpRow /\ row.step = s /\ row.created = f
        /\ row.kind = op[r].kind /\ row.source = op[r].source /\ row.target = op[r].target
        /\ row.old = op[r].old /\ row.new = op[r].new
    BY <1>1 DEF OpRow
  <1>3. op' = [op EXCEPT ![r] = row]
    BY <1>1
  <1> HIDE DEF row
  <1> QED BY <1>1, <1>2, <1>3 DEF SameOperation

LEMMA GoesOnWithCopy ==
    ASSUME DatabaseTypes, NEW r \in Clients, NEW s \in OpSteps, NEW c \in Databases \union {Unused},
           op' = [op EXCEPT ![r].step = s, ![r].copy = c]
    PROVE  /\ op' \in [Clients -> OpRow] /\ SameOperation(r)
           /\ op'[r].step = s /\ op'[r].created = op[r].created /\ op'[r].copy = c
           /\ \A q \in Clients \ {r} : op'[q] = op[q]
  <1>1. op \in [Clients -> OpRow] /\ op[r] \in OpRow
    BY DEF DatabaseTypes
  <1> DEFINE row == [op[r] EXCEPT !.step = s, !.copy = c]
  <1>2. /\ row \in OpRow /\ row.step = s /\ row.created = op[r].created /\ row.copy = c
        /\ row.kind = op[r].kind /\ row.source = op[r].source /\ row.target = op[r].target
        /\ row.old = op[r].old /\ row.new = op[r].new
    BY <1>1 DEF OpRow
  <1>3. op' = [op EXCEPT ![r] = row]
    BY <1>1
  <1> HIDE DEF row
  <1> QED BY <1>1, <1>2, <1>3 DEF SameOperation

\* What a request is doing follows from its step.
LEMMA KindOfStep ==
    ASSUME DatabaseInv, NEW r \in Clients
    PROVE  /\ DatabaseTypes /\ Sound(r)
           /\ op[r].step \in {"create", "switch"} => Creates(r) \/ Renames(r)
           /\ op[r].step \in {"backup", "restore", "drop", "failed"} => Renames(r)
           /\ op[r].step = "commit" => Creates(r)
           /\ op[r].step \in {"delete", "forget"} => Deletes(r)
           /\ op[r].step # "idle" => Creates(r) \/ Renames(r) \/ Deletes(r)
  <1>1. DatabaseTypes /\ Sound(r)
    BY DEF DatabaseInv
  <1>2. op[r].step # "idle" => Creates(r) \/ Renames(r) \/ Deletes(r)
    BY <1>1, RestingRow DEF Sound
  <1>3. op[r].step \in {"create", "backup", "restore", "switch", "commit", "drop", "failed"} => ~Deletes(r)
    BY DEF Deletes
  <1>4. op[r].step \in {"backup", "restore", "drop", "failed", "delete", "forget"} => ~Creates(r)
    BY DEF Creates
  <1>5. op[r].step \in {"commit", "delete", "forget"} => ~Renames(r)
    BY DEF Renames, BeforeSwitch
  <1> QED BY <1>1, <1>2, <1>3, <1>4, <1>5

LEMMA RestContinues ==
    ASSUME DatabaseInv, NEW r \in Clients, Rest(r), UNCHANGED <<doomed, clashed>>
    PROVE  Continues(r) /\ Sound(r)'
  <1>1. /\ op' \in [Clients -> OpRow] /\ op'[r] = Resting
        /\ \A q \in Clients \ {r} : op'[q] = op[q]
        /\ \A d : d \in planned /\ d # op[r].target => d \in planned'
    BY KindOfStep, Rests
  <1> QED BY <1>1 DEF Continues, Sound

LEMMA CreateContinues ==
    ASSUME DatabaseInv, NEW r \in Clients, CreatePhysical(r)
    PROVE  Continues(r) /\ Sound(r)'
  <1>1. /\ op[r].step = "create" /\ (Creates(r) \/ Renames(r)) /\ DatabaseTypes
        /\ UNCHANGED name /\ UNCHANGED planned /\ UNCHANGED doomed /\ UNCHANGED clashed
    BY KindOfStep DEF CreatePhysical, AtStep
  <1>2. ~Past(r)
    BY <1>1 DEF Past, BeforeSwitch
  <1>3. CASE Creates(r)
    <2>1. GoTo(r, "switch") /\ Put(op[r].new, op[r].target)
      BY <1>3 DEF CreatePhysical, Creates
    <2>2. /\ op' \in [Clients -> OpRow] /\ SameOperation(r) /\ op'[r].step = "switch"
          /\ op'[r].created = op[r].created /\ \A q \in Clients \ {r} : op'[q] = op[q]
      BY <1>1, <2>1, GoesToStep DEF OpSteps
    <2>3. op[r].new \in DOMAIN engine' /\ engine'[op[r].new] = op[r].target
      BY <2>1 DEF Put
    <2>4. Creates(r)'
      BY <1>1, <1>3, <2>2, <2>3
         DEF Creates, SameOperation, Pending, Alive, Holds, Exists, BeforeSwitch
    <2> QED BY <1>1, <1>2, <2>2, <2>4 DEF Sound, Continues, Onward
  <1>4. CASE Renames(r)
    <2>1. op' = [op EXCEPT ![r].step = "backup", ![r].created = TRUE]
      BY <1>4 DEF CreatePhysical, Renames
    <2>2. /\ op' \in [Clients -> OpRow] /\ SameOperation(r) /\ op'[r].step = "backup"
          /\ op'[r].created = TRUE /\ \A q \in Clients \ {r} : op'[q] = op[q]
      BY <1>1, <2>1, GoesOnFlagged DEF OpSteps
    <2>3. Renames(r)'
      BY <1>1, <1>4, <2>2 DEF Renames, SameOperation, Alive, BeforeSwitch
    <2> QED BY <1>1, <1>2, <2>2, <2>3 DEF Sound, Continues, Onward
  <1> QED BY <1>1, <1>3, <1>4

LEMMA BackupContinues ==
    ASSUME DatabaseInv, NEW r \in Clients, SafetyBackup(r)
    PROVE  Continues(r) /\ Sound(r)'
  <1>1. /\ op[r].step = "backup" /\ Renames(r) /\ DatabaseTypes
        /\ UNCHANGED name /\ UNCHANGED planned /\ UNCHANGED doomed /\ UNCHANGED clashed
    BY KindOfStep DEF SafetyBackup, AtStep
  <1>2. op[r].source \in Databases /\ op[r].target = op[r].source /\ Alive(op[r].source) /\ ~Past(r)
    BY <1>1 DEF SafetyBackup, Renames, Past, BeforeSwitch
  <1>3. op[r].source \notin doomed \union clashed => Holds(name[op[r].source], op[r].source)
    BY <1>2 DEF DatabaseInv, LossNeedsOverlap, HasData, Holds
  <1>4. PICK c \in Databases \union {Unused} :
          /\ op' = [op EXCEPT ![r].step = "restore", ![r].copy = c]
          /\ op[r].source \notin doomed \union clashed => c = op[r].source
    BY <1>2, <1>3 DEF SafetyBackup, Holds
  <1>5. /\ op' \in [Clients -> OpRow] /\ SameOperation(r) /\ op'[r].step = "restore"
        /\ op'[r].copy = c /\ op'[r].created = op[r].created
        /\ \A q \in Clients \ {r} : op'[q] = op[q]
    BY <1>1, <1>4, GoesOnWithCopy DEF OpSteps
  <1>6. Renames(r)'
    BY <1>1, <1>4, <1>5 DEF Renames, SameOperation, Alive, BeforeSwitch
  <1> QED BY <1>1, <1>2, <1>5, <1>6 DEF Sound, Continues, Onward

LEMMA RestoreContinues ==
    ASSUME DatabaseInv, NEW r \in Clients, Restore(r)
    PROVE  Continues(r) /\ Sound(r)'
  <1>1. /\ op[r].step = "restore" /\ Renames(r) /\ DatabaseTypes
        /\ UNCHANGED name /\ UNCHANGED planned /\ UNCHANGED doomed /\ UNCHANGED clashed
    BY KindOfStep DEF Restore, AtStep
  <1>2. ~Past(r)
    BY <1>1 DEF Past, BeforeSwitch
  <1>3. /\ op' \in [Clients -> OpRow] /\ SameOperation(r) /\ op'[r].step = "switch"
        /\ op'[r].created = op[r].created /\ \A q \in Clients \ {r} : op'[q] = op[q]
    BY <1>1, GoesToStep DEF Restore, OpSteps
  <1>4. op[r].new \in DOMAIN engine' /\ engine'[op[r].new] = op[r].copy
    BY DEF Restore, Put
  <1>5. Renames(r)'
    BY <1>1, <1>3, <1>4 DEF Renames, SameOperation, Alive, BeforeSwitch, Holds, Exists
  <1> QED BY <1>1, <1>2, <1>3, <1>5 DEF Sound, Continues, Onward

\* The row transaction.  A renamed row that is written gets its new name, and the
\* old one names no row then.
LEMMA SwitchContinues ==
    ASSUME DatabaseInv, NEW r \in Clients, Switch(r)
    PROVE  Continues(r) /\ Sound(r)' /\ SameOperation(r) /\ ~Past(r) /\ Past(r)'
  <1>1. /\ op[r].step = "switch" /\ (Creates(r) \/ Renames(r)) /\ DatabaseTypes
        /\ name' = Renamed(r) /\ planned' = planned \ {op[r].target}
        /\ UNCHANGED doomed /\ UNCHANGED clashed
    BY KindOfStep DEF Switch, AtStep
  <1>2. name \in [Databases -> Names \union {"none"}] /\ "none" \notin Names /\ ~Past(r)
    BY <1>1, NamesAndRows DEF DatabaseTypes, Past, BeforeSwitch
  <1>3. CASE Creates(r)
    <2>1. op' = [op EXCEPT ![r].step = "commit", ![r].created = FALSE]
      <3>1. op \in [Clients -> OpRow] /\ op[r] \in OpRow /\ op[r].created = FALSE /\ op[r].kind # "rename"
        BY <1>1, <1>3 DEF DatabaseTypes, Creates, OpRow
      <3> QED BY <3>1 DEF Switch, OpRow
    <2>2. /\ op' \in [Clients -> OpRow] /\ SameOperation(r) /\ op'[r].step = "commit"
          /\ op'[r].created = FALSE /\ \A q \in Clients \ {r} : op'[q] = op[q]
      BY <1>1, <2>1, GoesOnFlagged DEF OpSteps
    <2>3. name'[op[r].target] = op[r].new
      BY <1>1, <1>2, <1>3 DEF Creates, Renamed, Writes
    <2>4. Creates(r)'
      BY <1>1, <1>2, <1>3, <2>2, <2>3 DEF Creates, SameOperation, Alive, BeforeSwitch
    <2>5. Past(r)'
      BY <2>2 DEF Past, BeforeSwitch
    <2> QED BY <1>1, <1>2, <2>2, <2>4, <2>5 DEF Sound, Continues, Onward
  <1>4. CASE Renames(r)
    <2>1. op' = [op EXCEPT ![r].step = "drop", ![r].created = FALSE]
      BY <1>4 DEF Switch, Renames
    <2>2. /\ op' \in [Clients -> OpRow] /\ SameOperation(r) /\ op'[r].step = "drop"
          /\ op'[r].created = FALSE /\ \A q \in Clients \ {r} : op'[q] = op[q]
      BY <1>1, <2>1, GoesOnFlagged DEF OpSteps
    <2>3. /\ name'[op[r].source] \in {"none", op[r].new}
          /\ Alive(op[r].source) => name'[op[r].source] # "none"
      <3>1. CASE Writes(r)
        BY <1>1, <1>2, <1>4, <3>1 DEF Renames, Renamed, Alive
      <3>2. CASE ~Writes(r)
        BY <1>1, <1>4, <3>2 DEF Renames, Renamed, Writes, Alive
      <3> QED BY <3>1, <3>2
    <2>4. Renames(r)'
      BY <1>1, <1>4, <2>2, <2>3 DEF Renames, SameOperation, Alive, BeforeSwitch
    <2>5. Past(r)'
      BY <2>2 DEF Past, BeforeSwitch
    <2>6. Onward(r)
      BY <1>2, <1>4, <2>2, <2>3 DEF Onward, Renames
    <2> QED BY <1>1, <1>2, <2>2, <2>4, <2>5, <2>6 DEF Sound, Continues
  <1> QED BY <1>1, <1>3, <1>4

LEMMA CommitContinues ==
    ASSUME DatabaseInv, NEW r \in Clients, CommitReservation(r)
    PROVE  Continues(r) /\ Sound(r)'
  <1>1. /\ op[r].step = "commit" /\ Creates(r) /\ DatabaseTypes
        /\ UNCHANGED name /\ UNCHANGED planned /\ UNCHANGED doomed /\ UNCHANGED clashed
    BY KindOfStep DEF CommitReservation, AtStep
  <1>2. op' = [op EXCEPT ![r].step = "audit", ![r].created = FALSE]
    <2>1. op \in [Clients -> OpRow] /\ op[r] \in OpRow /\ op[r].created = FALSE /\ op[r].kind # "move"
      BY <1>1 DEF DatabaseTypes, Creates, OpRow
    <2> QED BY <2>1 DEF CommitReservation, OpRow
  <1>3. /\ op' \in [Clients -> OpRow] /\ SameOperation(r) /\ op'[r].step = "audit"
        /\ op'[r].created = FALSE /\ \A q \in Clients \ {r} : op'[q] = op[q]
    BY <1>1, <1>2, GoesOnFlagged DEF OpSteps
  <1>4. Creates(r)' /\ Past(r)'
    BY <1>1, <1>3 DEF Creates, SameOperation, Alive, BeforeSwitch, Past
  <1> QED BY <1>1, <1>3, <1>4 DEF Sound, Continues, Onward

LEMMA DropOldContinues ==
    ASSUME DatabaseInv, NEW r \in Clients, DropOld(r)
    PROVE  Continues(r) /\ Sound(r)'
  <1>1. /\ op[r].step = "drop" /\ Renames(r) /\ DatabaseTypes /\ GoTo(r, "audit")
        /\ UNCHANGED name /\ UNCHANGED planned /\ UNCHANGED doomed /\ UNCHANGED clashed
    BY KindOfStep DEF DropOld, AtStep
  <1>2. /\ op' \in [Clients -> OpRow] /\ SameOperation(r) /\ op'[r].step = "audit"
        /\ op'[r].created = op[r].created /\ \A q \in Clients \ {r} : op'[q] = op[q]
    BY <1>1, GoesToStep DEF OpSteps
  <1>3. Renames(r)' /\ Past(r)'
    BY <1>1, <1>2 DEF Renames, SameOperation, Alive, BeforeSwitch, Past
  <1> QED BY <1>1, <1>2, <1>3 DEF Sound, Continues, Onward

LEMMA DropContinues ==
    ASSUME DatabaseInv, NEW r \in Clients, DropPhysical(r) \/ DeleteRow(r)
    PROVE  Continues(r) /\ Sound(r)'
  <1>1. /\ op[r].step \in {"delete", "forget"} /\ Deletes(r) /\ DatabaseTypes
        /\ UNCHANGED planned /\ UNCHANGED doomed /\ UNCHANGED clashed
    BY KindOfStep DEF DropPhysical, DeleteRow, AtStep
  <1>2. PICK s \in {"forget", "audit"} : GoTo(r, s)
    BY DEF DropPhysical, DeleteRow
  <1>3. /\ op' \in [Clients -> OpRow] /\ SameOperation(r) /\ op'[r].step = s
        /\ op'[r].created = op[r].created /\ \A q \in Clients \ {r} : op'[q] = op[q]
    BY <1>1, <1>2, GoesToStep DEF OpSteps
  <1>4. Deletes(r)' /\ Past(r)' /\ op'[r].step # "drop"
    BY <1>1, <1>3 DEF Deletes, SameOperation, BeforeSwitch, Past
  <1> QED BY <1>1, <1>3, <1>4 DEF Sound, Continues, Onward

LEMMA FailureContinues ==
    ASSUME DatabaseInv, NEW r \in Clients, RequestFails(r)
    PROVE  Continues(r) /\ Sound(r)'
  <1>1. CASE op[r].created
    <2>1. /\ op[r].step \notin {"idle", "create", "drop"} /\ DatabaseTypes /\ GoTo(r, "failed")
          /\ UNCHANGED name /\ UNCHANGED planned /\ UNCHANGED doomed /\ UNCHANGED clashed
      BY <1>1, KindOfStep DEF RequestFails
    <2>2. Renames(r)
      BY <1>1, <2>1, KindOfStep DEF Creates, Deletes
    <2>3. /\ op' \in [Clients -> OpRow] /\ SameOperation(r) /\ op'[r].step = "failed"
          /\ op'[r].created = op[r].created /\ \A q \in Clients \ {r} : op'[q] = op[q]
      BY <2>1, GoesToStep DEF OpSteps
    <2>4. Renames(r)' /\ ~Past(r)
      BY <1>1, <2>1, <2>2, <2>3 DEF Renames, SameOperation, Alive, BeforeSwitch, Past
    <2> QED BY <2>1, <2>3, <2>4 DEF Sound, Continues, Onward
  <1>2. CASE ~op[r].created
    BY <1>2, RestContinues DEF RequestFails
  <1> QED BY <1>1, <1>2

LEMMA LaterStep ==
    ASSUME DatabaseInv, NEW r \in Clients, LaterSteps(r)
    PROVE  Continues(r) /\ Sound(r)'
  <1>1. CASE CreatePhysicalFails(r) \/ Answer(r) \/ Compensate(r) \/ ProcessDies(r)
    BY <1>1, RestContinues DEF CreatePhysicalFails, Answer, Compensate, ProcessDies
  <1> QED BY <1>1, CreateContinues, BackupContinues, RestoreContinues, SwitchContinues, CommitContinues,
             DropOldContinues, DropContinues, FailureContinues DEF LaterSteps

LEMMA LaterUntouched ==
    ASSUME DatabaseInv, NEW r \in Clients, LaterSteps(r)
    PROVE  Untouched(r)
  <1>1. CASE CreatePhysical(r) \/ CreatePhysicalFails(r) \/ Restore(r)
    <2>1. ~Past(r)
      BY <1>1 DEF CreatePhysical, CreatePhysicalFails, Restore, AtStep, Past, BeforeSwitch
    <2>2. \A n \in Names : n \notin Touched(r) => n # op[r].new
      BY <2>1 DEF Touched
    <2>3. UNCHANGED engine \/ Drop(op[r].new) \/ \E owner : Put(op[r].new, owner)
      BY <1>1 DEF CreatePhysical, CreatePhysicalFails, Restore
    <2> QED BY <2>2, <2>3, SameEngine, DropOnly, PutOnly DEF Untouched
  <1>2. CASE Compensate(r)
    <2>1. ~Past(r)
      BY <1>2, KindOfStep DEF Compensate, AtStep, Renames, Past
    <2>2. \A n \in Names : n \notin Touched(r) => n # op[r].new
      BY <2>1 DEF Touched
    <2> QED BY <1>2, <2>2, SameEngine, DropOnly DEF Compensate, Untouched
  <1>3. CASE DropOld(r) \/ DropPhysical(r)
    <2>1. op[r].step = "drop" \/ op[r].kind = "destroy"
      BY <1>3, KindOfStep DEF DropOld, DropPhysical, AtStep, Deletes
    <2>2. \A n \in Names : n \notin Touched(r) => n # op[r].old
      BY <2>1 DEF Touched
    <2> QED BY <1>3, <2>2, SameEngine, DropOnly DEF DropOld, DropPhysical, Untouched
  <1>4. CASE UNCHANGED engine
    BY <1>4, SameEngine DEF Untouched
  <1> QED BY <1>1, <1>2, <1>3, <1>4
          DEF LaterSteps, SafetyBackup, Switch, CommitReservation, Answer, DeleteRow, RequestFails, ProcessDies

\* What a later step does to the rows.
Given(r) == {d \in Databases : d = op[r].target /\ name'[d] = op[r].new}

LEMMA LaterNames ==
    ASSUME DatabaseInv, NEW r \in Clients, LaterSteps(r)
    PROVE  /\ name \in [Databases -> Names \union {"none"}] /\ name' \in [Databases -> Names \union {"none"}]
           /\ \A d \in Databases : d # op[r].target => name'[d] = name[d]
           /\ \A d \in Databases : Alive(d) /\ d \notin doomed => name'[d] # "none"
           /\ \A d \in Databases : name'[d] \in {name[d], "none"} \/ (Switch(r) /\ d \in Given(r))
  <1>1. name \in [Databases -> Names \union {"none"}] /\ "none" \notin Names
    BY NamesAndRows DEF DatabaseInv, DatabaseTypes
  <1>2. CASE Switch(r)
    <2>1. /\ op[r].target \in Databases /\ op[r].new \in Names
          /\ name' = name \/ name' = [name EXCEPT ![op[r].target] = op[r].new]
      BY <1>2, KindOfStep DEF Switch, AtStep, Creates, Renames, Renamed
    <2> QED BY <1>1, <1>2, <2>1 DEF Given, Alive
  <1>3. CASE DeleteRow(r)
    <2>1. /\ op[r].source \in Databases /\ op[r].source \in doomed /\ op[r].target = op[r].source
          /\ name' = [name EXCEPT ![op[r].source] = "none"]
      BY <1>3, KindOfStep DEF DeleteRow, AtStep, Deletes
    <2>2. \A d \in Databases : name'[d] \in {name[d], "none"} /\ (d # op[r].target => name'[d] = name[d])
      BY <1>1, <2>1
    <2>3. \A d \in Databases : Alive(d) /\ d \notin doomed => name'[d] # "none"
      BY <1>1, <2>1, <2>2 DEF Alive
    <2>4. name' \in [Databases -> Names \union {"none"}]
      BY <1>1, <2>1
    <2> QED BY <1>1, <2>2, <2>3, <2>4
  <1>4. CASE UNCHANGED name
    BY <1>1, <1>4 DEF Alive
  <1> QED BY <1>2, <1>3, <1>4
          DEF LaterSteps, CreatePhysical, CreatePhysicalFails, SafetyBackup, Restore, CommitReservation,
              DropOld, Answer, DropPhysical, RequestFails, Compensate, ProcessDies

\* The row another request is going to insert is its own.
LEMMA PendingApart ==
    ASSUME DatabaseInv, NEW r \in Clients, NEW s \in Clients, r # s,
           Creates(s), Pending(op[s].target)
    PROVE  op[r].target # op[s].target
  <1>1. Sound(r) /\ PairOK(s, r) /\ op[s].target \in Databases /\ op[s].kind = "create"
    BY DEF DatabaseInv, Creates
  <1>2. CASE op[r] = Resting
    BY <1>1, <1>2, RestingRow, NamesAndRows
  <1>3. CASE Creates(r)
    BY <1>1, <1>3 DEF Creates, PairOK
  <1>4. CASE Renames(r) \/ Deletes(r)
    BY <1>4 DEF Renames, Deletes, Pending
  <1> QED BY <1>1, <1>2, <1>3, <1>4 DEF Sound

LEMMA OthersSound ==
    ASSUME DatabaseInv, NEW r \in Clients, NEW s \in Clients, r # s, LaterSteps(r)
    PROVE  Sound(s)'
  <1>1. /\ op'[s] = op[s] /\ UNCHANGED doomed /\ UNCHANGED clashed /\ Sound(s)
        /\ \A d : d \in planned /\ d # op[r].target => d \in planned'
    BY LaterStep DEF Continues, DatabaseInv
  <1>2. op[s].new \in Names /\ op[s].target \notin clashed /\ op[s].step = "switch" =>
          \A d : Holds(op[s].new, d) => op[s].new \in DOMAIN engine' /\ engine'[op[s].new] = d
    <2>1. PICK n : n = op[s].new
      OBVIOUS
    <2>2. op[s].step = "switch" => ~Past(s)
      BY DEF Past, BeforeSwitch
    <2>3. n \in Names /\ op[s].target \notin clashed /\ op[s].step = "switch" =>
            \A d : Holds(n, d) => Holds(n, d)'
      BY <2>1, <2>2, NewUntouched, LaterUntouched DEF Untouched
    <2> QED BY <2>1, <2>3 DEF Holds, Exists
  <1>3. CASE op[s] = Resting
    BY <1>1, <1>3 DEF Sound
  <1>4. CASE Creates(s)
    <2>1. CASE op[s].step \in BeforeSwitch
      <3>1. Pending(op[s].target) /\ op[r].target # op[s].target /\ op[s].target \in Databases
        BY <1>4, <2>1, PendingApart DEF Creates
      <3>2. op[s].target \in planned' /\ name'[op[s].target] = "none" /\ op[s].target \notin doomed
        BY <1>1, <3>1, LaterNames DEF Pending, Alive
      <3>3. Creates(s)'
        BY <1>1, <1>2, <1>4, <2>1, <3>2 DEF Creates, Pending, Alive, Holds, Exists
      <3> QED BY <3>3 DEF Sound
    <2>2. CASE op[s].step \notin BeforeSwitch
      <3>1. name'[op[s].target] # "none" \/ op[s].target \in doomed
        BY <1>4, <2>2, LaterNames DEF Creates
      <3>2. op[s].step # "switch"
        BY <2>2 DEF BeforeSwitch
      <3>3. Creates(s)'
        BY <1>1, <1>4, <2>2, <3>1, <3>2 DEF Creates, Alive
      <3> QED BY <3>3 DEF Sound
    <2> QED BY <2>1, <2>2
  <1>5. CASE Renames(s)
    <2>1. name'[op[s].source] # "none" \/ op[s].source \in doomed
      BY <1>5, LaterNames DEF Renames
    <2>2. Renames(s)'
      BY <1>1, <1>2, <1>5, <2>1 DEF Renames, Alive, Holds, Exists
    <2> QED BY <2>2 DEF Sound
  <1>6. CASE Deletes(s)
    BY <1>1, <1>6 DEF Deletes, Sound
  <1> QED BY <1>1, <1>3, <1>4, <1>5, <1>6 DEF Sound

\* What two requests hold, and when they got it, does not change.
LEMMA PairsKept ==
    ASSUME DatabaseInv, NEW r \in Clients, LaterSteps(r),
           NEW s \in Clients, NEW q \in Clients, s # q
    PROVE  PairOK(s, q)'
  <1>1. /\ op'[r] = Resting \/ Onward(r)
        /\ \A t \in Clients \ {r} : op'[t] = op[t]
        /\ UNCHANGED clashed /\ PairOK(s, q)
    BY LaterStep DEF Continues, DatabaseInv
  <1>2. CASE s # r /\ q # r
    BY <1>1, <1>2 DEF PairOK, Past
  <1>3. CASE s = r
    <2>1. CASE op'[r] = Resting
      <3>1. op'[s].kind = "none" /\ op'[s].new = "none"
        BY <1>3, <2>1, RestingRow
      <3> QED BY <3>1 DEF PairOK
    <2>2. CASE Onward(r)
      <3>1. op'[q] = op[q] /\ (Past(q) => Past(q)')
        BY <1>1, <1>3 DEF Past
      <3> QED BY <1>1, <1>3, <2>2, <3>1 DEF PairOK, Onward, SameOperation
    <2> QED BY <1>1, <2>1, <2>2
  <1>4. CASE q = r
    <2>1. op'[s] = op[s]
      BY <1>1, <1>4
    <2>2. CASE op'[r] = Resting
      <3>1. op'[q].kind = "none" /\ op'[q].new = "none" /\ op'[q].old = "none"
        BY <1>4, <2>2, RestingRow
      <3> QED BY <3>1 DEF PairOK
    <2>3. CASE Onward(r)
      <3>1. Past(s) => Past(s)'
        BY <2>1 DEF Past
      <3> QED BY <1>1, <1>4, <2>1, <2>3, <3>1 DEF PairOK, Onward, SameOperation
    <2> QED BY <1>1, <2>2, <2>3
  <1> QED BY <1>2, <1>3, <1>4

\* A row that keeps its name keeps its place among the requests,
LEMMA KeptRowsKept ==
    ASSUME DatabaseInv, NEW r \in Clients, LaterSteps(r), NEW s \in Clients, NEW d \in Databases,
           name'[d] = name[d], name[d] # "none"
    PROVE  RowOK(s, d)'
  <1>1. /\ op'[r] = Resting \/ Onward(r)
        /\ \A t \in Clients \ {r} : op'[t] = op[t]
        /\ UNCHANGED clashed /\ UNCHANGED doomed /\ RowOK(s, d)
    BY LaterStep DEF Continues, DatabaseInv, Alive
  <1>2. CASE s # r
    BY <1>1, <1>2 DEF RowOK, Past
  <1>3. CASE s = r /\ op'[r] = Resting
    <2>1. op'[s].new = "none" /\ op'[s].old = "none"
      BY <1>3, RestingRow
    <2> QED BY <2>1 DEF RowOK
  <1>4. CASE s = r /\ Onward(r)
    <2>1. name'[d] = op'[r].new =>
            \/ d \in clashed' /\ op'[r].target \in clashed'
            \/ d = op'[r].target /\ Past(r)'
      BY <1>1, <1>4 DEF RowOK, Onward, SameOperation
    <2>2. name'[d] = op'[r].old =>
            \/ d \in clashed' \union doomed'
            \/ d = op'[r].source /\ op'[r].kind = "rename" /\ op'[r].step # "drop"
      BY <1>1, <1>4 DEF RowOK, Onward, SameOperation
    <2> QED BY <1>4, <2>1, <2>2 DEF RowOK
  <1> QED BY <1>1, <1>2, <1>3, <1>4

\* and one that is given its new name takes its place.
LEMMA GivenRowsKept ==
    ASSUME DatabaseInv, NEW r \in Clients, Switch(r), NEW s \in Clients, NEW d \in Given(r)
    PROVE  RowOK(s, d)'
  <1>1. /\ SameOperation(r) /\ ~Past(r) /\ Past(r)'
        /\ \A t \in Clients \ {r} : op'[t] = op[t]
        /\ UNCHANGED clashed /\ UNCHANGED doomed
        /\ d = op[r].target /\ name'[d] = op[r].new
    BY SwitchContinues DEF Continues, Given
  <1>2. op[r].new \in Names /\ op[r].new # op[r].old /\ op[r].new # "none"
    BY KindOfStep, NamesAndRows DEF Switch, AtStep, Creates, Renames
  <1>3. CASE s = r
    BY <1>1, <1>2, <1>3 DEF RowOK, SameOperation
  <1>4. CASE s # r
    <2>1. PairOK(s, r) /\ PairOK(r, s) /\ op'[s] = op[s]
      BY <1>1, <1>4 DEF DatabaseInv
    <2>2. op[r].new = op[s].new => d \in clashed /\ op[s].target \in clashed
      BY <1>1, <1>2, <2>1 DEF PairOK
    <2>3. op[r].new = op[s].old => d \in clashed
      BY <1>1, <1>2, <2>1 DEF PairOK
    <2> QED BY <1>1, <2>1, <2>2, <2>3 DEF RowOK
  <1> QED BY <1>3, <1>4

LEMMA LaterKeeps ==
    ASSUME DatabaseInv, NEW r \in Clients, LaterSteps(r)
    PROVE  DatabaseInv'
  <1>1. /\ name \in [Databases -> Names \union {"none"}] /\ "none" \notin Names
        /\ NamesOnce /\ UNCHANGED doomed /\ UNCHANGED clashed
    BY LaterStep, NamesAndRows DEF DatabaseInv, DatabaseTypes, Continues
  <1>2. DatabaseTypes'
    BY LaterStep, LaterNames DEF Continues, DatabaseTypes
  <1>3. \A s \in Clients : Sound(s)'
    BY LaterStep, OthersSound
  <1>4. \A s, q \in Clients : s # q => PairOK(s, q)'
    BY PairsKept
  <1>5. ASSUME NEW s \in Clients, NEW d \in Databases, name'[d] # "none" PROVE RowOK(s, d)'
    <2>1. name'[d] = name[d] \/ (Switch(r) /\ d \in Given(r))
      BY <1>5, LaterNames
    <2> QED BY <1>5, <2>1, KeptRowsKept, GivenRowsKept
  <1>6. NamesOnce'
    <2> SUFFICES ASSUME NEW d \in Databases, NEW e \in Databases,
                        name'[d] # "none", name'[d] = name'[e]
                 PROVE  d = e
      BY DEF NamesOnce, Alive
    <2>1. CASE name'[d] = name[d] /\ name'[e] = name[e]
      BY <1>1, <2>1 DEF NamesOnce, Alive
    <2>2. CASE Switch(r) /\ (d \in Given(r) \/ e \in Given(r))
      <3>1. op[r].target \in Databases /\ name' = Renamed(r) /\ ~NameConflict(r)
        BY <2>2, KindOfStep DEF Switch, AtStep, Creates, Renames
      <3>2. CASE Writes(r)
        BY <1>1, <2>2, <3>1, <3>2 DEF Renamed, NameConflict, Given
      <3>3. CASE ~Writes(r)
        BY <1>1, <3>1, <3>3 DEF Renamed, NamesOnce, Alive
      <3> QED BY <3>2, <3>3
    <2> QED BY <2>1, <2>2, LaterNames
  <1>7. ASSUME NEW d \in Databases, name'[d] # "none", d \notin doomed \union clashed
        PROVE  name'[d] \in DOMAIN engine' /\ engine'[name'[d]] = d
    <2>1. CASE name'[d] = name[d]
      <3>1. PICK n \in Names : n = name[d] /\ n \notin Touched(r) /\ Holds(n, d)
        BY <1>7, <2>1, RowsUntouched DEF Alive
      <3>2. Holds(n, d)'
        BY <3>1, LaterUntouched DEF Untouched
      <3> QED BY <2>1, <3>1, <3>2 DEF Holds, Exists
    <2>2. CASE Switch(r) /\ d \in Given(r)
      <3>1. /\ op[r].step = "switch" /\ UNCHANGED engine /\ d = op[r].target /\ name'[d] = op[r].new
            /\ Creates(r) \/ Renames(r)
        BY <2>2, KindOfStep DEF Switch, AtStep, Given
      <3>2. Holds(op[r].new, d)
        BY <1>7, <3>1 DEF Creates, Renames
      <3> QED BY <3>1, <3>2 DEF Holds, Exists
    <2> QED BY <1>7, <2>1, <2>2, LaterNames
  <1>8. LossNeedsOverlap'
    BY <1>1, <1>7 DEF LossNeedsOverlap, HasData, Exists, Alive
  <1> QED BY <1>2, <1>3, <1>4, <1>5, <1>6, <1>8 DEF DatabaseInv, Alive

-----------------------------------------------------------------------------
(* Requests                                                                *)

\* A request begins: only the marks of a row that nobody holds are cleared.
Begins(r) ==
    /\ op' \in [Clients -> OpRow]
    /\ \A s \in Clients \ {r} : op'[s] = op[s]
    /\ UNCHANGED name /\ UNCHANGED engine
    /\ \A e \in planned : e \in planned'
    /\ \A e \in doomed : e \in doomed'
    /\ \A e \in doomed' : e \in doomed \/ Alive(e)
    /\ \A e \in clashed : e \in clashed' \/ e \in FreshRow

\* Its place among the others and the rows.
Fits(r) ==
    /\ Sound(r)'
    /\ \A s \in Clients \ {r} : PairOK(r, s)' /\ PairOK(s, r)'
    /\ \A d \in Databases : Alive(d)' => RowOK(r, d)'

\* A row that nobody holds is no row of a request.
LEMMA FreshUnheld ==
    ASSUME DatabaseInv, NEW d \in FreshRow, NEW s \in Clients
    PROVE  /\ d \in Databases /\ ~Alive(d) /\ d \notin planned /\ d \notin doomed
           /\ op[s].target # d /\ op[s].source # d
  <1>1. d \in Databases /\ ~Alive(d) /\ d \notin planned /\ d \notin doomed
    BY DEF FreshRow
  <1>2. Sound(s)
    BY DEF DatabaseInv
  <1>3. CASE op[s] = Resting
    BY <1>1, <1>3, RestingRow, NamesAndRows
  <1>4. CASE Creates(s)
    BY <1>1, <1>4, NamesAndRows DEF Creates, Pending
  <1>5. CASE Renames(s) \/ Deletes(s)
    BY <1>1, <1>5 DEF Renames, Deletes
  <1> QED BY <1>1, <1>2, <1>3, <1>4, <1>5 DEF Sound

LEMMA BeginningKeeps ==
    ASSUME DatabaseInv, NEW r \in Clients, Begins(r), Fits(r)
    PROVE  DatabaseInv'
  <1>1. /\ \A s \in Clients \ {r} : op'[s] = op[s]
        /\ UNCHANGED name /\ UNCHANGED engine
        /\ \A e \in planned : e \in planned'
        /\ \A e \in doomed : e \in doomed'
        /\ \A e \in doomed' : e \in doomed \/ Alive(e)
    BY DEF Begins
  <1>2. DatabaseTypes'
    BY DEF DatabaseInv, DatabaseTypes, Begins
  <1>3. \A s \in Clients : /\ op[s].target \in clashed => op[s].target \in clashed'
                           /\ op[s].source \in clashed => op[s].source \in clashed'
    BY FreshUnheld DEF Begins
  <1>4. \A e \in Databases : Alive(e) /\ e \in clashed => e \in clashed'
    BY DEF Begins, FreshRow
  <1>5. ASSUME NEW s \in Clients \ {r} PROVE Sound(s)'
    <2>1. Sound(s) /\ op'[s] = op[s]
      BY <1>1 DEF DatabaseInv
    <2>2. CASE op[s] = Resting
      BY <2>1, <2>2 DEF Sound
    <2>3. CASE Creates(s)
      <3>1. Creates(s)'
        BY <1>1, <1>3, <2>1, <2>3 DEF Creates, Pending, Alive, Holds, Exists
      <3> QED BY <3>1 DEF Sound
    <2>4. CASE Renames(s)
      <3>1. Renames(s)'
        BY <1>1, <1>3, <2>1, <2>4 DEF Renames, Alive, Holds, Exists
      <3> QED BY <3>1 DEF Sound
    <2>5. CASE Deletes(s)
      <3>1. Deletes(s)'
        BY <1>1, <2>1, <2>5 DEF Deletes
      <3> QED BY <3>1 DEF Sound
    <2> QED BY <2>1, <2>2, <2>3, <2>4, <2>5 DEF Sound
  <1>6. ASSUME NEW s \in Clients \ {r}, NEW q \in Clients \ {r}, s # q PROVE PairOK(s, q)'
    <2>1. PairOK(s, q) /\ op'[s] = op[s] /\ op'[q] = op[q]
      BY <1>1, <1>6 DEF DatabaseInv
    <2> QED BY <1>3, <2>1 DEF PairOK, Past
  <1>7. ASSUME NEW s \in Clients \ {r}, NEW e \in Databases, Alive(e)' PROVE RowOK(s, e)'
    <2>1. Alive(e) /\ RowOK(s, e) /\ op'[s] = op[s] /\ name'[e] = name[e]
      BY <1>1, <1>7 DEF DatabaseInv, Alive
    <2>2. name[e] = op[s].new => \/ e \in clashed' /\ op[s].target \in clashed'
                                 \/ e = op[s].target /\ Past(s)
      BY <1>3, <1>4, <2>1 DEF RowOK
    <2>3. name[e] = op[s].old => \/ e \in clashed' \union doomed'
                                 \/ e = op[s].source /\ op[s].kind = "rename" /\ op[s].step # "drop"
      BY <1>1, <1>4, <2>1 DEF RowOK
    <2> QED BY <2>1, <2>2, <2>3 DEF RowOK, Past
  <1>8. NamesOnce' /\ LossNeedsOverlap'
    BY <1>1, <1>4 DEF DatabaseInv, NamesOnce, LossNeedsOverlap, HasData, Exists, Alive
  <1> QED BY <1>2, <1>5, <1>6, <1>7, <1>8 DEF DatabaseInv, Fits

\* What the history keeps.
LEMMA Marks ==
    ASSUME NEW d \in Databases, NEW n, MarkClash(d, n)
    PROVE  /\ \A e \in clashed : e \in clashed' \/ (e = d /\ ~Alive(d))
           /\ \A s \in Clients : n = op[s].new => d \in clashed' /\ op[s].target \in clashed'
           /\ \A s \in Clients : n = op[s].old => d \in clashed'
  BY DEF MarkClash

\* A row is named once, and what is built under its name is its own.
LEMMA OwnName ==
    ASSUME DatabaseInv, NEW s \in Clients, NEW d \in Databases, Alive(d), name[d] = op[s].new
    PROVE  op[s].target \in clashed \/ (op[s].target = d /\ Past(s))
  BY DEF DatabaseInv, RowOK

LEMMA CreationKeeps ==
    ASSUME DatabaseInv, NEW r \in Clients, NEW n \in Names, StartCreation(r, n)
    PROVE  DatabaseInv'
  <1>1. PICK d \in FreshRow :
          /\ op' = [op EXCEPT ![r] = [Resting EXCEPT !.step = "create", !.kind = "create",
                                                     !.target = d, !.new = n]]
          /\ planned' = planned \union {d} /\ MarkClash(d, n)
    BY Zenon DEF StartCreation
  <1>2. /\ UNCHANGED name /\ UNCHANGED doomed /\ UNCHANGED engine /\ op \in [Clients -> OpRow]
        /\ \A e \in Databases : name[e] # n
    BY DEF StartCreation, Used, DatabaseInv, DatabaseTypes
  <1>3. d \in Databases /\ ~Alive(d) /\ d \notin doomed /\ \A s \in Clients : op[s].target # d
    BY FreshUnheld
  <1>4. /\ op' \in [Clients -> OpRow] /\ \A s \in Clients \ {r} : op'[s] = op[s]
        /\ op'[r] = [step |-> "create", kind |-> "create", source |-> Unused, target |-> d,
                     old |-> "none", new |-> n, copy |-> Unused, created |-> FALSE]
    BY <1>1, <1>2, <1>3 DEF Resting, OpRow, OpSteps
  <1>5. /\ \A e \in clashed : e \in clashed' \/ e \in FreshRow
        /\ \A s \in Clients : n = op[s].new => d \in clashed' /\ op[s].target \in clashed'
        /\ \A s \in Clients : n = op[s].old => d \in clashed'
    BY <1>1, <1>3, Marks
  <1>6. Begins(r)
    BY <1>1, <1>2, <1>4, <1>5 DEF Begins
  <1>7. Creates(r)'
    <2>1. /\ op'[r].step = "create" /\ op'[r].kind = "create" /\ op'[r].source = Unused /\ op'[r].target = d
          /\ op'[r].old = "none" /\ op'[r].new = n /\ op'[r].created = FALSE
      BY <1>4
    <2>2. d \in planned' /\ name'[d] = "none" /\ d \notin doomed'
      BY <1>1, <1>2, <1>3 DEF Alive
    <2> QED BY <1>3, <2>1, <2>2 DEF Creates, Pending, Alive, BeforeSwitch
  <1>8. ASSUME NEW s \in Clients \ {r} PROVE PairOK(r, s)' /\ PairOK(s, r)'
    BY <1>3, <1>4, <1>5 DEF PairOK
  <1>9. ASSUME NEW e \in Databases, Alive(e)' PROVE RowOK(r, e)'
    BY <1>2, <1>4, <1>9 DEF RowOK, Alive
  <1> QED BY <1>6, <1>7, <1>8, <1>9, BeginningKeeps DEF Fits, Sound

LEMMA RenameKeeps ==
    ASSUME DatabaseInv, NEW r \in Clients, NEW d \in Databases, NEW n \in Names,
           StartReplacement(r, "rename", d, n)
    PROVE  DatabaseInv'
  <1>1. /\ op' = [op EXCEPT ![r] = [Resting EXCEPT !.step = "create", !.kind = "rename", !.source = d,
                                                   !.target = d, !.old = name[d], !.new = n]]
        /\ MarkClash(d, n)
        /\ UNCHANGED name /\ UNCHANGED planned /\ UNCHANGED doomed /\ UNCHANGED engine
        /\ Alive(d) /\ n # name[d] /\ \A e \in Databases : name[e] # n
    BY DEF StartReplacement, Used
  <1>2. op \in [Clients -> OpRow] /\ NamesOnce /\ name[d] \in Names
    BY <1>1 DEF DatabaseInv, DatabaseTypes, Alive
  <1>3. /\ op' \in [Clients -> OpRow] /\ \A s \in Clients \ {r} : op'[s] = op[s]
        /\ op'[r] = [step |-> "create", kind |-> "rename", source |-> d, target |-> d,
                     old |-> name[d], new |-> n, copy |-> Unused, created |-> FALSE]
    BY <1>1, <1>2 DEF Resting, OpRow, OpSteps
  <1>4. /\ \A e \in clashed : e \in clashed'
        /\ \A s \in Clients : n = op[s].new => d \in clashed' /\ op[s].target \in clashed'
        /\ \A s \in Clients : n = op[s].old => d \in clashed'
    BY <1>1, Marks
  <1>5. Begins(r)
    BY <1>1, <1>3, <1>4 DEF Begins
  <1>6. Renames(r)'
    BY <1>1, <1>2, <1>3 DEF Renames, Alive, BeforeSwitch
  <1>7. ASSUME NEW s \in Clients \ {r} PROVE PairOK(r, s)' /\ PairOK(s, r)'
    <2>1. op[s].new = name[d] => op[s].target \in clashed' \/ (op[s].target = d /\ Past(s)')
      BY <1>1, <1>3, <1>4, OwnName DEF Past
    <2>2. PairOK(r, s)'
      BY <1>3, <1>4 DEF PairOK
    <2>3. PairOK(s, r)'
      BY <1>3, <1>4, <2>1 DEF PairOK
    <2> QED BY <2>2, <2>3
  <1>8. ASSUME NEW e \in Databases, Alive(e)' PROVE RowOK(r, e)'
    <2>1. name[e] = name[d] => e = d
      BY <1>1, <1>2 DEF NamesOnce
    <2> QED BY <1>1, <1>3, <2>1 DEF RowOK
  <1> QED BY <1>5, <1>6, <1>7, <1>8, BeginningKeeps DEF Fits, Sound

LEMMA DeletionKeeps ==
    ASSUME DatabaseInv, NEW r \in Clients, NEW d \in Databases, StartDeletion(r, d)
    PROVE  DatabaseInv'
  <1>1. /\ op' = [op EXCEPT ![r] = [Resting EXCEPT !.step = "delete", !.kind = "destroy",
                                                   !.source = d, !.target = d, !.old = name[d]]]
        /\ doomed' = doomed \union {d} /\ Alive(d)
        /\ UNCHANGED name /\ UNCHANGED planned /\ UNCHANGED clashed /\ UNCHANGED engine
    BY DEF StartDeletion
  <1>2. op \in [Clients -> OpRow] /\ NamesOnce /\ name[d] \in Names
    BY <1>1 DEF DatabaseInv, DatabaseTypes, Alive
  <1>3. /\ op' \in [Clients -> OpRow] /\ \A s \in Clients \ {r} : op'[s] = op[s]
        /\ op'[r] = [step |-> "delete", kind |-> "destroy", source |-> d, target |-> d,
                     old |-> name[d], new |-> "none", copy |-> Unused, created |-> FALSE]
    BY <1>1, <1>2 DEF Resting, OpRow, OpSteps
  <1>4. Begins(r)
    BY <1>1, <1>3 DEF Begins
  <1>5. Deletes(r)'
    <2>1. /\ op'[r].step = "delete" /\ op'[r].kind = "destroy" /\ op'[r].source = d /\ op'[r].target = d
          /\ op'[r].old = name[d] /\ op'[r].new = "none" /\ op'[r].created = FALSE
      BY <1>3
    <2>2. d \in doomed' /\ d \in Databases /\ name[d] \in Names
      BY <1>1, <1>2
    <2> QED BY <2>1, <2>2 DEF Deletes
  <1>6. ASSUME NEW s \in Clients \ {r} PROVE PairOK(r, s)' /\ PairOK(s, r)'
    <2>1. op[s].new = name[d] => op[s].target \in clashed' \/ (op[s].target = d /\ Past(s)')
      BY <1>1, <1>3, OwnName DEF Past
    <2>2. PairOK(r, s)'
      BY <1>3 DEF PairOK
    <2>3. PairOK(s, r)'
      BY <1>3, <2>1 DEF PairOK
    <2> QED BY <2>2, <2>3
  <1>7. ASSUME NEW e \in Databases, Alive(e)' PROVE RowOK(r, e)'
    <2>1. name'[e] # "none" /\ (name[e] = name[d] => e = d)
      BY <1>1, <1>2, <1>7 DEF NamesOnce, Alive
    <2>2. op'[r].source = d /\ op'[r].old = name[d] /\ op'[r].new = "none"
      BY <1>3
    <2>3. d \in doomed' /\ name' = name
      BY <1>1
    <2> QED BY <2>1, <2>2, <2>3 DEF RowOK
  <1> QED BY <1>4, <1>5, <1>6, <1>7, BeginningKeeps DEF Fits, Sound

-----------------------------------------------------------------------------
LEMMA DatabaseStep ==
    ASSUME NoCopies, DatabaseInv, [DatabasesNext]_databaseVars
    PROVE  DatabaseInv'
  <1>1. CASE UNCHANGED databaseVars
    <2>1. /\ UNCHANGED name /\ UNCHANGED planned /\ UNCHANGED doomed /\ UNCHANGED clashed
          /\ UNCHANGED engine /\ UNCHANGED op
      BY <1>1 DEF databaseVars
    <2>2. DatabaseTypes' /\ NamesOnce' /\ LossNeedsOverlap'
      BY <2>1 DEF DatabaseInv, DatabaseTypes, NamesOnce, LossNeedsOverlap, HasData, Alive, Exists
    <2>3. ASSUME NEW r \in Clients PROVE Sound(r)'
      <3>1. (Creates(r) => Creates(r)') /\ (Renames(r) => Renames(r)') /\ (Deletes(r) => Deletes(r)')
        BY <2>1 DEF Creates, Renames, Deletes, Pending, Alive, Holds, Exists
      <3> QED BY <2>1, <3>1 DEF DatabaseInv, Sound
    <2>4. ASSUME NEW r \in Clients, NEW s \in Clients, r # s PROVE PairOK(r, s)'
      <3>1. PairOK(r, s)
        BY <2>4 DEF DatabaseInv
      <3> QED BY <2>1, <3>1 DEF PairOK, Past
    <2>5. ASSUME NEW r \in Clients, NEW d \in Databases, Alive(d)' PROVE RowOK(r, d)'
      <3>1. RowOK(r, d)
        BY <2>1, <2>5 DEF DatabaseInv, Alive
      <3> QED BY <2>1, <3>1 DEF RowOK, Past
    <2> QED BY <2>2, <2>3, <2>4, <2>5 DEF DatabaseInv
  <1>2. ASSUME NEW r \in Clients, Request(r) PROVE DatabaseInv'
    <2>1. Kinds \intersect Replacing \subseteq {"rename"}
      BY DEF NoCopies, Replacing
    <2> QED BY <1>2, <2>1, CreationKeeps, RenameKeeps, DeletionKeeps DEF Request
  <1>3. ASSUME NEW r \in Clients, LaterSteps(r) PROVE DatabaseInv'
    BY <1>3, LaterKeeps
  <1> QED BY <1>1, <1>2, <1>3 DEF DatabasesNext, LaterSteps

LEMMA DatabaseInit == DatabasesInit => DatabaseInv
  <1> SUFFICES ASSUME DatabasesInit PROVE DatabaseInv
    OBVIOUS
  <1>1. DatabaseTypes /\ NamesOnce /\ LossNeedsOverlap /\ \A d \in Databases : ~Alive(d)
    BY RestingRow DEF DatabasesInit, DatabaseTypes, NamesOnce, LossNeedsOverlap, Alive
  <1>2. \A r \in Clients : op[r] = Resting
    BY DEF DatabasesInit
  <1>3. \A r, s \in Clients : PairOK(r, s)
    BY <1>2, RestingRow DEF PairOK
  <1> QED BY <1>1, <1>2, <1>3 DEF DatabaseInv, Sound

\* Creations, renames and deletions, for any rows, names and requests at a time,
\* wherever one of them fails, undoes itself or is cut off: the database that a row
\* names exists and holds the row's own data, unless its owner has confirmed its
\* deletion, or its name was asked for, given up or dropped by another request
\* when the row was to get it.
THEOREM RowsKeepData ==
    ASSUME Kinds \subseteq {"create", "rename", "destroy"}
    PROVE  DatabasesSpec => []LossNeedsOverlap
  <1>1. NoCopies
    BY DEF NoCopies
  <1>2. DatabaseInv /\ [DatabasesNext]_databaseVars => DatabaseInv'
    BY <1>1, DatabaseStep
  <1>3. DatabaseInv => LossNeedsOverlap
    BY DEF DatabaseInv
  <1> QED BY <1>2, <1>3, DatabaseInit, PTL DEF DatabasesSpec
===============================================================================
