------------------------- MODULE TaskRuntimeProofs -------------------------
(***************************************************************************)
(* Theorems of TaskRuntime, for every set of jobs, tasks and workers.      *)
(***************************************************************************)
EXTENDS TaskRuntime, FiniteSetTheorems, TLAPS

-----------------------------------------------------------------------------
(* Types                                                                   *)

\* The number of a task's rows is a number, so the next attempt is one too.
LEMMA RowsCount ==
  ASSUME NEW t \in Tasks
  PROVE  Cardinality(Rows(t)) \in Nat
<1>1. IsFiniteSet(1 .. MaxAttempts)
  BY FS_Interval, StoreAssumption
<1>2. Rows(t) \subseteq 1 .. MaxAttempts
  BY DEF Rows, Attempts
<1>3. IsFiniteSet(Rows(t))
  BY <1>1, <1>2, FS_Subset
<1> QED BY <1>3, FS_CardinalityType

\* The attempt after the last one is again an attempt.
LEMMA NextAttemptType ==
  ASSUME NEW t \in Tasks, Acquirable(t)
  PROVE  NextAttempt(t) \in Attempts
BY RowsCount, StoreAssumption DEF Acquirable, NextAttempt, Attempts

\* TypeOK, one store transaction at a time.
StoreTypeOK ==
  /\ job \in [Jobs -> JobStatus \cup {"absent", "deleted"}]
  /\ status \in [Tasks -> TaskStatus \cup {"absent"}]
  /\ retries \in [Tasks -> Nat]
  /\ parked \subseteq Tasks
  /\ exec \in [Tasks -> [Attempts -> ExecutionStatus \cup {"none"}]]
  /\ lapsed \subseteq Tasks \X Attempts

\* create_job keeps the types.
LEMMA CreateType == ASSUME StoreTypeOK, NEW j \in Jobs, CreateJob(j) PROVE StoreTypeOK'
BY StoreAssumption DEF StoreTypeOK, CreateJob, JobStatus, TaskStatus

\* delete_job keeps the types.
LEMMA DeleteType == ASSUME StoreTypeOK, NEW j \in Jobs, DeleteJob(j) PROVE StoreTypeOK'
BY StoreAssumption DEF StoreTypeOK, DeleteJob, JobStatus, TaskStatus, ExecutionStatus

\* promote_tasks_to_ready keeps the types.
LEMMA PromoteType ==
  ASSUME StoreTypeOK, NEW S \in SUBSET Tasks, Promote(S) PROVE StoreTypeOK'
BY DEF StoreTypeOK, Promote, TaskStatus

\* acquire_ready_tasks_batch keeps the types.
LEMMA AcquireType ==
  ASSUME StoreTypeOK, NEW S \in SUBSET Tasks, Acquire(S) PROVE StoreTypeOK'
<1>1. \A t \in S : NextAttempt(t) \in Attempts
  BY NextAttemptType DEF Acquire
<1>2. exec' \in [Tasks -> [Attempts -> ExecutionStatus \cup {"none"}]]
  BY <1>1 DEF StoreTypeOK, Acquire, ExecutionStatus
<1> QED BY <1>2 DEF StoreTypeOK, Acquire, TaskStatus

\* So does the end of a backoff.
LEMMA BackoffType ==
  ASSUME StoreTypeOK, NEW t \in Tasks, BackoffEnds(t) PROVE StoreTypeOK'
BY DEF StoreTypeOK, BackoffEnds

\* mark_task_success keeps the types.
LEMMA SuccessType ==
  ASSUME StoreTypeOK, NEW t \in Tasks, NEW a \in Attempts, MarkSuccess(t, a)
  PROVE  StoreTypeOK'
BY StoreAssumption
   DEF StoreTypeOK, MarkSuccess, JobAfterSuccess, JobStatus, TaskStatus, ExecutionStatus

\* mark_task_failure keeps the types.
LEMMA FailureType ==
  ASSUME StoreTypeOK, NEW t \in Tasks, NEW a \in Attempts,
         NEW timedOut, NEW final, NEW delay,
         MarkFailure(t, a, timedOut, final, delay)
  PROVE  StoreTypeOK'
BY DEF StoreTypeOK, MarkFailure, RetriesAgain, JobAfterFailure, JobStatus, TaskStatus,
       ExecutionStatus

\* The first statement of a retry keeps the types.
LEMMA RetryTaskType ==
  ASSUME StoreTypeOK, NEW t \in Tasks, NEW spend \in BOOLEAN, NEW delay \in BOOLEAN,
         RetryTaskRow(t, spend, delay)
  PROVE  StoreTypeOK'
BY DEF StoreTypeOK, RetryTaskRow, TaskStatus

\* And so does the second.
LEMMA RetryExecutionType ==
  ASSUME StoreTypeOK, NEW t \in Tasks, NEW a \in Attempts, RetryExecutionRow(t, a)
  PROVE  StoreTypeOK'
BY DEF StoreTypeOK, RetryExecutionRow, ExecutionStatus

\* reset_failed_task_for_retry keeps the types.
LEMMA ResetType ==
  ASSUME StoreTypeOK, NEW t \in Tasks, ResetFailed(t) PROVE StoreTypeOK'
BY DEF StoreTypeOK, ResetFailed, TaskStatus

\* A lease that lapses or is renewed keeps the types.
LEMMA LeaseType ==
  ASSUME StoreTypeOK, NEW t \in Tasks, NEW a \in Attempts,
         RenewLease(t, a) \/ LeaseLapses(t, a)
  PROVE  StoreTypeOK'
BY DEF StoreTypeOK, RenewLease, LeaseLapses

\* recover_expired_executions keeps the types.
LEMMA RecoverType ==
  ASSUME StoreTypeOK, NEW delayed \in SUBSET Tasks, RecoverExpired(delayed)
  PROVE  StoreTypeOK'
BY DEF StoreTypeOK, RecoverExpired, JobAfterFailure, JobStatus, TaskStatus, ExecutionStatus

\* The coroutines a step leaves behind are well-formed.
LEMMA MoveToType ==
  ASSUME runs \subseteq Runs, NEW r \in runs, NEW place \in Places
  PROVE  MoveTo(r, place) \subseteq Runs
BY DEF MoveTo, Runs

\* The coroutine of an acquired task is well-typed.
LEMMA NewRunType ==
  ASSUME TypeOK, NEW w \in Workers, NEW t \in Tasks, Acquirable(t)
  PROVE  NewRun(w, t) \in Runs
BY NextAttemptType DEF TypeOK, NewRun, Runs, Places, Owning

\* Every step of the system keeps the types.
LEMMA TypeStep == TypeOK /\ [Next]_vars => TypeOK'
<1> SUFFICES ASSUME TypeOK, [Next]_vars
             PROVE  TypeOK'
  OBVIOUS
<1> USE DEF TypeOK
<1>0. StoreTypeOK
  BY DEF StoreTypeOK
<1>1. ASSUME StoreTypeOK', UNCHANGED <<worker, runs>>
      PROVE  TypeOK'
  BY <1>1 DEF StoreTypeOK
<1>2. ASSUME UNCHANGED storeVars
      PROVE  StoreTypeOK'
  BY <1>0, <1>2 DEF StoreTypeOK, storeVars
<1>3. ASSUME NEW j \in Jobs, ApiCreateJob(j)
      PROVE  TypeOK'
  BY <1>0, <1>1, <1>3, CreateType DEF ApiCreateJob
<1>4. ASSUME NEW j \in Jobs, ApiDeleteJob(j)
      PROVE  TypeOK'
  BY <1>0, <1>1, <1>4, DeleteType DEF ApiDeleteJob
<1>5. ASSUME NEW t \in Tasks, ApiRetryTask(t)
      PROVE  TypeOK'
  BY <1>0, <1>1, <1>5, ResetType DEF ApiRetryTask
<1>6. ASSUME NEW t \in Tasks, BackoffPasses(t)
      PROVE  TypeOK'
  BY <1>0, <1>1, <1>6, BackoffType DEF BackoffPasses
<1>7. ASSUME NEW t \in Tasks, NEW a \in Attempts, LeasePasses(t, a)
      PROVE  TypeOK'
  BY <1>0, <1>1, <1>7, LeaseType DEF LeasePasses
<1>8. CASE SchedulerTick
  <2>1. PICK S \in SUBSET Tasks : Promote(S)
    BY <1>8 DEF SchedulerTick, TopOf
  <2> QED BY <1>0, <1>1, <1>8, <2>1, PromoteType DEF SchedulerTick
<1>9. CASE RecoveryTick
  <2>1. PICK delayed \in SUBSET Tasks : RecoverExpired(delayed)
    BY <1>9 DEF RecoveryTick
  <2> QED BY <1>0, <1>1, <1>9, <2>1, RecoverType DEF RecoveryTick
<1>10. ASSUME NEW w \in Workers, AcquireBatch(w)
       PROVE  TypeOK'
  <2>1. PICK S \in SUBSET Tasks :
          Acquire(S) /\ runs' = runs \cup {NewRun(w, t) : t \in S}
    BY <1>10 DEF AcquireBatch, TopOf
  <2>2. StoreTypeOK'
    BY <1>0, <2>1, AcquireType
  <2>3. \A t \in S : NewRun(w, t) \in Runs
    BY <2>1, NewRunType DEF Acquire
  <2>4. runs' \subseteq Runs
    BY <2>1, <2>3
  <2> QED BY <1>10, <2>2, <2>4 DEF StoreTypeOK, AcquireBatch
<1>11. ASSUME NEW w \in Workers, RequestStop(w) \/ Drained(w) \/ Crash(w) \/ Start(w)
       PROVE  TypeOK'
  <2>1. StoreTypeOK'
    BY <1>2, <1>11 DEF RequestStop, Drained, Crash, Start
  <2>2. worker' \in [Workers -> {"polling", "draining", "down"}] /\ runs' \subseteq runs
    BY <1>11 DEF RequestStop, Drained, Crash, Start
  <2> QED BY <2>1, <2>2 DEF StoreTypeOK
<1>12. ASSUME NEW r \in runs, RunStep(r) \/ WriteRaises(r) \/ Heartbeat(r)
       PROVE  TypeOK'
  <2>0. r \in Runs /\ r.task \in Tasks /\ r.attempt \in Attempts
    BY DEF Runs
  <2>1. CASE FinishHandling(r)
    <3>1. PICK place \in AfterHandling(r) : runs' = MoveTo(r, place)
      BY <2>1 DEF FinishHandling
    <3>2. place \in Places
      BY <3>1 DEF AfterHandling, AfterRetryable, Places, Owning, FailureWrites,
                  FirstRetryWrites
    <3>3. runs' \subseteq Runs
      BY <3>1, <3>2, MoveToType
    <3> QED BY <1>2, <2>1, <3>3 DEF FinishHandling, StoreTypeOK
  <2>2. CASE WriteSuccess(r)
    <3>1. StoreTypeOK'
      BY <1>0, <1>2, <2>0, <2>2, SuccessType DEF WriteSuccess
    <3>2. "raised" \in Places
      BY DEF Places, Owning, FailureWrites
    <3>3. runs' \subseteq Runs
      BY <2>2, <3>2, MoveToType DEF WriteSuccess
    <3> QED BY <2>2, <3>1, <3>3 DEF WriteSuccess, StoreTypeOK
  <2>3. CASE WriteFailure(r)
    <3>1. CASE Current(r.task, r.attempt)
      <4>1. PICK delay \in BOOLEAN :
              MarkFailure(r.task, r.attempt, r.at = "timedOut", r.at = "fatal", delay)
        BY <2>3, <3>1 DEF WriteFailure
      <4>2. StoreTypeOK'
        BY <1>0, <2>0, <4>1, FailureType
      <4> QED BY <2>3, <4>2 DEF WriteFailure, StoreTypeOK
    <3>2. CASE ~Current(r.task, r.attempt)
      BY <1>2, <2>3, <3>2 DEF WriteFailure, StoreTypeOK
    <3> QED BY <3>1, <3>2
  <2>4. CASE WriteRetryTask(r)
    <3>1. PICK delay \in BOOLEAN : RetryTaskRow(r.task, r.at = "retrying", delay)
      BY <2>4 DEF WriteRetryTask
    <3>2. StoreTypeOK'
      BY <1>0, <2>0, <3>1, RetryTaskType
    <3>3. "retryingExec" \in Places /\ "waitingExec" \in Places
      BY DEF Places, SecondRetryWrites
    <3>4. runs' \subseteq Runs
      BY <2>4, <3>3, MoveToType DEF WriteRetryTask
    <3> QED BY <2>4, <3>2, <3>4 DEF WriteRetryTask, StoreTypeOK
  <2>5. CASE WriteRetryExecution(r)
    BY <1>0, <2>0, <2>5, RetryExecutionType DEF WriteRetryExecution, StoreTypeOK
  <2>6. CASE WriteRaises(r)
    <3>1. "raised" \in Places
      BY DEF Places, Owning, FailureWrites
    <3>2. runs' \subseteq Runs
      BY <2>6, <3>1, MoveToType DEF WriteRaises
    <3> QED BY <1>2, <2>6, <3>2 DEF WriteRaises, StoreTypeOK
  <2>7. CASE Heartbeat(r)
    BY <1>0, <1>1, <2>0, <2>7, LeaseType DEF Heartbeat
  <2> QED BY <1>12, <2>1, <2>2, <2>3, <2>4, <2>5, <2>6, <2>7 DEF RunStep
<1>13. CASE UNCHANGED vars
  BY <1>13 DEF vars
<1> QED
  BY <1>3, <1>4, <1>5, <1>6, <1>7, <1>8, <1>9, <1>10, <1>11, <1>12, <1>13 DEF Next

\* Every state of the runtime is well-typed.
THEOREM TypeCorrect == Spec => []TypeOK
<1>1. Init => TypeOK
  BY StoreAssumption DEF Init, StoreInit, TypeOK, JobStatus, TaskStatus, ExecutionStatus
<1> QED BY <1>1, TypeStep, PTL DEF Spec

-----------------------------------------------------------------------------
(* Safety while nobody calls recover_expired_executions.  One lemma per    *)
(* action or kind of action, and in it one step per concern of IInv.       *)

\* The concerns of IInv beside types.
Executions == OneRunningExecution /\ RunningHasExecution
Jobwise == JobAgreesWithTasks /\ TasksFollowJob
Coroutines == /\ DecidesOnThePresent
              /\ OneRunPerTask
              /\ RunsOfCreatedJobs
              /\ SecondWriteStillOwns
              /\ RetryingLeavesBudget
Safe == Executions /\ NeverAheadOfParents /\ Coroutines /\ BudgetLeft /\ Jobwise

\* The invariant is the types and the parts the step lemmas are about.
LEMMA IInvIsSafe == IInv <=> TypeOK /\ Safe
BY DEF IInv, Safe, Executions, Coroutines, Jobwise

\* A new job: its tasks had no row, no coroutine and no execution.
LEMMA CreateSafe ==
  ASSUME TypeOK, TypeOK', Safe, NEW j \in Jobs, ApiCreateJob(j)
  PROVE  Safe'
<1>1. Executions'
  BY DEF Safe, ApiCreateJob, CreateJob, Executions, OneRunningExecution,
         RunningHasExecution, RunningRow
<1>2. NeverAheadOfParents'
  BY StoreAssumption
  DEF Safe, ApiCreateJob, CreateJob, NeverAheadOfParents, ParentsSucceeded
<1>3. Coroutines'
  <2>1. DecidesOnThePresent'
    BY DEF TypeOK, Safe, ApiCreateJob, CreateJob, Coroutines,
           DecidesOnThePresent, Current, Runs, Jobwise, TasksFollowJob
  <2>2. OneRunPerTask'
    BY DEF Safe, ApiCreateJob, Coroutines, OneRunPerTask
  <2>3. RunsOfCreatedJobs'
    BY DEF Safe, ApiCreateJob, CreateJob, Coroutines, RunsOfCreatedJobs
  <2>4. SecondWriteStillOwns'
    BY DEF TypeOK, Safe, ApiCreateJob, CreateJob, Coroutines, RunsOfCreatedJobs,
           SecondWriteStillOwns, Runs
  <2>5. RetryingLeavesBudget'
    BY DEF Safe, ApiCreateJob, Coroutines, RetryingLeavesBudget
  <2> QED BY <2>1, <2>2, <2>3, <2>4, <2>5 DEF Coroutines
<1>4. BudgetLeft'
  BY DEF Safe, ApiCreateJob, CreateJob, BudgetLeft, Jobwise, TasksFollowJob
<1>5. Jobwise'
  BY DEF TypeOK, Safe, ApiCreateJob, CreateJob, Jobwise, JobAgreesWithTasks,
         TasksFollowJob, TasksOf
<1> QED BY <1>1, <1>2, <1>3, <1>4, <1>5 DEF Safe

\* A deleted job has no RUNNING task, and takes all its rows along.
LEMMA DeleteSafe ==
  ASSUME TypeOK, TypeOK', Safe, NEW j \in Jobs, ApiDeleteJob(j)
  PROVE  Safe'
<1>1. Executions'
  BY DEF Safe, ApiDeleteJob, DeleteJob, Executions, OneRunningExecution,
         RunningHasExecution, RunningRow
<1>2. NeverAheadOfParents'
  BY StoreAssumption
  DEF Safe, ApiDeleteJob, DeleteJob, NeverAheadOfParents, ParentsSucceeded
<1>3. Coroutines'
  <2>1. DecidesOnThePresent'
    BY DEF TypeOK, Safe, ApiDeleteJob, DeleteJob, TasksOf, Coroutines,
           DecidesOnThePresent, Current, Runs
  <2>2. OneRunPerTask'
    BY DEF Safe, ApiDeleteJob, Coroutines, OneRunPerTask
  <2>3. RunsOfCreatedJobs'
    BY DEF Safe, ApiDeleteJob, DeleteJob, Coroutines, RunsOfCreatedJobs
  <2>4. SecondWriteStillOwns'
    BY DEF TypeOK, Safe, ApiDeleteJob, DeleteJob, Coroutines, SecondWriteStillOwns, Runs
  <2>5. RetryingLeavesBudget'
    BY DEF Safe, ApiDeleteJob, Coroutines, RetryingLeavesBudget
  <2> QED BY <2>1, <2>2, <2>3, <2>4, <2>5 DEF Coroutines
<1>4. BudgetLeft'
  BY StoreAssumption DEF Safe, ApiDeleteJob, DeleteJob, BudgetLeft
<1>5. Jobwise'
  BY StoreAssumption
  DEF TypeOK, Safe, ApiDeleteJob, DeleteJob, TasksOf, Jobwise,
      JobAgreesWithTasks, TasksFollowJob, JobStatus
<1> QED BY <1>1, <1>2, <1>3, <1>4, <1>5 DEF Safe

\* A FAILED task goes back to PENDING: no coroutine is left on it.
LEMMA ResetSafe ==
  ASSUME TypeOK, TypeOK', Safe, NEW t \in Tasks, ApiRetryTask(t)
  PROVE  Safe'
<1>1. Executions'
  BY StoreAssumption
  DEF TypeOK, Safe, ApiRetryTask, ResetFailed, Executions,
      OneRunningExecution, RunningHasExecution, RunningRow
<1>2. NeverAheadOfParents'
  BY StoreAssumption
  DEF TypeOK, Safe, ApiRetryTask, ResetFailed, NeverAheadOfParents,
      ParentsSucceeded
<1>3. Coroutines'
  <2>1. DecidesOnThePresent'
    BY StoreAssumption
    DEF TypeOK, Safe, ApiRetryTask, ResetFailed, Coroutines,
        DecidesOnThePresent, Current, Runs, Owning, FailureWrites,
        FirstRetryWrites, SecondRetryWrites
  <2>2. OneRunPerTask'
    BY StoreAssumption
    DEF TypeOK, Safe, ApiRetryTask, ResetFailed, Coroutines, OneRunPerTask,
        Runs, Owning, FailureWrites, FirstRetryWrites, SecondRetryWrites
  <2>3. RunsOfCreatedJobs'
    BY StoreAssumption
    DEF TypeOK, Safe, ApiRetryTask, ResetFailed, Coroutines,
        RunsOfCreatedJobs, Runs, Owning, FailureWrites, FirstRetryWrites,
        SecondRetryWrites
  <2>4. SecondWriteStillOwns'
    BY StoreAssumption
    DEF TypeOK, Safe, ApiRetryTask, ResetFailed, Coroutines,
        SecondWriteStillOwns, Runs, Owning, FailureWrites, FirstRetryWrites,
        SecondRetryWrites
  <2>5. RetryingLeavesBudget'
    BY StoreAssumption
    DEF TypeOK, Safe, ApiRetryTask, ResetFailed, Coroutines,
        RetryingLeavesBudget, Runs, Owning, FailureWrites, FirstRetryWrites,
        SecondRetryWrites
  <2> QED BY <2>1, <2>2, <2>3, <2>4, <2>5 DEF Coroutines
<1>4. BudgetLeft'
  BY StoreAssumption
  DEF TypeOK, Safe, ApiRetryTask, ResetFailed, BudgetLeft
<1>5. Jobwise'
  BY StoreAssumption
  DEF TypeOK, Safe, ApiRetryTask, ResetFailed, Jobwise, JobAgreesWithTasks,
      TasksFollowJob, TasksOf, JobStatus
<1> QED BY <1>1, <1>2, <1>3, <1>4, <1>5 DEF Safe

\* Promotion touches only statuses that no coroutine decides on.
LEMMA PromoteSafe ==
  ASSUME TypeOK, TypeOK', Safe, NEW S \in SUBSET Tasks, Promote(S), UNCHANGED <<worker, runs>>
  PROVE  Safe'
<1>1. Executions'
  BY StoreAssumption
  DEF TypeOK, Safe, Promote, Promotable, Executions, OneRunningExecution,
      RunningHasExecution, RunningRow
<1>2. NeverAheadOfParents'
  BY StoreAssumption
  DEF TypeOK, Safe, Promote, Promotable, NeverAheadOfParents,
      ParentsSucceeded
<1>3. Coroutines'
  <2>1. DecidesOnThePresent'
    <3>1. \A r \in runs : r.at \in Owning => r.task \in Tasks \ S
      BY DEF TypeOK, Safe, Coroutines, DecidesOnThePresent, Current, Runs, Promote,
             Promotable
    <3> QED BY <3>1 DEF TypeOK, Safe, Coroutines, DecidesOnThePresent, Current, Promote
  <2>2. OneRunPerTask'
    BY StoreAssumption
    DEF TypeOK, Safe, Promote, Promotable, Coroutines, OneRunPerTask, Runs,
        Owning, FailureWrites, FirstRetryWrites, SecondRetryWrites
  <2>3. RunsOfCreatedJobs'
    BY StoreAssumption
    DEF TypeOK, Safe, Promote, Promotable, Coroutines, RunsOfCreatedJobs,
        Runs, Owning, FailureWrites, FirstRetryWrites, SecondRetryWrites
  <2>4. SecondWriteStillOwns'
    BY StoreAssumption
    DEF TypeOK, Safe, Promote, Promotable, Coroutines, SecondWriteStillOwns,
        Runs, Owning, FailureWrites, FirstRetryWrites, SecondRetryWrites
  <2>5. RetryingLeavesBudget'
    BY StoreAssumption
    DEF TypeOK, Safe, Promote, Promotable, Coroutines, RetryingLeavesBudget,
        Runs, Owning, FailureWrites, FirstRetryWrites, SecondRetryWrites
  <2> QED BY <2>1, <2>2, <2>3, <2>4, <2>5 DEF Coroutines
<1>4. BudgetLeft'
  BY StoreAssumption
  DEF TypeOK, Safe, Promote, Promotable, BudgetLeft
<1>5. Jobwise'
  <2>1. \A t \in S : status[t] \notin {"absent", "SUCCESS"} /\ status'[t] = "READY"
    BY DEF TypeOK, Promote, Promotable
  <2>2. \A t \in Tasks \ S : status'[t] = status[t]
    BY DEF TypeOK, Promote
  <2>3. job' = job
    BY DEF Promote
  <2>4. TasksFollowJob'
    BY <2>1, <2>2, <2>3 DEF Safe, Jobwise, TasksFollowJob
  <2>5. JobAgreesWithTasks'
    BY <2>1, <2>2, <2>3 DEF Safe, Jobwise, JobAgreesWithTasks, TasksOf
  <2> QED BY <2>4, <2>5 DEF Jobwise
<1> QED BY <1>1, <1>2, <1>3, <1>4, <1>5 DEF Safe

\* Processes come and go, leases and backoffs pass: coroutines only vanish.
LEMMA ProcessSafe ==
  ASSUME TypeOK, TypeOK', Safe, 
         runs' \subseteq runs, UNCHANGED <<job, status, retries, exec>>
  PROVE  Safe'
<1>1. Executions'
  BY StoreAssumption
  DEF TypeOK, Safe, Executions, OneRunningExecution, RunningHasExecution,
      RunningRow
<1>2. NeverAheadOfParents'
  BY StoreAssumption
  DEF TypeOK, Safe, NeverAheadOfParents, ParentsSucceeded
<1>3. Coroutines'
  <2>1. DecidesOnThePresent'
    BY StoreAssumption
    DEF TypeOK, Safe, Coroutines, DecidesOnThePresent, Current, Runs,
        Owning, FailureWrites, FirstRetryWrites, SecondRetryWrites
  <2>2. OneRunPerTask'
    BY StoreAssumption
    DEF TypeOK, Safe, Coroutines, OneRunPerTask, Runs, Owning,
        FailureWrites, FirstRetryWrites, SecondRetryWrites
  <2>3. RunsOfCreatedJobs'
    BY StoreAssumption
    DEF TypeOK, Safe, Coroutines, RunsOfCreatedJobs, Runs, Owning,
        FailureWrites, FirstRetryWrites, SecondRetryWrites
  <2>4. SecondWriteStillOwns'
    BY StoreAssumption
    DEF TypeOK, Safe, Coroutines, SecondWriteStillOwns, Runs, Owning,
        FailureWrites, FirstRetryWrites, SecondRetryWrites
  <2>5. RetryingLeavesBudget'
    BY StoreAssumption
    DEF TypeOK, Safe, Coroutines, RetryingLeavesBudget, Runs, Owning,
        FailureWrites, FirstRetryWrites, SecondRetryWrites
  <2> QED BY <2>1, <2>2, <2>3, <2>4, <2>5 DEF Coroutines
<1>4. BudgetLeft'
  BY StoreAssumption
  DEF TypeOK, Safe, BudgetLeft
<1>5. Jobwise'
  BY StoreAssumption
  DEF TypeOK, Safe, Jobwise, JobAgreesWithTasks, TasksFollowJob, TasksOf,
      JobStatus
<1> QED BY <1>1, <1>2, <1>3, <1>4, <1>5 DEF Safe

\* Acquisition starts only tasks without a running execution, and no
\* coroutine is left on such a task.
LEMMA AcquireSafe ==
  ASSUME TypeOK, TypeOK', Safe, NEW w \in Workers, NEW S \in SUBSET Tasks, Acquire(S),
         runs' = runs \cup {NewRun(w, t) : t \in S}
  PROVE  Safe'
<1>1. \A t \in S : /\ NextAttempt(t) \in Attempts
                   /\ exec'[t] = [exec[t] EXCEPT ![NextAttempt(t)] = "running"]
                   /\ \A a \in Attempts : exec[t][a] # "running"
  BY NextAttemptType DEF TypeOK, Acquire, Acquirable, RunningRow
<1>2. \A t \in S : /\ status[t] = "READY" /\ status'[t] = "RUNNING"
                    /\ retries[t] < MaxRetries[t]
                    /\ ParentsSucceeded(t)
  BY DEF TypeOK, Acquire, Acquirable
<1>3. \A t \in Tasks \ S : exec'[t] = exec[t] /\ status'[t] = status[t]
  BY DEF TypeOK, Acquire
<1>4. \A t \in S, a \in Attempts : exec'[t][a] = "running" <=> a = NextAttempt(t)
  <2> TAKE t \in S, a \in Attempts
  <2>1. exec[t] \in [Attempts -> ExecutionStatus \cup {"none"}]
    BY DEF TypeOK
  <2>2. exec'[t] = [exec[t] EXCEPT ![NextAttempt(t)] = "running"]
    BY <1>1
  <2> QED BY <1>1, <2>1, <2>2
<1>5. \A t \in S : exec'[t][NextAttempt(t)] = "running"
  BY <1>4, <1>1
<1>6. job' = job /\ retries' = retries
  BY DEF Acquire
<1>7. \A r \in runs : r \in Runs /\ r.task \in Tasks \ S
  <2> TAKE r \in runs
  <2>1. r \in Runs /\ r.task \in Tasks /\ r.attempt \in Attempts /\ r.at \in Places
    BY DEF TypeOK, Runs
  <2>2. r.at \in Owning => status[r.task] = "RUNNING"
    BY DEF Safe, Coroutines, DecidesOnThePresent, Current
  <2>3. r.at \in SecondRetryWrites =>
          status[r.task] = "absent" \/ exec[r.task][r.attempt] = "running"
    BY DEF Safe, Coroutines, SecondWriteStillOwns
  <2>4. r.task \in S => status[r.task] = "READY" /\ exec[r.task][r.attempt] # "running"
    BY <1>1, <1>2, <2>1
  <2> QED BY <2>1, <2>2, <2>3, <2>4 DEF Places
<1>8. \A r \in runs' : r \in runs \/ \E t \in S : r = NewRun(w, t)
  OBVIOUS
<1>9. \A t \in S : /\ NewRun(w, t).task = t /\ NewRun(w, t).attempt = NextAttempt(t)
                   /\ NewRun(w, t).retries = retries[t]
                   /\ NewRun(w, t).at = "handling"
  BY DEF NewRun
<1>10. Executions'
  <2>1. OneRunningExecution'
    <3> SUFFICES ASSUME NEW t \in Tasks, NEW a \in Attempts, NEW b \in Attempts,
                        exec'[t][a] = "running", exec'[t][b] = "running"
                 PROVE  a = b
      BY DEF OneRunningExecution
    <3>1. CASE t \in S
      BY <1>4, <3>1
    <3>2. CASE t \notin S
      BY <1>3, <3>2 DEF Safe, Executions, OneRunningExecution
    <3> QED BY <3>1, <3>2
  <2>2. RunningHasExecution'
    <3> SUFFICES ASSUME NEW t \in Tasks, status'[t] = "RUNNING"
                 PROVE  \E a \in Attempts : exec'[t][a] = "running"
      BY DEF RunningHasExecution, RunningRow
    <3>1. CASE t \in S
      BY <1>1, <1>5, <3>1
    <3>2. CASE t \in Tasks \ S
      BY <1>3, <3>2 DEF Safe, Executions, RunningHasExecution, RunningRow
    <3> QED BY <3>1, <3>2
  <2> QED BY <2>1, <2>2 DEF Executions
<1>11. NeverAheadOfParents'
  BY <1>1, <1>2, <1>3, StoreAssumption DEF TypeOK, Safe, NeverAheadOfParents, ParentsSucceeded
<1>12. Coroutines'
  <2>1. DecidesOnThePresent'
    <3> SUFFICES ASSUME NEW r \in runs', r.at \in Owning
                 PROVE  Current(r.task, r.attempt)' /\ r.retries = retries'[r.task]
      BY DEF DecidesOnThePresent
    <3>1. CASE r \in runs
      BY <1>3, <1>6, <1>7, <3>1 DEF Safe, Coroutines, DecidesOnThePresent, Current
    <3>2. ASSUME NEW t \in S, r = NewRun(w, t)
          PROVE  Current(r.task, r.attempt)' /\ r.retries = retries'[r.task]
      BY <1>2, <1>5, <1>6, <1>9, <3>2 DEF Current
    <3> QED BY <1>8, <3>1, <3>2
  <2>2. OneRunPerTask'
    BY <1>7, <1>8, <1>9 DEF Safe, Coroutines, OneRunPerTask
  <2>3. RunsOfCreatedJobs'
    <3>1. \A t \in S : job[JobOf[t]] # "absent"
      BY <1>2 DEF Safe, Jobwise, TasksFollowJob
    <3> QED BY <1>6, <1>8, <1>9, <3>1 DEF Safe, Coroutines, RunsOfCreatedJobs
  <2>4. SecondWriteStillOwns'
    BY <1>3, <1>7, <1>8, <1>9
    DEF Safe, Coroutines, SecondWriteStillOwns, SecondRetryWrites
  <2>5. RetryingLeavesBudget'
    BY <1>8, <1>9 DEF Safe, Coroutines, RetryingLeavesBudget
  <2> QED BY <2>1, <2>2, <2>3, <2>4, <2>5 DEF Coroutines
<1>13. BudgetLeft'
  BY <1>1, <1>2, <1>3, <1>6 DEF Safe, BudgetLeft
<1>14. Jobwise'
  <2>1. TasksFollowJob'
    BY <1>1, <1>2, <1>3, <1>6 DEF Safe, Jobwise, TasksFollowJob
  <2>2. JobAgreesWithTasks'
    <3>1. ASSUME NEW t \in Tasks
          PROVE  \/ status'[t] = status[t]
                 \/ status[t] = "READY" /\ status'[t] = "RUNNING"
      <4>1. CASE t \in S
        BY <1>2, <4>1
      <4>2. CASE t \in Tasks \ S
        BY <1>3, <4>2
      <4> QED BY <4>1, <4>2
    <3> QED BY <1>6, <3>1 DEF Safe, Jobwise, JobAgreesWithTasks, TasksOf
  <2> QED BY <2>1, <2>2 DEF Jobwise
<1> QED BY <1>10, <1>11, <1>12, <1>13, <1>14 DEF Safe

(***************************************************************************)
(* The writes that end a coroutine's hold on its task change one task, and *)
(* no other coroutine is on it.                                            *)
(***************************************************************************)
Alone(r) ==
  /\ r \in Runs
  /\ \A q \in runs \ {r} : q \in Runs /\ q.task \in Tasks \ {r.task}

\* No other coroutine of this worker or of another runs the same task.
LEMMA RunsAlone == ASSUME TypeOK, Safe, NEW r \in runs PROVE Alone(r)
BY DEF TypeOK, Safe, Coroutines, OneRunPerTask, Alone, Runs

\* Only r.task's status, counter and execution r.attempt change.
OnlyOwn(r) ==
  /\ \A t \in Tasks \ {r.task} :
       status'[t] = status[t] /\ retries'[t] = retries[t] /\ exec'[t] = exec[t]
  /\ \A a \in Attempts \ {r.attempt} : exec'[r.task][a] = exec[r.task][a]

\* What every such write keeps, whatever it writes.
LEMMA OwnWriteSafe ==
  ASSUME TypeOK, TypeOK', Safe, NEW r \in runs, r.at \in Owning,
         OnlyOwn(r),
         runs' \subseteq runs \ {r},
         exec'[r.task][r.attempt] # "running",
         status'[r.task] \in {"SUCCESS", "RETRY", "FAILED"},
         retries'[r.task] <= MaxRetries[r.task],
         status'[r.task] # "FAILED" => retries'[r.task] < MaxRetries[r.task],
         \A j \in Jobs : job[j] = "absent" <=> job'[j] = "absent"
  PROVE  Executions' /\ NeverAheadOfParents' /\ Coroutines' /\ BudgetLeft'
<1>1. Alone(r) /\ r.task \in Tasks /\ r.attempt \in Attempts
  BY RunsAlone DEF Alone, Runs
<1>2. exec[r.task][r.attempt] = "running" /\ status[r.task] = "RUNNING"
  BY DEF Safe, Coroutines, DecidesOnThePresent, Current
<1>3. Executions'
  <2>1. OneRunningExecution'
    <3> SUFFICES ASSUME NEW t \in Tasks, NEW a \in Attempts, NEW b \in Attempts,
                        exec'[t][a] = "running", exec'[t][b] = "running"
                 PROVE  a = b
      BY DEF OneRunningExecution
    <3>1. CASE t = r.task
      BY <1>1, <1>2, <3>1 DEF OnlyOwn, Safe, Executions, OneRunningExecution
    <3>2. CASE t # r.task
      BY <3>2 DEF OnlyOwn, Safe, Executions, OneRunningExecution
    <3> QED BY <3>1, <3>2
  <2>2. RunningHasExecution'
    BY <1>1 DEF OnlyOwn, TypeOK, Safe, Executions, RunningHasExecution, RunningRow
  <2> QED BY <2>1, <2>2 DEF Executions
<1>4. NeverAheadOfParents'
  BY <1>1, <1>2, StoreAssumption
  DEF OnlyOwn, Safe, NeverAheadOfParents, ParentsSucceeded
<1>5. Coroutines'
  <2>1. \A q \in runs' : q \in runs /\ q \in Runs /\ q.task \in Tasks \ {r.task}
    BY <1>1 DEF Alone
  <2>2. DecidesOnThePresent'
    BY <2>1 DEF OnlyOwn, Safe, Coroutines, DecidesOnThePresent, Current
  <2>3. OneRunPerTask'
    BY <2>1 DEF Safe, Coroutines, OneRunPerTask
  <2>4. RunsOfCreatedJobs'
    BY <2>1, StoreAssumption DEF Safe, Coroutines, RunsOfCreatedJobs
  <2>5. SecondWriteStillOwns'
    BY <2>1 DEF OnlyOwn, Safe, Coroutines, SecondWriteStillOwns
  <2>6. RetryingLeavesBudget'
    BY <2>1 DEF Safe, Coroutines, RetryingLeavesBudget
  <2> QED BY <2>2, <2>3, <2>4, <2>5, <2>6 DEF Coroutines
<1>6. BudgetLeft'
  BY <1>1 DEF OnlyOwn, Safe, BudgetLeft
<1> QED BY <1>3, <1>4, <1>5, <1>6

\* mark_task_success keeps the invariant.
LEMMA SuccessSafe ==
  ASSUME TypeOK, TypeOK', Safe, NEW r \in runs, WriteSuccess(r)
  PROVE  Safe'
<1>1. Alone(r) /\ r.task \in Tasks /\ r.attempt \in Attempts /\ r.at \in Owning
  BY RunsAlone DEF Alone, Runs, WriteSuccess, Owning
<1>2. Current(r.task, r.attempt)
  BY <1>1 DEF Safe, Coroutines, DecidesOnThePresent
<1>3. MarkSuccess(r.task, r.attempt) /\ runs' = runs \ {r}
  BY <1>2 DEF WriteSuccess
<1>4. OnlyOwn(r) /\ exec'[r.task][r.attempt] # "running" /\ status'[r.task] = "SUCCESS"
  BY <1>1, <1>3 DEF TypeOK, MarkSuccess, OnlyOwn
<1>5. retries' = retries /\ status[r.task] = "RUNNING"
  BY <1>2, <1>3 DEF MarkSuccess, Current
<1>6. retries'[r.task] < MaxRetries[r.task] /\ retries'[r.task] <= MaxRetries[r.task]
  BY <1>1, <1>5 DEF Safe, BudgetLeft
<1>7. \A j \in Jobs : \/ job'[j] = job[j]
                      \/ /\ job[j] = "pending" /\ job'[j] = "completed"
                         /\ j = JobOf[r.task]
                         /\ \A t \in TasksOf(j) : status'[t] = "SUCCESS"
  BY <1>3 DEF TypeOK, MarkSuccess, JobAfterSuccess
<1>8. job[JobOf[r.task]] = "pending" /\ (\A t \in TasksOf(JobOf[r.task]) : status'[t] = "SUCCESS")
        => job'[JobOf[r.task]] = "completed"
  BY <1>1, <1>3, StoreAssumption DEF TypeOK, MarkSuccess, JobAfterSuccess
<1>9. \A j \in Jobs : job[j] = "absent" <=> job'[j] = "absent"
  BY <1>7
<1>10. Executions' /\ NeverAheadOfParents' /\ Coroutines' /\ BudgetLeft'
  BY <1>1, <1>3, <1>4, <1>6, <1>9, OwnWriteSafe
<1>11. TasksFollowJob'
  BY <1>1, <1>4, <1>5, <1>7, StoreAssumption DEF OnlyOwn, Safe, Jobwise, TasksFollowJob
<1>12. JobAgreesWithTasks'
  <2> SUFFICES ASSUME NEW j \in Jobs
               PROVE  /\ (\E t \in TasksOf(j) : status'[t] = "FAILED") => job'[j] = "failed"
                      /\ job'[j] = "completed" => \A t \in TasksOf(j) : status'[t] = "SUCCESS"
                      /\ job'[j] = "pending" => \E t \in TasksOf(j) : status'[t] # "SUCCESS"
    BY DEF JobAgreesWithTasks, TasksOf
  <2>1. ASSUME NEW t \in TasksOf(j)
        PROVE  \/ status'[t] = status[t]
               \/ t = r.task /\ status'[t] = "SUCCESS"
    <3>1. CASE t = r.task
      BY <1>4, <3>1
    <3>2. CASE t \in Tasks \ {r.task}
      BY <1>4, <3>2 DEF OnlyOwn
    <3> QED BY <3>1, <3>2 DEF TasksOf
  <2>2. /\ (\E t \in TasksOf(j) : status[t] = "FAILED") => job[j] = "failed"
        /\ job[j] = "completed" => \A t \in TasksOf(j) : status[t] = "SUCCESS"
        /\ job[j] = "pending" => \E t \in TasksOf(j) : status[t] # "SUCCESS"
    BY DEF Safe, Jobwise, JobAgreesWithTasks
  <2>3. r.task \in TasksOf(j) => j = JobOf[r.task]
    BY DEF TasksOf
  <2> QED BY <1>4, <1>7, <1>8, <2>1, <2>2, <2>3
<1> QED BY <1>10, <1>11, <1>12 DEF Safe, Jobwise

\* mark_task_failure keeps the invariant.
LEMMA FailureSafe ==
  ASSUME TypeOK, TypeOK', Safe, NEW r \in runs, WriteFailure(r)
  PROVE  Safe'
<1>1. Alone(r) /\ r.task \in Tasks /\ r.attempt \in Attempts /\ r.at \in Owning
  BY RunsAlone DEF Alone, Runs, WriteFailure, Owning
<1>2. Current(r.task, r.attempt)
  BY <1>1 DEF Safe, Coroutines, DecidesOnThePresent
<1>3. PICK delay : MarkFailure(r.task, r.attempt, r.at = "timedOut", r.at = "fatal", delay)
  BY <1>2 DEF WriteFailure
<1>4. runs' = runs \ {r}
  BY DEF WriteFailure
<1>5. OnlyOwn(r)
  BY <1>1, <1>3 DEF TypeOK, MarkFailure, OnlyOwn
<1>6. exec'[r.task][r.attempt] # "running" /\ status'[r.task] \in {"RETRY", "FAILED"}
  BY <1>1, <1>3 DEF TypeOK, MarkFailure, RetriesAgain
<1>7. /\ retries'[r.task] = retries[r.task] + 1
      /\ status'[r.task] # "FAILED" => retries'[r.task] < MaxRetries[r.task]
  BY <1>1, <1>3 DEF TypeOK, MarkFailure, RetriesAgain
<1>8. status[r.task] = "RUNNING" /\ retries[r.task] < MaxRetries[r.task]
  BY <1>1, <1>2 DEF Current, Safe, BudgetLeft
<1>9. retries'[r.task] <= MaxRetries[r.task]
  BY <1>1, <1>7, <1>8, StoreAssumption DEF TypeOK
<1>10. \A j \in Jobs : \/ job'[j] = job[j]
                       \/ job[j] = "pending" /\ job'[j] = "failed"
  BY <1>3 DEF TypeOK, MarkFailure, JobAfterFailure
<1>11. status'[r.task] = "FAILED" /\ job[JobOf[r.task]] = "pending"
         => job'[JobOf[r.task]] = "failed"
  <2>1. status'[r.task] = "FAILED" => job' = JobAfterFailure({r.task})
    BY <1>1, <1>3 DEF TypeOK, MarkFailure, RetriesAgain
  <2>2. JobOf[r.task] \in Jobs
    BY <1>1, StoreAssumption
  <2> QED BY <2>1, <2>2 DEF JobAfterFailure
<1>12. Executions' /\ NeverAheadOfParents' /\ Coroutines' /\ BudgetLeft'
  BY <1>1, <1>4, <1>5, <1>6, <1>7, <1>9, <1>10, OwnWriteSafe
<1>13. TasksFollowJob'
  BY <1>1, <1>5, <1>6, <1>8, <1>10, StoreAssumption
  DEF OnlyOwn, Safe, Jobwise, TasksFollowJob
<1>14. JobAgreesWithTasks'
  <2> SUFFICES ASSUME NEW j \in Jobs
               PROVE  /\ (\E t \in TasksOf(j) : status'[t] = "FAILED") => job'[j] = "failed"
                      /\ job'[j] = "completed" => \A t \in TasksOf(j) : status'[t] = "SUCCESS"
                      /\ job'[j] = "pending" => \E t \in TasksOf(j) : status'[t] # "SUCCESS"
    BY DEF JobAgreesWithTasks, TasksOf
  <2>1. /\ (\E t \in TasksOf(j) : status[t] = "FAILED") => job[j] = "failed"
        /\ job[j] = "completed" => \A t \in TasksOf(j) : status[t] = "SUCCESS"
        /\ job[j] = "pending" => \E t \in TasksOf(j) : status[t] # "SUCCESS"
    BY DEF Safe, Jobwise, JobAgreesWithTasks
  <2>2. CASE j # JobOf[r.task]
    <3>1. \A t \in TasksOf(j) : status'[t] = status[t]
      BY <1>5, <2>2 DEF OnlyOwn, TasksOf
    <3>2. job'[j] = job[j]
      BY <1>3, <2>2 DEF TypeOK, MarkFailure, JobAfterFailure
    <3> QED BY <2>1, <3>1, <3>2
  <2>3. CASE j = JobOf[r.task]
    <3>1. r.task \in TasksOf(j) /\ job[j] \in {"pending", "failed"}
      BY <1>1, <1>8, <2>1, <2>3, StoreAssumption
      DEF TasksOf, TypeOK, JobStatus, Safe, Jobwise, TasksFollowJob
    <3>2. \A t \in TasksOf(j) : status'[t] = status[t] \/ t = r.task
      BY <1>5 DEF OnlyOwn, TasksOf
    <3> QED BY <1>6, <1>10, <1>11, <2>1, <2>3, <3>1, <3>2
  <2> QED BY <2>2, <2>3
<1> QED BY <1>12, <1>13, <1>14 DEF Safe, Jobwise


\* The first UPDATE of a retry: the task goes back to RETRY while its
\* execution still runs, and the coroutine keeps the second UPDATE to do.
LEMMA RetryTaskSafe ==
  ASSUME TypeOK, TypeOK', Safe, NEW r \in runs, WriteRetryTask(r)
  PROVE  Safe'
<1> DEFINE place == IF r.at = "retrying" THEN "retryingExec" ELSE "waitingExec"
           moved == [r EXCEPT !.at = place]
<1>1. Alone(r) /\ r.task \in Tasks /\ r.attempt \in Attempts /\ r.at \in Owning
  BY RunsAlone DEF Alone, Runs, WriteRetryTask, Owning
<1>2. exec[r.task][r.attempt] = "running" /\ status[r.task] = "RUNNING"
  BY <1>1 DEF Safe, Coroutines, DecidesOnThePresent, Current
<1>3. PICK delay : RetryTaskRow(r.task, r.at = "retrying", delay)
  BY DEF WriteRetryTask
<1>4. /\ status' = [status EXCEPT ![r.task] = "RETRY"]
      /\ retries' = IF r.at = "retrying" THEN [retries EXCEPT ![r.task] = @ + 1]
                                         ELSE retries
      /\ job' = job /\ exec' = exec
  BY <1>2, <1>3 DEF RetryTaskRow
<1>5. \A q \in runs' : q = moved \/ (q \in runs /\ q \in Runs /\ q.task \in Tasks \ {r.task})
  BY <1>1 DEF WriteRetryTask, MoveTo, Alone
<1>6. /\ moved.task = r.task /\ moved.attempt = r.attempt
      /\ moved.at \in SecondRetryWrites /\ moved.at \notin Owning /\ moved.at # "retrying"
  BY <1>1 DEF Alone, Runs, SecondRetryWrites, Owning, FailureWrites, FirstRetryWrites
<1>7. \A t \in Tasks : status'[t] = status[t] \/ (t = r.task /\ status'[t] = "RETRY")
  BY <1>4 DEF TypeOK
<1>8. \A t \in Tasks \ {r.task} : status'[t] = status[t] /\ retries'[t] = retries[t]
  BY <1>4 DEF TypeOK
<1>9. status'[r.task] = "RETRY"
  BY <1>1, <1>4 DEF TypeOK
<1>10. Executions'
  BY <1>4, <1>7 DEF Safe, Executions, OneRunningExecution, RunningHasExecution, RunningRow
<1>11. NeverAheadOfParents'
  BY <1>1, <1>2, <1>7, <1>8, StoreAssumption DEF Safe, NeverAheadOfParents, ParentsSucceeded
<1>12. Coroutines'
  <2>1. DecidesOnThePresent'
    BY <1>4, <1>5, <1>6, <1>8 DEF Safe, Coroutines, DecidesOnThePresent, Current
  <2>2. OneRunPerTask'
    BY <1>5, <1>6 DEF Safe, Coroutines, OneRunPerTask
  <2>3. RunsOfCreatedJobs'
    BY <1>4, <1>5, <1>6 DEF Safe, Coroutines, RunsOfCreatedJobs
  <2>4. SecondWriteStillOwns'
    BY <1>2, <1>4, <1>5, <1>6, <1>8, <1>9 DEF Safe, Coroutines, SecondWriteStillOwns
  <2>5. RetryingLeavesBudget'
    BY <1>5, <1>6 DEF Safe, Coroutines, RetryingLeavesBudget
  <2> QED BY <2>1, <2>2, <2>3, <2>4, <2>5 DEF Coroutines
<1>13. BudgetLeft'
  <2>1. retries'[r.task] < MaxRetries[r.task]
    <3>1. CASE r.at = "retrying"
      <4>1. r.retries + 1 < MaxRetries[r.task] /\ r.retries = retries[r.task]
        BY <1>1, <3>1 DEF Safe, Coroutines, RetryingLeavesBudget, DecidesOnThePresent
      <4> QED BY <1>1, <1>4, <3>1, <4>1 DEF TypeOK
    <3>2. CASE r.at # "retrying"
      BY <1>1, <1>2, <1>4, <3>2 DEF Safe, BudgetLeft
    <3> QED BY <3>1, <3>2
  <2>2. \A t \in Tasks \ {r.task} :
          /\ retries'[t] <= MaxRetries[t]
          /\ status'[t] # "FAILED" => retries'[t] < MaxRetries[t]
    BY <1>8 DEF Safe, BudgetLeft
  <2>3. retries'[r.task] <= MaxRetries[r.task]
    BY <1>1, <2>1, StoreAssumption DEF TypeOK
  <2> QED BY <2>1, <2>2, <2>3 DEF BudgetLeft
<1>14. Jobwise'
  BY <1>2, <1>4, <1>7 DEF Safe, Jobwise, JobAgreesWithTasks, TasksFollowJob, TasksOf
<1> QED BY <1>10, <1>11, <1>12, <1>13, <1>14 DEF Safe

\* The second UPDATE closes an execution that no other coroutine is on, and
\* whose task is no longer RUNNING.
LEMMA RetryExecutionSafe ==
  ASSUME TypeOK, TypeOK', Safe, NEW r \in runs, WriteRetryExecution(r)
  PROVE  Safe'
<1>1. Alone(r) /\ r.task \in Tasks /\ r.attempt \in Attempts
  BY RunsAlone DEF Alone, Runs
<1>2. status[r.task] # "RUNNING"
  BY DEF WriteRetryExecution, Safe, Coroutines, SecondWriteStillOwns
<1>3. job' = job /\ status' = status /\ retries' = retries /\ runs' = runs \ {r}
  BY DEF WriteRetryExecution, RetryExecutionRow
<1>4. \A t \in Tasks \ {r.task} : exec'[t] = exec[t]
  BY DEF TypeOK, WriteRetryExecution, RetryExecutionRow
<1>5. \A t \in Tasks, a \in Attempts : exec'[t][a] = "running" => exec[t][a] = "running"
  BY <1>1 DEF TypeOK, WriteRetryExecution, RetryExecutionRow
<1>6. \A q \in runs' : q \in runs /\ q \in Runs /\ q.task \in Tasks \ {r.task}
  BY <1>1, <1>3 DEF Alone
<1>7. Executions'
  BY <1>2, <1>3, <1>4, <1>5
  DEF Safe, Executions, OneRunningExecution, RunningHasExecution, RunningRow
<1>8. NeverAheadOfParents'
  BY <1>3 DEF Safe, NeverAheadOfParents, ParentsSucceeded
<1>9. Coroutines'
  <2>1. DecidesOnThePresent'
    BY <1>3, <1>4, <1>6 DEF Safe, Coroutines, DecidesOnThePresent, Current
  <2>2. SecondWriteStillOwns'
    BY <1>3, <1>4, <1>6 DEF Safe, Coroutines, SecondWriteStillOwns
  <2>3. OneRunPerTask' /\ RunsOfCreatedJobs' /\ RetryingLeavesBudget'
    BY <1>3 DEF Safe, Coroutines, OneRunPerTask, RunsOfCreatedJobs, RetryingLeavesBudget
  <2> QED BY <2>1, <2>2, <2>3 DEF Coroutines
<1>10. BudgetLeft'
  BY <1>3 DEF Safe, BudgetLeft
<1>11. Jobwise'
  BY <1>3 DEF Safe, Jobwise, JobAgreesWithTasks, TasksFollowJob
<1> QED BY <1>7, <1>8, <1>9, <1>10, <1>11 DEF Safe

\* Changing where an owning coroutine stands, to another owning place.
LEMMA MoveSafe ==
  ASSUME TypeOK, TypeOK', Safe, NEW r \in runs, NEW place \in Owning,
         r.at \in Owning, place = "retrying" => r.retries + 1 < MaxRetries[r.task],
         runs' = MoveTo(r, place), UNCHANGED <<storeVars, worker>>
  PROVE  Safe'
<1> DEFINE moved == [r EXCEPT !.at = place]
<1>1. Alone(r)
  BY RunsAlone
<1>2. /\ moved.task = r.task /\ moved.attempt = r.attempt /\ moved.retries = r.retries
      /\ moved.at = place
  BY <1>1 DEF Alone, Runs
<1>3. \A q \in runs' : q = moved \/ q \in runs \ {r}
  BY DEF MoveTo
<1> HIDE DEF moved
<1>4. job' = job /\ status' = status /\ retries' = retries /\ exec' = exec
  BY DEF storeVars
<1>5. Executions' /\ NeverAheadOfParents' /\ BudgetLeft' /\ Jobwise'
  BY <1>4
  DEF Safe, Executions, OneRunningExecution, RunningHasExecution, RunningRow,
      NeverAheadOfParents, ParentsSucceeded, BudgetLeft, Jobwise, JobAgreesWithTasks,
      TasksFollowJob
<1>6. DecidesOnThePresent'
  <2>1. \A q \in runs : q.at \in Owning =>
          Current(q.task, q.attempt) /\ q.retries = retries[q.task]
    BY DEF Safe, Coroutines, DecidesOnThePresent
  <2>2. \A t, a : Current(t, a)' <=> Current(t, a)
    BY <1>4 DEF Current
  <2> QED BY <1>2, <1>3, <1>4, <2>1, <2>2 DEF DecidesOnThePresent
<1>7. OneRunPerTask' /\ RunsOfCreatedJobs'
  BY <1>1, <1>2, <1>3, <1>4 DEF Alone, Safe, Coroutines, OneRunPerTask, RunsOfCreatedJobs
<1>8. place \notin SecondRetryWrites
  BY DEF Owning, FailureWrites, FirstRetryWrites, SecondRetryWrites
<1>9. SecondWriteStillOwns' /\ RetryingLeavesBudget'
  BY <1>2, <1>3, <1>4, <1>8
  DEF Safe, Coroutines, SecondWriteStillOwns, RetryingLeavesBudget
<1> QED BY <1>5, <1>6, <1>7, <1>9 DEF Safe, Coroutines

\* One step of one coroutine.
LEMMA RunStepSafe ==
  ASSUME TypeOK, TypeOK', Safe, NEW r \in runs,
         RunStep(r) \/ WriteRaises(r) \/ Heartbeat(r)
  PROVE  Safe'
<1>1. CASE FinishHandling(r)
  <2>1. PICK place \in AfterHandling(r) : runs' = MoveTo(r, place)
    BY <1>1 DEF FinishHandling
  <2>2. r.retries \in Nat /\ MaxRetries[r.task] \in Nat
    BY StoreAssumption DEF TypeOK, Runs
  <2>3. place \in Owning /\ (place = "retrying" => r.retries + 1 < MaxRetries[r.task])
    BY <2>2 DEF AfterHandling, AfterRetryable, Owning, FailureWrites, FirstRetryWrites
  <2>4. r.at \in Owning
    BY <1>1 DEF FinishHandling, Owning
  <2> QED BY <1>1, <2>1, <2>3, <2>4, MoveSafe DEF FinishHandling
<1>2. CASE WriteSuccess(r)
  BY <1>2, SuccessSafe
<1>3. CASE WriteFailure(r)
  BY <1>3, FailureSafe
<1>4. CASE WriteRetryTask(r)
  BY <1>4, RetryTaskSafe
<1>5. CASE WriteRetryExecution(r)
  BY <1>5, RetryExecutionSafe
<1>6. CASE WriteRaises(r)
  <2>1. CASE r.at = "succeeding"
    <3>1. "raised" \in Owning /\ r.at \in Owning
      BY <2>1 DEF Owning, FailureWrites
    <3> QED BY <1>6, <2>1, <3>1, MoveSafe DEF WriteRaises
  <2>2. CASE r.at # "succeeding"
    BY <1>6, <2>2, ProcessSafe DEF WriteRaises, storeVars
  <2> QED BY <2>1, <2>2
<1>7. CASE Heartbeat(r)
  BY <1>7, ProcessSafe DEF Heartbeat, RenewLease
<1> QED BY <1>1, <1>2, <1>3, <1>4, <1>5, <1>6, <1>7 DEF RunStep

\* One step of the runtime, while nobody recovers expired executions.
LEMMA SafeStep ==
  ASSUME Recovery = FALSE, TypeOK, TypeOK', Safe, [Next]_vars
  PROVE  Safe'
<1>1. ASSUME NEW j \in Jobs, ApiCreateJob(j) \/ ApiDeleteJob(j)
      PROVE  Safe'
  BY <1>1, CreateSafe, DeleteSafe
<1>2. ASSUME NEW t \in Tasks, ApiRetryTask(t)
      PROVE  Safe'
  BY <1>2, ResetSafe
<1>3. ASSUME NEW t \in Tasks, BackoffPasses(t)
      PROVE  Safe'
  BY <1>3, ProcessSafe DEF BackoffPasses, BackoffEnds
<1>4. ASSUME NEW t \in Tasks, NEW a \in Attempts, LeasePasses(t, a)
      PROVE  Safe'
  BY <1>4, ProcessSafe DEF LeasePasses, LeaseLapses
<1>5. CASE SchedulerTick
  <2>1. PICK S \in SUBSET Tasks : Promote(S)
    BY <1>5 DEF SchedulerTick, TopOf
  <2> QED BY <1>5, <2>1, PromoteSafe DEF SchedulerTick
<1>6. CASE RecoveryTick
  BY <1>6 DEF RecoveryTick
<1>7. ASSUME NEW w \in Workers, AcquireBatch(w)
      PROVE  Safe'
  <2>1. PICK S \in SUBSET Tasks :
          Acquire(S) /\ runs' = runs \cup {NewRun(w, t) : t \in S}
    BY <1>7 DEF AcquireBatch, TopOf
  <2> QED BY <2>1, AcquireSafe
<1>8. ASSUME NEW w \in Workers, RequestStop(w) \/ Drained(w) \/ Crash(w) \/ Start(w)
      PROVE  Safe'
  BY <1>8, ProcessSafe DEF RequestStop, Drained, Crash, Start, storeVars
<1>9. CASE UNCHANGED vars
  BY <1>9, ProcessSafe DEF vars
<1> QED
  BY <1>1, <1>2, <1>3, <1>4, <1>5, <1>6, <1>7, <1>8, <1>9, RunStepSafe DEF Next

\* While nobody calls recover_expired_executions, the runtime is safe: every
\* part of IInv holds in every state, for any jobs, tasks and workers.
THEOREM Safety == ASSUME Recovery = FALSE PROVE Spec => []IInv
<1>1. ASSUME Init
      PROVE  Safe
  <2> USE <1>1 DEF Init, StoreInit
  <2>1. Executions /\ NeverAheadOfParents
    BY DEF Executions, OneRunningExecution, RunningHasExecution, NeverAheadOfParents
  <2>2. Coroutines
    BY DEF Coroutines, DecidesOnThePresent, OneRunPerTask, RunsOfCreatedJobs,
           SecondWriteStillOwns, RetryingLeavesBudget
  <2>3. BudgetLeft
    BY StoreAssumption DEF BudgetLeft
  <2>4. Jobwise
    BY StoreAssumption DEF Jobwise, JobAgreesWithTasks, TasksFollowJob, TasksOf
  <2> QED BY <2>1, <2>2, <2>3, <2>4 DEF Safe
<1>2. TypeOK /\ TypeOK' /\ Safe /\ [Next]_vars => Safe'
  BY SafeStep
<1>3. Spec => []TypeOK
  BY TypeCorrect
<1>4. TypeOK /\ Safe => IInv
  BY IInvIsSafe
<1>5. Init => Safe
  BY <1>1
<1> QED BY <1>2, <1>3, <1>4, <1>5, PTL DEF Spec

\* Its parts by name.  A coroutine decides on the task's running execution
\* and on the row's retry_count, and the other parts rest on that.
THEOREM DecisionsAreCurrent == ASSUME Recovery = FALSE PROVE Spec => []DecidesOnThePresent
<1>1. IInv => DecidesOnThePresent
  BY DEF IInv
<1> QED BY <1>1, Safety, PTL

\* A dependent never runs ahead of its parents.
THEOREM DependenciesRespected == ASSUME Recovery = FALSE PROVE Spec => []NeverAheadOfParents
<1>1. IInv => NeverAheadOfParents
  BY DEF IInv
<1> QED BY <1>1, Safety, PTL

\* Only a FAILED task has spent its budget.
THEOREM BudgetKept == ASSUME Recovery = FALSE PROVE Spec => []BudgetLeft
<1>1. IInv => BudgetLeft
  BY DEF IInv
<1> QED BY <1>1, Safety, PTL

\* A job's status agrees with its tasks'.
THEOREM JobsAgree == ASSUME Recovery = FALSE PROVE Spec => []JobAgreesWithTasks
<1>1. IInv => JobAgreesWithTasks
  BY DEF IInv
<1> QED BY <1>1, Safety, PTL

\* A RUNNING task always has the row of its execution, through every crash
\* between two writes: the second repair of the script finds nothing.
THEOREM RunningIsRecorded == ASSUME Recovery = FALSE PROVE Spec => []RunningHasExecution
<1>1. IInv => RunningHasExecution
  BY DEF IInv
<1> QED BY <1>1, Safety, PTL

=============================================================================
