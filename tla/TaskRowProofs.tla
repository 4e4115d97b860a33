--------------------------- MODULE TaskRowProofs ---------------------------
(***************************************************************************)
(* More theorems of TaskRuntime. The rows of task_executions: one running  *)
(* execution per task even with recover_expired_executions wired in, rows  *)
(* numbered without a gap, only the newest one running, retry_count as the *)
(* number of the failed ones. And TaskRuntime implements TaskLifecycle.    *)
(***************************************************************************)
EXTENDS TaskRuntimeProofs

-----------------------------------------------------------------------------
(* One running execution, recovery or not: only Acquire starts one.        *)

\* Every running execution after a step was running before it.
NoneStarted ==
  \A t \in Tasks, a \in Attempts : exec'[t][a] = "running" => exec[t][a] = "running"

\* A step that starts no execution cannot make a second one run.
LEMMA NoneStartedKeepsOne ==
  ASSUME OneRunningExecution, NoneStarted PROVE OneRunningExecution'
BY DEF OneRunningExecution, NoneStarted

\* Acquire starts one on tasks without a running execution only.
LEMMA AcquireKeepsOne ==
  ASSUME TypeOK, OneRunningExecution, NEW S \in SUBSET Tasks, Acquire(S)
  PROVE  OneRunningExecution'
<1> SUFFICES ASSUME NEW t \in Tasks, NEW a \in Attempts, NEW b \in Attempts,
                    exec'[t][a] = "running", exec'[t][b] = "running"
             PROVE  a = b
  BY DEF OneRunningExecution
<1>1. exec[t] \in [Attempts -> ExecutionStatus \cup {"none"}]
  BY DEF TypeOK
<1>2. CASE t \in S
  <2>1. exec'[t] = [exec[t] EXCEPT ![NextAttempt(t)] = "running"]
    BY <1>2 DEF Acquire
  <2>2. \A c \in Attempts : exec[t][c] # "running"
    BY <1>2 DEF Acquire, Acquirable, RunningRow
  <2> QED BY <1>1, <2>1, <2>2
<1>3. CASE t \notin S
  BY <1>3 DEF Acquire, OneRunningExecution
<1> QED BY <1>2, <1>3

\* One step of a coroutine starts no execution.
LEMMA RunStepStartsNone ==
  ASSUME TypeOK, NEW r \in runs, RunStep(r) \/ WriteRaises(r) \/ Heartbeat(r)
  PROVE  NoneStarted
<1>0. r.task \in Tasks /\ r.attempt \in Attempts
  BY DEF TypeOK, Runs
<1>1. CASE exec' = exec
  BY <1>1 DEF NoneStarted
<1>2. CASE WriteSuccess(r)
  BY <1>0, <1>2 DEF WriteSuccess, MarkSuccess, storeVars, TypeOK, NoneStarted
<1>3. CASE WriteFailure(r)
  <2>1. CASE Current(r.task, r.attempt)
    <3>1. PICK delay :
            MarkFailure(r.task, r.attempt, r.at = "timedOut", r.at = "fatal", delay)
      BY <1>3, <2>1 DEF WriteFailure
    <3> QED BY <1>0, <3>1 DEF MarkFailure, TypeOK, NoneStarted
  <2>2. CASE ~Current(r.task, r.attempt)
    BY <1>1, <1>3, <2>2 DEF WriteFailure, storeVars
  <2> QED BY <2>1, <2>2
<1>4. CASE WriteRetryExecution(r)
  BY <1>0, <1>4 DEF WriteRetryExecution, RetryExecutionRow, TypeOK, NoneStarted
<1>5. CASE FinishHandling(r) \/ WriteRetryTask(r) \/ WriteRaises(r) \/ Heartbeat(r)
  BY <1>1, <1>5 DEF FinishHandling, WriteRetryTask, RetryTaskRow, WriteRaises, Heartbeat,
                    RenewLease, storeVars
<1> QED BY <1>2, <1>3, <1>4, <1>5 DEF RunStep

\* No step makes a second execution of a task run, recovery included.
LEMMA OneRunningStep ==
  ASSUME TypeOK, OneRunningExecution, [Next]_vars PROVE OneRunningExecution'
<1>1. ASSUME NEW j \in Jobs, ApiCreateJob(j) \/ ApiDeleteJob(j)
      PROVE  NoneStarted
  <2>1. CASE ApiCreateJob(j)
    <3>1. exec' = exec
      BY <2>1 DEF ApiCreateJob, CreateJob
    <3> QED BY <3>1 DEF NoneStarted
  <2>2. CASE ApiDeleteJob(j)
    <3>1. exec' = [t \in Tasks |->
                     IF JobOf[t] = j THEN [a \in Attempts |-> "none"] ELSE exec[t]]
      BY <2>2 DEF ApiDeleteJob, DeleteJob
    <3>2. ASSUME NEW t \in Tasks, NEW a \in Attempts, exec'[t][a] = "running"
          PROVE  exec[t][a] = "running"
      <4>1. CASE JobOf[t] = j
        <5>1. exec'[t][a] = "none"
          BY <3>1, <4>1
        <5> QED BY <3>2, <5>1
      <4>2. CASE JobOf[t] # j
        <5>1. exec'[t] = exec[t]
          BY <3>1, <4>2
        <5> QED BY <3>2, <5>1
      <4> QED BY <4>1, <4>2
    <3> QED BY <3>2 DEF NoneStarted
  <2> QED BY <1>1, <2>1, <2>2
<1>2. ASSUME NEW t \in Tasks, ApiRetryTask(t) \/ BackoffPasses(t)
      PROVE  NoneStarted
  BY <1>2 DEF ApiRetryTask, ResetFailed, BackoffPasses, BackoffEnds, NoneStarted
<1>3. ASSUME NEW t \in Tasks, NEW a \in Attempts, LeasePasses(t, a)
      PROVE  NoneStarted
  BY <1>3 DEF LeasePasses, LeaseLapses, NoneStarted
<1>4. CASE SchedulerTick
  BY <1>4, NoneStartedKeepsOne DEF SchedulerTick, Promote, NoneStarted
<1>5. ASSUME RecoveryTick
      PROVE  NoneStarted
  BY <1>5 DEF RecoveryTick, RecoverExpired, TypeOK, NoneStarted
<1>6. ASSUME NEW w \in Workers, AcquireBatch(w)
      PROVE  OneRunningExecution'
  <2>1. PICK S \in SUBSET Tasks : Acquire(S)
    BY <1>6 DEF AcquireBatch, TopOf
  <2> QED BY <2>1, AcquireKeepsOne
<1>7. ASSUME NEW w \in Workers, RequestStop(w) \/ Drained(w) \/ Crash(w) \/ Start(w)
      PROVE  NoneStarted
  BY <1>7 DEF RequestStop, Drained, Crash, Start, storeVars, NoneStarted
<1>8. CASE UNCHANGED vars
  BY <1>8, NoneStartedKeepsOne DEF vars, NoneStarted
<1> QED
  BY <1>1, <1>2, <1>3, <1>4, <1>5, <1>6, <1>7, <1>8, RunStepStartsNone,
     NoneStartedKeepsOne
  DEF Next

\* A task never has two running executions, whoever reaps or crashes.
THEOREM NeverTwice == Spec => []OneRunningExecution
<1>1. Init => OneRunningExecution
  BY DEF Init, StoreInit, OneRunningExecution
<1>2. TypeOK /\ OneRunningExecution /\ [Next]_vars => OneRunningExecution'
  BY OneRunningStep
<1>3. Spec => []TypeOK
  BY TypeCorrect
<1> QED BY <1>1, <1>2, <1>3, PTL DEF Spec

-----------------------------------------------------------------------------
(* Refinement, while nobody recovers expired executions.                   *)

\* A task without a row has no counter: delete_job resets it with the row.
Fresh == \A t \in Tasks : status[t] = "absent" => retries[t] = 0

\* Task t takes one step of TaskLifecycle.
Abides(t) ==
  \/ Lifecycle!Idle(t)
  \/ Lifecycle!Create(t)
  \/ Lifecycle!Delete(t)
  \/ Lifecycle!Move(t)

Abide == Lifecycle!Next /\ Fresh'

\* A step that moves every task along VALID_TASK_TRANSITIONS is a step of
\* TaskLifecycle.
LEMMA AbideIntro ==
  ASSUME TypeOK, TypeOK', Fresh, \A t \in Tasks : Abides(t)
  PROVE  Abide
<1>1. DOMAIN status' = Tasks /\ DOMAIN retries' = Tasks
  BY DEF TypeOK
<1>2. Fresh'
  <2> SUFFICES ASSUME NEW t \in Tasks, status'[t] = "absent"
               PROVE  retries'[t] = 0
    BY DEF Fresh
  <2>1. status[t] # "absent" => status[t] \in TaskStatus
    BY DEF TypeOK
  <2>2. ~Lifecycle!Move(t)
    BY <2>1 DEF TaskStatus, Lifecycle!Move, Lifecycle!ValidTaskTransitions
  <2> QED BY <2>2 DEF Fresh, Abides, Lifecycle!Idle, Lifecycle!Create, Lifecycle!Delete
<1> QED BY <1>1, <1>2 DEF Abide, Abides, Lifecycle!Next

\* A step that leaves statuses and counters alone.
LEMMA IdleAbides ==
  ASSUME TypeOK, TypeOK', Fresh, UNCHANGED <<status, retries>> PROVE Abide
BY AbideIntro DEF Abides, Lifecycle!Idle

\* create_job is the lifecycle's Create.
LEMMA CreateAbides ==
  ASSUME TypeOK, TypeOK', IInv, Fresh, NEW j \in Jobs, CreateJob(j) PROVE Abide
<1>1. ASSUME NEW t \in Tasks
      PROVE  Abides(t)
  <2>1. CASE JobOf[t] = j
    BY <2>1 DEF IInv, TasksFollowJob, Fresh, CreateJob, Abides, Lifecycle!Create
  <2>2. CASE JobOf[t] # j
    BY <2>2 DEF CreateJob, Abides, Lifecycle!Idle
  <2> QED BY <2>1, <2>2
<1> QED BY <1>1, AbideIntro

\* delete_job is its Delete.
LEMMA DeleteAbides ==
  ASSUME TypeOK, TypeOK', IInv, Fresh, NEW j \in Jobs, DeleteJob(j) PROVE Abide
<1>1. ASSUME NEW t \in Tasks
      PROVE  Abides(t)
  <2>1. CASE JobOf[t] = j
    BY <2>1 DEF IInv, TasksFollowJob, DeleteJob, TasksOf, JobStatus, Abides, Lifecycle!Delete
  <2>2. CASE JobOf[t] # j
    BY <2>2 DEF DeleteJob, Abides, Lifecycle!Idle
  <2> QED BY <2>1, <2>2
<1> QED BY <1>1, AbideIntro

\* reset_failed_task_for_retry moves FAILED to PENDING.
LEMMA ResetAbides ==
  ASSUME TypeOK, TypeOK', Fresh, NEW t \in Tasks, ResetFailed(t) PROVE Abide
<1>1. ASSUME NEW u \in Tasks
      PROVE  Abides(u)
  <2>1. CASE u = t
    BY <2>1 DEF TypeOK, ResetFailed, Abides, Lifecycle!Move, Lifecycle!ValidTaskTransitions
  <2>2. CASE u # t
    BY <2>2 DEF TypeOK, ResetFailed, Abides, Lifecycle!Idle
  <2> QED BY <2>1, <2>2
<1> QED BY <1>1, AbideIntro

\* promote_tasks_to_ready moves PENDING and RETRY to READY.
LEMMA PromoteAbides ==
  ASSUME TypeOK, TypeOK', Fresh, NEW S \in SUBSET Tasks, Promote(S) PROVE Abide
<1>1. ASSUME NEW t \in Tasks
      PROVE  Abides(t)
  <2>1. CASE t \in S
    <3>1. status[t] \in {"PENDING", "RETRY"} /\ status'[t] = "READY" /\ retries'[t] = retries[t]
      BY <2>1 DEF Promote, Promotable
    <3>2. \A p \in Parents[t] : status[p] = "SUCCESS" /\ status'[p] = "SUCCESS"
      BY <2>1, StoreAssumption DEF Promote, Promotable, ParentsSucceeded
    <3> QED BY <3>1, <3>2 DEF Abides, Lifecycle!Move, Lifecycle!ValidTaskTransitions
  <2>2. CASE t \notin S
    BY <2>2 DEF Promote, Abides, Lifecycle!Idle
  <2> QED BY <2>1, <2>2
<1> QED BY <1>1, AbideIntro

\* acquire_ready_tasks_batch moves READY to RUNNING.
LEMMA AcquireAbides ==
  ASSUME TypeOK, TypeOK', Fresh, NEW S \in SUBSET Tasks, Acquire(S) PROVE Abide
<1>1. ASSUME NEW t \in Tasks
      PROVE  Abides(t)
  <2>1. CASE t \in S
    <3>1. status[t] = "READY" /\ status'[t] = "RUNNING" /\ retries'[t] = retries[t]
      BY <2>1 DEF Acquire, Acquirable
    <3>2. \A p \in Parents[t] : status[p] = "SUCCESS" /\ status'[p] = "SUCCESS"
      BY <2>1, StoreAssumption DEF Acquire, Acquirable, ParentsSucceeded
    <3>3. retries[t] < MaxRetries[t]
      BY <2>1 DEF Acquire, Acquirable
    <3> QED BY <3>1, <3>2, <3>3 DEF Abides, Lifecycle!Move, Lifecycle!ValidTaskTransitions
  <2>2. CASE t \notin S
    BY <2>2 DEF Acquire, Abides, Lifecycle!Idle
  <2> QED BY <2>1, <2>2
<1> QED BY <1>1, AbideIntro

\* An attempt's end: one RUNNING task leaves, spending at most one retry.
LEMMA EndAbides ==
  ASSUME TypeOK, TypeOK', Fresh, NEW t \in Tasks, status[t] = "RUNNING",
         NEW new, status' = [status EXCEPT ![t] = new],
         \/ new = "SUCCESS" /\ retries' = retries
         \/ /\ new \in {"RETRY", "FAILED"}
            /\ retries' \in {retries, [retries EXCEPT ![t] = @ + 1]}
  PROVE  Abide
<1>1. ASSUME NEW u \in Tasks
      PROVE  Abides(u)
  <2>1. CASE u = t
    <3>1. /\ status[t] = "RUNNING" /\ status'[t] \in {"SUCCESS", "RETRY", "FAILED"}
          /\ \/ retries'[t] = retries[t]
             \/ status'[t] # "SUCCESS" /\ retries'[t] = retries[t] + 1
      BY DEF TypeOK
    <3> QED BY <2>1, <3>1 DEF Abides, Lifecycle!Move, Lifecycle!ValidTaskTransitions
  <2>2. CASE u # t
    BY <2>2 DEF TypeOK, Abides, Lifecycle!Idle
  <2> QED BY <2>1, <2>2
<1> QED BY <1>1, AbideIntro

\* What a coroutine writes, it writes to the RUNNING task it owns.
LEMMA RunStepAbides ==
  ASSUME TypeOK, TypeOK', IInv, Fresh, NEW r \in runs,
         RunStep(r) \/ WriteRaises(r) \/ Heartbeat(r)
  PROVE  Abide
<1>0. r.task \in Tasks /\ (r.at \in Owning => Current(r.task, r.attempt))
  BY DEF TypeOK, Runs, IInv, DecidesOnThePresent
<1>1. CASE WriteSuccess(r)
  <2>1. MarkSuccess(r.task, r.attempt)
    BY <1>0, <1>1 DEF WriteSuccess, Owning
  <2> QED BY <1>0, <2>1, EndAbides DEF MarkSuccess, Current
<1>2. CASE WriteFailure(r)
  <2>1. PICK delay : MarkFailure(r.task, r.attempt, r.at = "timedOut", r.at = "fatal", delay)
    BY <1>0, <1>2 DEF WriteFailure, Owning
  <2> QED BY <1>0, <2>1, EndAbides DEF MarkFailure, Current
<1>3. CASE WriteRetryTask(r)
  <2>1. PICK delay : RetryTaskRow(r.task, r.at = "retrying", delay)
    BY <1>3 DEF WriteRetryTask
  <2>2. status[r.task] = "RUNNING"
    BY <1>0, <1>3 DEF WriteRetryTask, Owning, Current
  <2> QED BY <1>0, <2>1, <2>2, EndAbides DEF RetryTaskRow
<1>4. CASE WriteRetryExecution(r)
  BY <1>4, IdleAbides DEF WriteRetryExecution, RetryExecutionRow
<1>5. CASE FinishHandling(r) \/ WriteRaises(r) \/ Heartbeat(r)
  BY <1>5, IdleAbides DEF FinishHandling, WriteRaises, Heartbeat, RenewLease, storeVars
<1> QED BY <1>1, <1>2, <1>3, <1>4, <1>5 DEF RunStep

\* Every step of the system is one of the lifecycle, or changes no task.
LEMMA NextAbides ==
  ASSUME Recovery = FALSE, IInv, IInv', Fresh, [Next]_vars PROVE Abide
<1>0. TypeOK /\ TypeOK'
  BY DEF IInv
<1>1. ASSUME NEW j \in Jobs, ApiCreateJob(j) \/ ApiDeleteJob(j)
      PROVE  Abide
  BY <1>0, <1>1, CreateAbides, DeleteAbides DEF ApiCreateJob, ApiDeleteJob
<1>2. ASSUME NEW t \in Tasks, ApiRetryTask(t)
      PROVE  Abide
  BY <1>0, <1>2, ResetAbides DEF ApiRetryTask
<1>3. ASSUME NEW t \in Tasks, BackoffPasses(t)
      PROVE  Abide
  BY <1>0, <1>3, IdleAbides DEF BackoffPasses, BackoffEnds
<1>4. ASSUME NEW t \in Tasks, NEW a \in Attempts, LeasePasses(t, a)
      PROVE  Abide
  BY <1>0, <1>4, IdleAbides DEF LeasePasses, LeaseLapses
<1>5. CASE SchedulerTick
  <2>1. PICK S \in SUBSET Tasks : Promote(S)
    BY <1>5 DEF SchedulerTick, TopOf
  <2> QED BY <1>0, <2>1, PromoteAbides
<1>6. CASE RecoveryTick
  BY <1>6 DEF RecoveryTick
<1>7. ASSUME NEW w \in Workers, AcquireBatch(w)
      PROVE  Abide
  <2>1. PICK S \in SUBSET Tasks : Acquire(S)
    BY <1>7 DEF AcquireBatch, TopOf
  <2> QED BY <1>0, <2>1, AcquireAbides
<1>8. ASSUME NEW w \in Workers, RequestStop(w) \/ Drained(w) \/ Crash(w) \/ Start(w)
      PROVE  Abide
  BY <1>0, <1>8, IdleAbides DEF RequestStop, Drained, Crash, Start, storeVars
<1>9. CASE UNCHANGED vars
  BY <1>0, <1>9, IdleAbides DEF vars
<1> QED
  BY <1>0, <1>1, <1>2, <1>3, <1>4, <1>5, <1>6, <1>7, <1>8, <1>9, RunStepAbides DEF Next

\* The runtime implements the life cycle of a task: every change of a status
\* is one of VALID_TASK_TRANSITIONS, gated by parents and budget.
THEOREM Refinement == ASSUME Recovery = FALSE PROVE Spec => ImplementsLifecycle
<1>1. Init => Lifecycle!Init /\ Fresh
  BY DEF Init, StoreInit, Lifecycle!Init, Fresh
<1>2. IInv /\ IInv' /\ Fresh /\ [Next]_vars => Fresh' /\ Lifecycle!Next
  BY NextAbides DEF Abide
<1>3. Spec => []IInv
  BY Safety
<1> QED BY <1>1, <1>2, <1>3, PTL DEF Spec, ImplementsLifecycle, Lifecycle!Spec

-----------------------------------------------------------------------------
(* The rows of a task, with or without recovery                            *)

\* A task's rows are its attempts so far, and only the last of them may run:
\* what COUNT(*) + 1 as the next attempt_number takes for granted.
RowsInOrder ==
  \A t \in Tasks : \E n \in 0 .. MaxAttempts :
    /\ Rows(t) = 1 .. n
    /\ \A a \in Attempts : exec[t][a] = "running" => a = n

\* The newest row is the one the number of rows names.
LEMMA NewestRow ==
  ASSUME RowsInOrder, NEW t \in Tasks
  PROVE  /\ Cardinality(Rows(t)) \in 0 .. MaxAttempts
         /\ Rows(t) = 1 .. Cardinality(Rows(t))
         /\ \A a \in Attempts : exec[t][a] = "running" => a = Cardinality(Rows(t))
<1>1. PICK n \in 0 .. MaxAttempts :
        Rows(t) = 1 .. n /\ \A a \in Attempts : exec[t][a] = "running" => a = n
  BY DEF RowsInOrder
<1>2. n \in Nat
  BY <1>1, StoreAssumption
<1>3. Cardinality(1 .. n) = n
  BY <1>2, FS_Interval
<1> QED BY <1>1, <1>2, <1>3

\* The next attempt's number is free.
LEMMA NextRowIsFree ==
  ASSUME TypeOK, RowsInOrder, NEW t \in Tasks, Acquirable(t)
  PROVE  NextAttempt(t) \in Attempts /\ exec[t][NextAttempt(t)] = "none"
<1>1. NextAttempt(t) \in Attempts
  BY NextAttemptType
<1>2. NextAttempt(t) \notin Rows(t)
  BY NewestRow DEF NextAttempt
<1> QED BY <1>1, <1>2 DEF Rows

\* A step that opens no row and removes none keeps them in order.
ClosesRows ==
  \A t \in Tasks, a \in Attempts :
    /\ exec'[t][a] = "none" <=> exec[t][a] = "none"
    /\ exec'[t][a] = "running" => exec[t][a] = "running"

LEMMA ClosedInOrder == ASSUME RowsInOrder, ClosesRows PROVE RowsInOrder'
<1>1. \A t \in Tasks : Rows(t)' = Rows(t)
  BY DEF ClosesRows, Rows
<1> QED BY <1>1 DEF RowsInOrder, ClosesRows

\* An acquisition opens the row after the last, of tasks of which none runs.
LEMMA AcquiredInOrder ==
  ASSUME TypeOK, RowsInOrder, NEW S \in SUBSET Tasks, Acquire(S)
  PROVE  RowsInOrder'
<1> SUFFICES ASSUME NEW t \in Tasks
             PROVE  \E n \in 0 .. MaxAttempts :
                      /\ Rows(t)' = 1 .. n
                      /\ \A a \in Attempts : exec'[t][a] = "running" => a = n
  BY DEF RowsInOrder
<1> DEFINE m == Cardinality(Rows(t))
<1>1. /\ m \in 0 .. MaxAttempts
      /\ Rows(t) = 1 .. m
      /\ \A a \in Attempts : exec[t][a] = "running" => a = m
  BY NewestRow
<1>2. CASE t \notin S
  <2>1. exec'[t] = exec[t]
    BY <1>2 DEF Acquire
  <2>2. Rows(t)' = Rows(t)
    BY <2>1 DEF Rows
  <2> QED BY <1>1, <2>1, <2>2
<1>3. CASE t \in S
  <2>1. Acquirable(t) /\ exec'[t] = [exec[t] EXCEPT ![m + 1] = "running"]
    BY <1>3 DEF Acquire, NextAttempt
  <2>2. m + 1 \in Attempts /\ MaxAttempts \in Nat
    BY <2>1, NextRowIsFree, StoreAssumption DEF NextAttempt
  <2>3. \A a \in Attempts : exec'[t][a] = IF a = m + 1 THEN "running" ELSE exec[t][a]
    BY <2>1, <2>2 DEF TypeOK
  <2>4. Rows(t)' = Rows(t) \cup {m + 1}
    BY <2>2, <2>3 DEF Rows
  <2>5. Rows(t)' = 1 .. m + 1
    BY <1>1, <2>2, <2>4
  <2>6. \A a \in Attempts : exec[t][a] # "running"
    BY <2>1 DEF Acquirable, RunningRow
  <2>7. m + 1 \in 0 .. MaxAttempts
    BY <1>1, <2>2 DEF Attempts
  <2> QED BY <2>3, <2>5, <2>6, <2>7
<1> QED BY <1>2, <1>3

\* A deleted job takes all rows of its tasks along.
LEMMA DeletedInOrder ==
  ASSUME RowsInOrder, NEW j \in Jobs, DeleteJob(j)
  PROVE  RowsInOrder'
<1> SUFFICES ASSUME NEW t \in Tasks
             PROVE  \E n \in 0 .. MaxAttempts :
                      /\ Rows(t)' = 1 .. n
                      /\ \A a \in Attempts : exec'[t][a] = "running" => a = n
  BY DEF RowsInOrder
<1>1. CASE JobOf[t] = j
  <2>1. \A a \in Attempts : exec'[t][a] = "none"
    BY <1>1 DEF DeleteJob
  <2>2. Rows(t)' = 1 .. 0
    BY <2>1 DEF Rows
  <2>3. 0 \in 0 .. MaxAttempts
    BY StoreAssumption
  <2> QED BY <2>1, <2>2, <2>3
<1>2. CASE JobOf[t] # j
  <2>1. exec'[t] = exec[t]
    BY <1>2 DEF DeleteJob
  <2>2. Rows(t)' = Rows(t)
    BY <2>1 DEF Rows
  <2> QED BY <2>1, <2>2 DEF RowsInOrder
<1> QED BY <1>1, <1>2

\* One step of one coroutine closes its own row at most.
LEMMA RunCloses ==
  ASSUME TypeOK, NEW r \in runs, RunStep(r) \/ WriteRaises(r) \/ Heartbeat(r)
  PROVE  ClosesRows
<1>1. r.task \in Tasks /\ r.attempt \in Attempts
  BY DEF TypeOK, Runs
<1>2. \/ exec' = exec
      \/ exec[r.task][r.attempt] # "none"
         /\ \E s \in {"succeeded", "failed", "timed_out"} :
              exec' = [exec EXCEPT ![r.task][r.attempt] = s]
  BY DEF RunStep, FinishHandling, WriteSuccess, MarkSuccess, WriteFailure, MarkFailure,
         WriteRetryTask, RetryTaskRow, WriteRetryExecution, RetryExecutionRow, WriteRaises,
         Heartbeat, RenewLease, Current, storeVars
<1> QED BY <1>1, <1>2 DEF TypeOK, ClosesRows

\* Every step of the runtime keeps the rows in order, that of the recovery too.
LEMMA RowsStep == TypeOK /\ RowsInOrder /\ [Next]_vars => RowsInOrder'
<1> SUFFICES ASSUME TypeOK, RowsInOrder, [Next]_vars
             PROVE  RowsInOrder'
  OBVIOUS
<1>1. ASSUME exec' = exec
      PROVE  RowsInOrder'
  BY <1>1, ClosedInOrder DEF ClosesRows
<1>2. ASSUME NEW j \in Jobs, ApiCreateJob(j) \/ ApiDeleteJob(j)
      PROVE  RowsInOrder'
  BY <1>1, <1>2, DeletedInOrder DEF ApiCreateJob, CreateJob, ApiDeleteJob
<1>3. ASSUME NEW t \in Tasks, ApiRetryTask(t) \/ BackoffPasses(t)
      PROVE  RowsInOrder'
  BY <1>1, <1>3 DEF ApiRetryTask, ResetFailed, BackoffPasses, BackoffEnds
<1>4. ASSUME NEW t \in Tasks, NEW a \in Attempts, LeasePasses(t, a)
      PROVE  RowsInOrder'
  BY <1>1, <1>4 DEF LeasePasses, LeaseLapses
<1>5. CASE SchedulerTick
  BY <1>1, <1>5 DEF SchedulerTick, Promote
<1>6. CASE RecoveryTick
  <2>1. exec' = [t \in Tasks |-> [a \in Attempts |->
                   IF <<t, a>> \in Expired THEN "failed" ELSE exec[t][a]]]
    BY <1>6 DEF RecoveryTick, RecoverExpired
  <2>2. \A e \in Expired : exec[e[1]][e[2]] = "running"
    BY DEF Expired, Current
  <2>3. ClosesRows
    BY <2>1, <2>2 DEF ClosesRows
  <2> QED BY <2>3, ClosedInOrder
<1>7. ASSUME NEW w \in Workers, AcquireBatch(w)
      PROVE  RowsInOrder'
  <2>1. PICK S \in SUBSET Tasks : Acquire(S)
    BY <1>7 DEF AcquireBatch, TopOf
  <2> QED BY <2>1, AcquiredInOrder
<1>8. ASSUME NEW w \in Workers, RequestStop(w) \/ Drained(w) \/ Crash(w) \/ Start(w)
      PROVE  RowsInOrder'
  BY <1>1, <1>8 DEF RequestStop, Drained, Crash, Start, storeVars
<1>9. ASSUME NEW r \in runs, RunStep(r) \/ WriteRaises(r) \/ Heartbeat(r)
      PROVE  RowsInOrder'
  BY <1>9, RunCloses, ClosedInOrder
<1>10. CASE UNCHANGED vars
  BY <1>1, <1>10 DEF vars
<1> QED
  BY <1>2, <1>3, <1>4, <1>5, <1>6, <1>7, <1>8, <1>9, <1>10 DEF Next

\* The rows of every task are numbered without a gap and only the newest may
\* run, whatever is retried, deleted, lost in a crash or recovered.
THEOREM RowsAlwaysInOrder == Spec => []RowsInOrder
<1>1. Init => RowsInOrder
  <2> SUFFICES ASSUME Init, NEW t \in Tasks
               PROVE  \E n \in 0 .. MaxAttempts :
                        /\ Rows(t) = 1 .. n
                        /\ \A a \in Attempts : exec[t][a] = "running" => a = n
    BY DEF RowsInOrder
  <2>1. \A a \in Attempts : exec[t][a] = "none"
    BY DEF Init, StoreInit
  <2>2. Rows(t) = 1 .. 0 /\ 0 \in 0 .. MaxAttempts
    BY <2>1, StoreAssumption DEF Rows
  <2> QED BY <2>1, <2>2
<1> QED BY <1>1, RowsStep, TypeCorrect, PTL DEF Spec

\* What FencedCompletion says of one step.
Fenced ==
  \A t \in Tasks :
    status[t] = "RUNNING" /\ status'[t] \in {"SUCCESS", "FAILED"} =>
      /\ exec[t][Cardinality(Rows(t))] = "running"
      /\ exec'[t][Cardinality(Rows(t))] # "running"

\* A task that ends does so with a row that was running, and the running row
\* is the newest.
LEMMA EndsByItsRow ==
  ASSUME TypeOK, RowsInOrder, NEW t \in Tasks, NEW a \in Attempts,
         exec[t][a] = "running", exec'[t][a] # "running"
  PROVE  /\ exec[t][Cardinality(Rows(t))] = "running"
         /\ exec'[t][Cardinality(Rows(t))] # "running"
<1>1. a = Cardinality(Rows(t))
  BY NewestRow
<1> QED BY <1>1

\* A step that fails or completes a task closes its newest row.
LEMMA FencedStep == TypeOK /\ RowsInOrder /\ [Next]_vars => Fenced
<1> SUFFICES ASSUME TypeOK, RowsInOrder, [Next]_vars, NEW t \in Tasks,
                    status[t] = "RUNNING", status'[t] \in {"SUCCESS", "FAILED"}
             PROVE  \E a \in Attempts : exec[t][a] = "running" /\ exec'[t][a] # "running"
  BY EndsByItsRow DEF Fenced
<1>1. ASSUME status' = status
      PROVE  FALSE
  BY <1>1
<1>2. ASSUME NEW j \in Jobs, ApiCreateJob(j) \/ ApiDeleteJob(j)
      PROVE  FALSE
  BY <1>2 DEF TypeOK, ApiCreateJob, CreateJob, ApiDeleteJob, DeleteJob
<1>3. ASSUME NEW u \in Tasks, ApiRetryTask(u) \/ BackoffPasses(u)
      PROVE  FALSE
  BY <1>3 DEF TypeOK, ApiRetryTask, ResetFailed, BackoffPasses, BackoffEnds
<1>4. ASSUME NEW u \in Tasks, NEW a \in Attempts, LeasePasses(u, a)
      PROVE  FALSE
  BY <1>4 DEF LeasePasses, LeaseLapses
<1>5. CASE SchedulerTick
  BY <1>5 DEF SchedulerTick, Promote
<1>6. CASE RecoveryTick
  <2>1. PICK delayed \in SUBSET Tasks : RecoverExpired(delayed)
    BY <1>6 DEF RecoveryTick
  <2>2. t \in {e[1] : e \in Expired}
    BY <2>1 DEF RecoverExpired
  <2>3. PICK e \in Expired : t = e[1]
    BY <2>2
  <2>4. e \in Tasks \X Attempts /\ exec[e[1]][e[2]] = "running"
    BY <2>3 DEF Expired, Current, TypeOK
  <2>5. exec'[e[1]][e[2]] = "failed"
    BY <2>1, <2>3, <2>4 DEF RecoverExpired
  <2> QED BY <2>3, <2>4, <2>5
<1>7. ASSUME NEW w \in Workers, AcquireBatch(w)
      PROVE  FALSE
  BY <1>7 DEF AcquireBatch, Acquire
<1>8. ASSUME NEW w \in Workers, RequestStop(w) \/ Drained(w) \/ Crash(w) \/ Start(w)
      PROVE  FALSE
  BY <1>8 DEF RequestStop, Drained, Crash, Start, storeVars
<1>9. ASSUME NEW r \in runs, RunStep(r) \/ WriteRaises(r) \/ Heartbeat(r)
      PROVE  \E a \in Attempts : exec[t][a] = "running" /\ exec'[t][a] # "running"
  <2>1. r.task \in Tasks /\ r.attempt \in Attempts
    BY DEF TypeOK, Runs
  <2>2. CASE WriteSuccess(r) /\ Current(r.task, r.attempt)
    <3>1. exec[r.task][r.attempt] = "running" /\ exec'[r.task][r.attempt] = "succeeded"
      BY <2>1, <2>2 DEF TypeOK, WriteSuccess, MarkSuccess, Current
    <3>2. t = r.task
      BY <2>1, <2>2 DEF TypeOK, WriteSuccess, MarkSuccess
    <3> QED BY <2>1, <3>1, <3>2
  <2>3. CASE WriteFailure(r) /\ Current(r.task, r.attempt)
    <3>1. exec[r.task][r.attempt] = "running"
          /\ exec'[r.task][r.attempt] \in {"failed", "timed_out"}
      BY <2>1, <2>3 DEF TypeOK, WriteFailure, MarkFailure, Current
    <3>2. t = r.task
      BY <2>1, <2>3 DEF TypeOK, WriteFailure, MarkFailure
    <3> QED BY <2>1, <3>1, <3>2
  <2>4. CASE WriteRetryTask(r)
    BY <2>1, <2>4 DEF TypeOK, WriteRetryTask, RetryTaskRow
  <2>5. CASE status' = status
    BY <1>1, <2>5
  <2> QED BY <1>9, <2>2, <2>3, <2>4, <2>5
      DEF RunStep, FinishHandling, WriteSuccess, WriteFailure, WriteRetryExecution,
          RetryExecutionRow, WriteRaises, Heartbeat, RenewLease, storeVars
<1>10. CASE UNCHANGED vars
  BY <1>1, <1>10 DEF vars
<1> QED
  BY <1>2, <1>3, <1>4, <1>5, <1>6, <1>7, <1>8, <1>9, <1>10 DEF Next

\* With recovery or without, only the newest attempt ends a task: a coroutine
\* whose execution was reaped and replaced never does.
THEOREM CompletionIsFenced == Spec => FencedCompletion
<1>1. TypeOK /\ RowsInOrder /\ [Next]_vars => [Fenced]_vars
  BY FencedStep
<1>2. [Fenced]_vars => [\A t \in Tasks :
       status[t] = "RUNNING" /\ status'[t] \in {"SUCCESS", "FAILED"} =>
         /\ exec[t][Cardinality(Rows(t))] = "running"
         /\ exec'[t][Cardinality(Rows(t))] # "running"]_vars
  BY DEF Fenced
<1> QED BY <1>1, <1>2, TypeCorrect, RowsAlwaysInOrder, PTL DEF Spec, FencedCompletion

-----------------------------------------------------------------------------
(* retry_count and the failed rows, while nobody calls the recovery        *)

\* Only a task that is being executed, or is half-way through a retry, has a
\* running row; a task without a row of its own has no rows and no count.
TaskCounts(t) ==
  /\ status[t] = "absent" => retries[t] = 0 /\ \A a \in Attempts : exec[t][a] = "none"
  /\ status[t] \in {"PENDING", "SUCCESS", "FAILED"} => ~RunningRow(t)
  /\ t \notin Publishers =>
       retries[t] = Cardinality(Failures(t)) + (IF HalfRetried(t) THEN 1 ELSE 0)

\* Only a task that publishes waits for an approval, and is not charged for it.
WaitersPublish == \A r \in runs : r.at \in {"waiting", "waitingExec"} => r.task \in Publishers

Counting == WaitersPublish /\ \A t \in Tasks : TaskCounts(t)

\* A closed row more is a failure more, unless it is closed as a success.
LEMMA FailuresCount ==
  ASSUME NEW t \in Tasks
  PROVE  /\ IsFiniteSet(Failures(t)) /\ Cardinality(Failures(t)) \in Nat
         /\ \A a : a \notin Failures(t) =>
              Cardinality(Failures(t) \cup {a}) = Cardinality(Failures(t)) + 1
<1>1. IsFiniteSet(1 .. MaxAttempts)
  BY FS_Interval, StoreAssumption
<1>2. Failures(t) \subseteq 1 .. MaxAttempts
  BY DEF Failures, Attempts
<1>3. IsFiniteSet(Failures(t))
  BY <1>1, <1>2, FS_Subset
<1> QED BY <1>3, FS_CardinalityType, FS_AddElement

\* A task's count stays right when its rows and its count stay, and its status
\* stays or moves where no row runs, or from RETRY to READY.
LEMMA CountStays ==
  ASSUME NEW t \in Tasks, TaskCounts(t), exec'[t] = exec[t], retries'[t] = retries[t],
         \/ status'[t] = status[t]
         \/ ~RunningRow(t) /\ status'[t] # "absent"
         \/ status[t] = "RETRY" /\ status'[t] = "READY"
  PROVE  TaskCounts(t)'
<1>1. Failures(t)' = Failures(t) /\ RunningRow(t)' = RunningRow(t)
  BY DEF Failures, RunningRow
<1>2. HalfRetried(t)' = HalfRetried(t)
  BY <1>1 DEF HalfRetried
<1> QED BY <1>1, <1>2 DEF TaskCounts

\* A task that ends its execution with a success is charged nothing.
LEMMA CountSucceeds ==
  ASSUME NEW t \in Tasks, NEW a \in Attempts, TypeOK, OneRunningExecution, TaskCounts(t),
         Current(t, a), status'[t] = "SUCCESS", retries'[t] = retries[t],
         exec'[t] = [exec[t] EXCEPT ![a] = "succeeded"]
  PROVE  TaskCounts(t)'
<1>1. \A b \in Attempts : exec'[t][b] = IF b = a THEN "succeeded" ELSE exec[t][b]
  BY DEF TypeOK
<1>2. Failures(t)' = Failures(t)
  BY <1>1 DEF Failures, Current
<1>3. ~RunningRow(t)'
  BY <1>1 DEF RunningRow, OneRunningExecution, Current
<1>4. ~HalfRetried(t) /\ ~HalfRetried(t)'
  BY <1>3 DEF HalfRetried, Current
<1> QED BY <1>2, <1>3, <1>4 DEF TaskCounts

\* The one charge of a failed execution: now, or when its row was still open.
LEMMA CountFails ==
  ASSUME NEW t \in Tasks, NEW a \in Attempts, NEW s \in {"failed", "timed_out"},
         TypeOK, OneRunningExecution, TaskCounts(t), exec[t][a] = "running",
         \/ /\ status[t] = "RUNNING" /\ status'[t] \in {"RETRY", "FAILED"}
            /\ retries'[t] = retries[t] + 1
         \/ /\ HalfRetried(t) /\ status'[t] = status[t]
            /\ retries'[t] = retries[t],
         exec'[t] = [exec[t] EXCEPT ![a] = s]
  PROVE  TaskCounts(t)'
<1>1. \A b \in Attempts : exec'[t][b] = IF b = a THEN s ELSE exec[t][b]
  BY DEF TypeOK
<1>2. Failures(t)' = Failures(t) \cup {a} /\ a \notin Failures(t)
  BY <1>1 DEF Failures
<1>3. ~RunningRow(t)' /\ ~HalfRetried(t)'
  BY <1>1 DEF RunningRow, HalfRetried, OneRunningExecution
<1>4. Cardinality(Failures(t)') = Cardinality(Failures(t)) + 1 /\ Cardinality(Failures(t)) \in Nat
  BY <1>2, FailuresCount
<1>5. status'[t] # "absent"
  BY DEF HalfRetried
<1>6. t \notin Publishers => retries'[t] = Cardinality(Failures(t)')
  BY <1>4 DEF TaskCounts, HalfRetried, TypeOK
<1> QED BY <1>3, <1>4, <1>5, <1>6 DEF TaskCounts

\* The tables of tasks that no statement of the step is about.
LEMMA OthersCount ==
  ASSUME TypeOK, Counting, NEW r \in runs, NEW t \in Tasks, t # r.task, RunStep(r)
  PROVE  TaskCounts(t)'
<1>1. r.task \in Tasks /\ r.attempt \in Attempts
  BY DEF TypeOK, Runs
<1>2. exec'[t] = exec[t] /\ retries'[t] = retries[t] /\ status'[t] = status[t]
  BY <1>1 DEF TypeOK, RunStep, FinishHandling, WriteSuccess, MarkSuccess, WriteFailure,
     MarkFailure, WriteRetryTask, RetryTaskRow, WriteRetryExecution, RetryExecutionRow,
     storeVars
<1> QED BY <1>2, CountStays DEF Counting

\* The count of the task whose coroutine takes a step.
LEMMA OwnCount ==
  ASSUME TypeOK, Safe, Counting, NEW r \in runs, RunStep(r)
  PROVE  TaskCounts(r.task)'
<1> DEFINE t == r.task
           a == r.attempt
<1>1. t \in Tasks /\ a \in Attempts /\ TaskCounts(t) /\ OneRunningExecution
  BY DEF TypeOK, Runs, Counting, Safe, Executions
<1>2. ASSUME UNCHANGED storeVars
      PROVE  TaskCounts(t)'
  BY <1>1, <1>2, CountStays DEF storeVars
<1>3. r.at \in Owning => Current(t, a)
  BY DEF Safe, Coroutines, DecidesOnThePresent
<1>4. CASE WriteSuccess(r) /\ Current(t, a)
  <2>1. /\ status'[t] = "SUCCESS" /\ retries'[t] = retries[t]
        /\ exec'[t] = [exec[t] EXCEPT ![a] = "succeeded"]
    BY <1>1, <1>4 DEF WriteSuccess, MarkSuccess, TypeOK
  <2> QED BY <1>1, <1>4, <2>1, CountSucceeds
<1>5. CASE WriteFailure(r) /\ Current(t, a)
  <2>1. PICK s \in {"failed", "timed_out"} :
          /\ status[t] = "RUNNING" /\ status'[t] \in {"RETRY", "FAILED"}
          /\ retries'[t] = retries[t] + 1
          /\ exec'[t] = [exec[t] EXCEPT ![a] = s]
    BY <1>1, <1>5 DEF WriteFailure, MarkFailure, Current, TypeOK
  <2>2. exec[t][a] = "running"
    BY <1>5 DEF Current
  <2> QED BY <1>1, <2>1, <2>2, CountFails
<1>6. CASE WriteRetryTask(r)
  <2>1. Current(t, a)
    BY <1>3, <1>6 DEF WriteRetryTask, Owning
  <2>2. /\ status'[t] = "RETRY" /\ exec' = exec
        /\ retries'[t] = IF r.at = "retrying" THEN retries[t] + 1 ELSE retries[t]
    BY <1>1, <1>6, <2>1 DEF WriteRetryTask, RetryTaskRow, Current, TypeOK
  <2>3. t \notin Publishers => r.at = "retrying"
    BY <1>6 DEF WriteRetryTask, FirstRetryWrites, Counting, WaitersPublish
  <2>4. Failures(t)' = Failures(t) /\ ~HalfRetried(t) /\ HalfRetried(t)'
    BY <1>1, <2>1, <2>2 DEF Failures, HalfRetried, RunningRow, Current
  <2>5. Cardinality(Failures(t)) \in Nat
    BY <1>1, FailuresCount
  <2> QED BY <1>1, <2>2, <2>3, <2>4, <2>5 DEF TaskCounts
<1>7. CASE WriteRetryExecution(r)
  <2>1. status' = status /\ retries' = retries
        /\ exec' = IF exec[t][a] = "none" THEN exec ELSE [exec EXCEPT ![t][a] = "failed"]
    BY <1>7 DEF WriteRetryExecution, RetryExecutionRow
  <2>2. CASE status[t] = "absent"
    BY <1>1, <2>1, <2>2, CountStays DEF TaskCounts
  <2>3. CASE status[t] # "absent"
    <3>1. status[t] \in {"RETRY", "READY"} /\ exec[t][a] = "running"
      BY <1>7, <2>3 DEF WriteRetryExecution, Safe, Coroutines, SecondWriteStillOwns
    <3>2. HalfRetried(t) /\ exec'[t] = [exec[t] EXCEPT ![a] = "failed"]
      BY <1>1, <2>1, <3>1 DEF HalfRetried, RunningRow, TypeOK
    <3> QED BY <1>1, <2>1, <3>1, <3>2, CountFails
  <2> QED BY <2>2, <2>3
<1> QED BY <1>2, <1>4, <1>5, <1>6, <1>7 DEF RunStep, FinishHandling, WriteSuccess, WriteFailure

\* Whoever waits was sent to wait by the handler of a publisher.
LEMMA WaitersStep ==
  ASSUME TypeOK, WaitersPublish, [Next]_vars
  PROVE  WaitersPublish'
<1>1. ASSUME runs' \subseteq runs
      PROVE  WaitersPublish'
  BY <1>1 DEF WaitersPublish
<1>2. ASSUME NEW w \in Workers, AcquireBatch(w)
      PROVE  WaitersPublish'
  BY <1>2 DEF AcquireBatch, NewRun, WaitersPublish
<1>3. ASSUME NEW r \in runs, NEW place, runs' = MoveTo(r, place),
             place \in {"waiting", "waitingExec"} => r.task \in Publishers
      PROVE  WaitersPublish'
  <2>1. \A q \in runs' : q \in runs \/ q = [r EXCEPT !.at = place]
    BY <1>3 DEF MoveTo
  <2>2. [r EXCEPT !.at = place].task = r.task /\ [r EXCEPT !.at = place].at = place
    BY DEF TypeOK, Runs
  <2> QED BY <1>3, <2>1, <2>2 DEF WaitersPublish
<1>4. ASSUME NEW r \in runs, RunStep(r) \/ WriteRaises(r) \/ Heartbeat(r)
      PROVE  WaitersPublish'
  <2>1. CASE FinishHandling(r)
    <3>1. PICK place \in AfterHandling(r) : runs' = MoveTo(r, place)
      BY <2>1 DEF FinishHandling
    <3>2. place \in {"waiting", "waitingExec"} => r.task \in Publishers
      BY <3>1 DEF AfterHandling, AfterRetryable
    <3> QED BY <1>3, <3>1, <3>2
  <2>2. CASE WriteSuccess(r)
    BY <1>1, <1>3, <2>2 DEF WriteSuccess
  <2>3. CASE WriteFailure(r) \/ WriteRetryExecution(r) \/ Heartbeat(r)
    BY <1>1, <2>3 DEF WriteFailure, WriteRetryExecution, Heartbeat
  <2>4. CASE WriteRetryTask(r)
    <3>1. r.at # "retrying" => r.task \in Publishers
      BY <2>4 DEF WriteRetryTask, FirstRetryWrites, WaitersPublish
    <3> QED BY <1>3, <2>4, <3>1 DEF WriteRetryTask
  <2>5. CASE WriteRaises(r)
    BY <1>1, <1>3, <2>5 DEF WriteRaises
  <2> QED BY <1>4, <2>1, <2>2, <2>3, <2>4, <2>5 DEF RunStep
<1> QED
  BY <1>1, <1>2, <1>4
  DEF Next, ApiCreateJob, ApiDeleteJob, ApiRetryTask, BackoffPasses, LeasePasses,
      SchedulerTick, RecoveryTick, RequestStop, Drained, Crash, Start, vars

\* Acquisition opens a row, which is no failure, of a task with no open row.
LEMMA CountAcquired ==
  ASSUME TypeOK, RowsInOrder, NEW S \in SUBSET Tasks, Acquire(S), NEW t \in Tasks,
         TaskCounts(t)
  PROVE  TaskCounts(t)'
<1>1. CASE t \notin S
  <2>1. exec'[t] = exec[t] /\ retries'[t] = retries[t] /\ status'[t] = status[t]
    BY <1>1 DEF Acquire
  <2> QED BY <2>1, CountStays
<1>2. CASE t \in S
  <2>1. Acquirable(t) /\ NextAttempt(t) \in Attempts /\ exec[t][NextAttempt(t)] = "none"
    BY <1>2, NextRowIsFree DEF Acquire
  <2>2. \A a \in Attempts : exec'[t][a] = IF a = NextAttempt(t) THEN "running" ELSE exec[t][a]
    BY <1>2, <2>1 DEF Acquire, TypeOK
  <2>3. Failures(t)' = Failures(t)
    BY <2>1, <2>2 DEF Failures
  <2>4. status'[t] = "RUNNING" /\ retries'[t] = retries[t]
    BY <1>2 DEF Acquire
  <2>5. ~HalfRetried(t) /\ ~HalfRetried(t)'
    BY <2>1, <2>4 DEF HalfRetried, Acquirable
  <2> QED BY <2>3, <2>4, <2>5 DEF TaskCounts
<1> QED BY <1>1, <1>2

\* Every step but the recovery's keeps the counts.
LEMMA CountingStep ==
  ASSUME Recovery = FALSE, TypeOK, Safe, RowsInOrder, Counting, [Next]_vars
  PROVE  Counting'
<1>1. WaitersPublish'
  BY WaitersStep DEF Counting
<1> SUFFICES ASSUME NEW t \in Tasks
             PROVE  TaskCounts(t)'
  BY <1>1 DEF Counting
<1>2. TaskCounts(t)
  BY DEF Counting
<1>3. ASSUME exec' = exec, retries' = retries, status' = status
      PROVE  TaskCounts(t)'
  BY <1>2, <1>3, CountStays
<1>4. ASSUME NEW j \in Jobs, ApiCreateJob(j)
      PROVE  TaskCounts(t)'
  <2>1. exec'[t] = exec[t] /\ retries'[t] = retries[t]
    BY <1>4 DEF ApiCreateJob, CreateJob
  <2>2. CASE JobOf[t] = j
    <3>1. status[t] = "absent" /\ status'[t] = "PENDING"
      BY <1>4, <2>2 DEF ApiCreateJob, CreateJob, Safe, Jobwise, TasksFollowJob
    <3>2. ~RunningRow(t)
      BY <1>2, <3>1 DEF TaskCounts, RunningRow
    <3> QED BY <1>2, <2>1, <3>1, <3>2, CountStays
  <2>3. CASE JobOf[t] # j
    <3>1. status'[t] = status[t]
      BY <1>4, <2>3 DEF ApiCreateJob, CreateJob
    <3> QED BY <1>2, <2>1, <3>1, CountStays
  <2> QED BY <2>2, <2>3
<1>5. ASSUME NEW j \in Jobs, ApiDeleteJob(j)
      PROVE  TaskCounts(t)'
  <2>1. CASE JobOf[t] = j
    <3>1. /\ \A a \in Attempts : exec'[t][a] = "none"
          /\ retries'[t] = 0 /\ status'[t] = "absent"
      BY <1>5, <2>1 DEF ApiDeleteJob, DeleteJob
    <3>2. Failures(t)' = {} /\ ~HalfRetried(t)'
      BY <3>1 DEF Failures, HalfRetried
    <3>3. Cardinality(Failures(t)') = 0
      BY <3>2, FS_EmptySet
    <3> QED BY <3>1, <3>2, <3>3 DEF TaskCounts
  <2>2. CASE JobOf[t] # j
    <3>1. exec'[t] = exec[t] /\ retries'[t] = retries[t] /\ status'[t] = status[t]
      BY <1>5, <2>2 DEF ApiDeleteJob, DeleteJob
    <3> QED BY <1>2, <3>1, CountStays
  <2> QED BY <2>1, <2>2
<1>6. ASSUME NEW u \in Tasks, ApiRetryTask(u)
      PROVE  TaskCounts(t)'
  <2>1. /\ exec' = exec /\ retries' = retries
        /\ status'[t] = status[t] \/ (status[t] = "FAILED" /\ status'[t] = "PENDING")
    BY <1>6 DEF ApiRetryTask, ResetFailed, TypeOK
  <2>2. status[t] = "FAILED" => ~RunningRow(t)
    BY <1>2 DEF TaskCounts
  <2> QED BY <1>2, <2>1, <2>2, CountStays
<1>7. ASSUME NEW u \in Tasks, BackoffPasses(u)
      PROVE  TaskCounts(t)'
  BY <1>3, <1>7 DEF BackoffPasses, BackoffEnds
<1>8. ASSUME NEW u \in Tasks, NEW a \in Attempts, LeasePasses(u, a)
      PROVE  TaskCounts(t)'
  BY <1>3, <1>8 DEF LeasePasses, LeaseLapses
<1>9. CASE SchedulerTick
  <2>1. /\ exec' = exec /\ retries' = retries
        /\ \/ status'[t] = status[t]
           \/ status[t] \in {"PENDING", "RETRY"} /\ status'[t] = "READY"
    BY <1>9 DEF SchedulerTick, Promote, Promotable, TopOf
  <2>2. status[t] = "PENDING" => ~RunningRow(t)
    BY <1>2 DEF TaskCounts
  <2> QED BY <1>2, <2>1, <2>2, CountStays
<1>10. CASE RecoveryTick
  BY <1>10 DEF RecoveryTick
<1>11. ASSUME NEW w \in Workers, AcquireBatch(w)
       PROVE  TaskCounts(t)'
  <2>1. PICK S \in SUBSET Tasks : Acquire(S)
    BY <1>11 DEF AcquireBatch, TopOf
  <2> QED BY <1>2, <2>1, CountAcquired
<1>12. ASSUME NEW w \in Workers, RequestStop(w) \/ Drained(w) \/ Crash(w) \/ Start(w)
       PROVE  TaskCounts(t)'
  BY <1>3, <1>12 DEF RequestStop, Drained, Crash, Start, storeVars
<1>13. ASSUME NEW r \in runs, RunStep(r)
       PROVE  TaskCounts(t)'
  BY <1>13, OwnCount, OthersCount
<1>14. ASSUME NEW r \in runs, WriteRaises(r) \/ Heartbeat(r)
       PROVE  TaskCounts(t)'
  BY <1>3, <1>14 DEF WriteRaises, Heartbeat, RenewLease, storeVars
<1>15. CASE UNCHANGED vars
  BY <1>3, <1>15 DEF vars
<1> QED
  BY <1>4, <1>5, <1>6, <1>7, <1>8, <1>9, <1>10, <1>11, <1>12, <1>13, <1>14, <1>15 DEF Next

\* While nobody calls recover_expired_executions, retry_count is the number of
\* failed attempts, one of them perhaps not closed yet, for every task that
\* does not publish: a crash between the two UPDATEs of a retry loses nothing.
THEOREM FailuresAreCounted == ASSUME Recovery = FALSE PROVE Spec => []RetriesCountFailures
<1>1. Init => Counting
  <2> SUFFICES ASSUME Init, NEW t \in Tasks
               PROVE  TaskCounts(t)
    BY DEF Init, Counting, WaitersPublish
  <2>1. Failures(t) = {} /\ ~HalfRetried(t) /\ ~RunningRow(t)
    BY DEF Init, StoreInit, Failures, HalfRetried, RunningRow
  <2>2. Cardinality(Failures(t)) = 0
    BY <2>1, FS_EmptySet
  <2> QED BY <2>1, <2>2 DEF Init, StoreInit, TaskCounts
<1>2. IInv => Safe
  BY IInvIsSafe
<1>3. TypeOK /\ Safe /\ RowsInOrder /\ Counting /\ [Next]_vars => Counting'
  BY CountingStep
<1>4. Counting => RetriesCountFailures
  BY DEF Counting, TaskCounts, RetriesCountFailures
<1> QED BY <1>1, <1>2, <1>3, <1>4, Safety, TypeCorrect, RowsAlwaysInOrder, PTL DEF Spec

-----------------------------------------------------------------------------
(* What a dead worker leaves behind                                        *)

\* DesertionIsFinal of one row.
Stays(t, a) ==
  \/ status[t] # "RUNNING" /\ status'[t] = "absent"
  \/ Deserted(t, a)' /\ (status'[t] = "RUNNING" <=> status[t] = "RUNNING")

\* A coroutine that owns its task works on the task's one running row.
LEMMA OwnersElsewhere ==
  ASSUME TypeOK, Safe, NEW t \in Tasks, NEW a \in Attempts, Deserted(t, a),
         NEW r \in runs, r.at \in Owning
  PROVE  r.task # t
<1>1. r.task \in Tasks /\ r.attempt \in Attempts
  BY DEF TypeOK, Runs
<1>2. exec[r.task][r.attempt] = "running"
  BY DEF Safe, Coroutines, DecidesOnThePresent, Current
<1> QED BY <1>1, <1>2 DEF Deserted, Safe, Executions, OneRunningExecution

\* A step that leaves the row and the task's status alone and starts no
\* coroutine for them.
LEMMA LeftAlone ==
  ASSUME NEW t \in Tasks, NEW a \in Attempts, Deserted(t, a),
         exec'[t][a] = exec[t][a],
         status'[t] = status[t] \/ "RUNNING" \notin {status[t], status'[t]},
         \A q \in runs' : \E r \in runs : q.task = r.task /\ q.attempt = r.attempt
  PROVE  Stays(t, a)
BY DEF Deserted, Stays

\* Steps of a coroutine: its final write is about the row it began.
LEMMA RunStepLeaves ==
  ASSUME TypeOK, Safe, NEW t \in Tasks, NEW a \in Attempts, Deserted(t, a),
         NEW r \in runs, RunStep(r) \/ WriteRaises(r) \/ Heartbeat(r)
  PROVE  Stays(t, a)
<1>1. r \in Runs /\ r.task \in Tasks /\ r.attempt \in Attempts
  BY DEF TypeOK, Runs
<1>2. \A place : \A q \in MoveTo(r, place) : \E s \in runs : q.task = s.task /\ q.attempt = s.attempt
  <2> SUFFICES ASSUME NEW place, NEW q \in MoveTo(r, place)
               PROVE  \E s \in runs : q.task = s.task /\ q.attempt = s.attempt
    OBVIOUS
  <2>1. [r EXCEPT !.at = place].task = r.task /\ [r EXCEPT !.at = place].attempt = r.attempt
    BY <1>1 DEF Runs
  <2> QED BY <2>1 DEF MoveTo
<1>3. CASE FinishHandling(r)
  BY <1>2, <1>3, LeftAlone DEF FinishHandling, storeVars
<1>4. CASE WriteRaises(r)
  BY <1>2, <1>4, LeftAlone DEF WriteRaises, storeVars
<1>5. CASE Heartbeat(r)
  BY <1>5, LeftAlone DEF Heartbeat, RenewLease
<1>6. CASE WriteSuccess(r) \/ WriteFailure(r) \/ WriteRetryTask(r)
  <2>1. r.at \in Owning
    BY <1>6 DEF WriteSuccess, WriteFailure, WriteRetryTask, Owning
  <2>2. r.task # t
    BY <2>1, OwnersElsewhere
  <2>3. exec'[t] = exec[t] /\ status'[t] = status[t]
    BY <1>1, <1>6, <2>2
    DEF WriteSuccess, WriteFailure, WriteRetryTask, MarkSuccess, MarkFailure, RetryTaskRow,
        storeVars, TypeOK
  <2>4. \A q \in runs' : \E s \in runs : q.task = s.task /\ q.attempt = s.attempt
    BY <1>2, <1>6 DEF WriteSuccess, WriteFailure, WriteRetryTask
  <2> QED BY <2>3, <2>4, LeftAlone
<1>7. CASE WriteRetryExecution(r)
  <2>1. exec'[t][a] = exec[t][a] /\ status'[t] = status[t]
    BY <1>1, <1>7 DEF WriteRetryExecution, RetryExecutionRow, Deserted, TypeOK
  <2>2. runs' \subseteq runs
    BY <1>7 DEF WriteRetryExecution
  <2> QED BY <2>1, <2>2, LeftAlone
<1> QED BY <1>3, <1>4, <1>5, <1>6, <1>7 DEF RunStep

\* Every step of the deployed system leaves a deserted row as it is.
LEMMA DesertedStep ==
  ASSUME Recovery = FALSE, TypeOK, Safe, Next,
         NEW t \in Tasks, NEW a \in Attempts, Deserted(t, a)
  PROVE  Stays(t, a)
<1>1. ASSUME NEW j \in Jobs, ApiCreateJob(j)
      PROVE  Stays(t, a)
  <2>1. status'[t] = status[t] \/ (status[t] = "absent" /\ status'[t] = "PENDING")
    BY <1>1, StoreAssumption
    DEF ApiCreateJob, CreateJob, Safe, Jobwise, TasksFollowJob
  <2> QED BY <1>1, <2>1, LeftAlone DEF ApiCreateJob, CreateJob
<1>2. ASSUME NEW j \in Jobs, ApiDeleteJob(j)
      PROVE  Stays(t, a)
  <2>1. CASE JobOf[t] = j
    BY <1>2, <2>1 DEF ApiDeleteJob, DeleteJob, TasksOf, Stays
  <2>2. CASE JobOf[t] # j
    BY <1>2, <2>2, LeftAlone DEF ApiDeleteJob, DeleteJob
  <2> QED BY <2>1, <2>2
<1>3. ASSUME NEW u \in Tasks, ApiRetryTask(u) \/ BackoffPasses(u)
      PROVE  Stays(t, a)
  <2>1. status'[t] = status[t] \/ (status[t] = "FAILED" /\ status'[t] = "PENDING")
    BY <1>3 DEF ApiRetryTask, ResetFailed, BackoffPasses, BackoffEnds, TypeOK
  <2> QED BY <1>3, <2>1, LeftAlone
          DEF ApiRetryTask, ResetFailed, BackoffPasses, BackoffEnds
<1>4. ASSUME NEW u \in Tasks, NEW b \in Attempts, LeasePasses(u, b)
      PROVE  Stays(t, a)
  BY <1>4, LeftAlone DEF LeasePasses, LeaseLapses
<1>5. CASE SchedulerTick
  <2>1. PICK S : Promote(S)
    BY <1>5 DEF SchedulerTick
  <2>2. status'[t] = status[t] \/ (status[t] \in {"PENDING", "RETRY"} /\ status'[t] = "READY")
    BY <2>1 DEF Promote, Promotable
  <2> QED BY <1>5, <2>1, <2>2, LeftAlone DEF SchedulerTick, Promote
<1>6. CASE RecoveryTick
  BY <1>6 DEF RecoveryTick
<1>7. ASSUME NEW w \in Workers, AcquireBatch(w)
      PROVE  Stays(t, a)
  <2>1. PICK S \in SUBSET Tasks :
          Acquire(S) /\ runs' = runs \cup {NewRun(w, u) : u \in S}
    BY <1>7 DEF AcquireBatch, TopOf
  <2>2. t \notin S
    BY <2>1 DEF Acquire, Acquirable, RunningRow, Deserted
  <2>3. exec'[t] = exec[t] /\ status'[t] = status[t]
    BY <2>1, <2>2 DEF Acquire
  <2>4. \A u \in S : NewRun(w, u).task # t
    BY <2>2 DEF NewRun
  <2> QED BY <2>1, <2>3, <2>4 DEF Deserted, Stays
<1>8. ASSUME NEW w \in Workers, RequestStop(w) \/ Drained(w) \/ Crash(w) \/ Start(w)
      PROVE  Stays(t, a)
  <2>1. runs' \subseteq runs
    BY <1>8 DEF RequestStop, Drained, Crash, Start
  <2> QED BY <1>8, <2>1, LeftAlone DEF RequestStop, Drained, Crash, Start, storeVars
<1> QED
  BY <1>1, <1>2, <1>3, <1>4, <1>5, <1>6, <1>7, <1>8, RunStepLeaves DEF Next

\* As deployed (nobody recovers expired executions), an execution whose
\* coroutine died stays running for ever, with its task RUNNING or never
\* acquired again, for any tasks, workers and interleaving.
THEOREM DesertedForGood == ASSUME Recovery = FALSE PROVE Spec => DesertionIsFinal
<1>1. TypeOK /\ Safe /\ [Next]_vars =>
        [\A t \in Tasks, a \in Attempts : Deserted(t, a) =>
           \/ status[t] # "RUNNING" /\ status'[t] = "absent"
           \/ Deserted(t, a)' /\ (status'[t] = "RUNNING" <=> status[t] = "RUNNING")]_vars
  BY DesertedStep DEF Stays
<1>2. IInv => TypeOK /\ Safe
  BY IInvIsSafe
<1> QED BY <1>1, <1>2, Safety, PTL DEF Spec, DesertionIsFinal
=============================================================================
