---------------------------- MODULE TaskRuntime ----------------------------
(***************************************************************************)
(* The processes that share the task tables: the scheduler's promotion     *)
(* loop (core/scheduler.py, core/workflow_manager.py), the workers         *)
(* (workers/worker_runtime.py) and the API requests that create, delete    *)
(* and retry.  A worker runs each acquired task in a coroutine of its own; *)
(* a coroutine is a record of runs, alive until its last write is done, a  *)
(* write raises out of it, or its worker dies.                             *)
(***************************************************************************)
EXTENDS TaskStore

CONSTANTS
  Workers,         \* worker processes
  MaxConcurrency,  \* WORKER_MAX_CONCURRENCY
  BatchSize,       \* WORKER_BATCH_SIZE
  PromoteLimit,    \* SCHEDULER_DISPATCH_LIMIT
  Refs,            \* tasks whose results a task's payload names (from_task)
  Publishers,      \* publish_* tasks: they wait for an artifact's approval
  Outages,         \* whether workers may die or be asked to stop
  DbFaults,        \* whether a write may raise (a locked database)
  Recovery         \* whether anyone calls recover_expired_executions

ASSUME RuntimeAssumption ==
  /\ MaxConcurrency \in Nat \ {0}
  /\ BatchSize \in Nat \ {0}
  /\ PromoteLimit \in Nat \ {0}
  /\ Refs \in [Tasks -> SUBSET Tasks]
  /\ Publishers \subseteq Tasks
  /\ Outages \in BOOLEAN /\ DbFaults \in BOOLEAN /\ Recovery \in BOOLEAN

VARIABLES
  worker,  \* polling, draining (request_stop) or down
  runs     \* the coroutines of the live workers

vars == <<job, status, retries, parked, exec, lapsed, worker, runs>>

(***************************************************************************)
(* Where a coroutine stands.  "handling" covers payload resolution, the    *)
(* guards and the handler; every other place is a write it is about to do. *)
(***************************************************************************)
FailureWrites == {"raised", "timedOut", "fatal", "exhausted"}
FirstRetryWrites == {"retrying", "waiting"}
SecondRetryWrites == {"retryingExec", "waitingExec"}
Owning == {"handling", "succeeding"} \cup FailureWrites \cup FirstRetryWrites
Places == Owning \cup SecondRetryWrites

\* AcquiredTask: retries is the snapshot the coroutine decides on.
Runs == [worker : Workers, task : Tasks, attempt : Attempts, retries : Nat, at : Places]

RunsOf(w) == {r \in runs : r.worker = w}
MoveTo(r, place) == (runs \ {r}) \cup {[r EXCEPT !.at = place]}

Init ==
  /\ StoreInit
  /\ worker = [w \in Workers |-> "polling"]
  /\ runs = {}

-----------------------------------------------------------------------------
(* The API and the scheduler                                               *)

ApiCreateJob(j) == CreateJob(j) /\ UNCHANGED <<worker, runs>>
ApiDeleteJob(j) == DeleteJob(j) /\ UNCHANGED <<worker, runs>>
ApiRetryTask(t) == ResetFailed(t) /\ UNCHANGED <<worker, runs>>

SchedulerTick ==
  /\ \E S \in TopOf({t \in Tasks : Promotable(t)}, PromoteLimit) : Promote(S)
  /\ UNCHANGED <<worker, runs>>

BackoffPasses(t) == BackoffEnds(t) /\ UNCHANGED <<worker, runs>>

LeasePasses(t, a) == LeaseLapses(t, a) /\ UNCHANGED <<worker, runs>>

RecoveryTick ==
  /\ Recovery
  /\ \E delayed \in SUBSET Tasks : RecoverExpired(delayed)
  /\ UNCHANGED <<worker, runs>>

-----------------------------------------------------------------------------
(* The worker process                                                      *)

NewRun(w, t) ==
  [worker |-> w, task |-> t, attempt |-> NextAttempt(t),
   retries |-> retries[t], at |-> "handling"]

AcquireBatch(w) ==
  LET capacity == MaxConcurrency - Cardinality(RunsOf(w))
      limit == IF BatchSize < capacity THEN BatchSize ELSE capacity
  IN  /\ worker[w] = "polling"
      /\ capacity > 0
      /\ \E S \in TopOf({t \in Tasks : Acquirable(t)}, limit) :
           /\ Acquire(S)
           /\ runs' = runs \cup {NewRun(w, t) : t \in S}
      /\ UNCHANGED worker

RequestStop(w) ==
  /\ Outages
  /\ worker[w] = "polling"
  /\ worker' = [worker EXCEPT ![w] = "draining"]
  /\ UNCHANGED <<storeVars, runs>>

Drained(w) ==
  /\ worker[w] = "draining"
  /\ RunsOf(w) = {}
  /\ worker' = [worker EXCEPT ![w] = "down"]
  /\ UNCHANGED <<storeVars, runs>>

\* The process dies: its coroutines vanish, what they wrote stays.
Crash(w) ==
  /\ Outages
  /\ worker[w] # "down"
  /\ worker' = [worker EXCEPT ![w] = "down"]
  /\ runs' = runs \ RunsOf(w)
  /\ UNCHANGED storeVars

Start(w) ==
  /\ worker[w] = "down"
  /\ worker' = [worker EXCEPT ![w] = "polling"]
  /\ UNCHANGED <<storeVars, runs>>

-----------------------------------------------------------------------------
(* One coroutine (_run_acquired_task)                                      *)

\* Where an exception of each kind leads; _retry_exhausted reads the snapshot.
AfterRetryable(r) ==
  IF r.retries + 1 >= MaxRetries[r.task] THEN "exhausted" ELSE "retrying"

(***************************************************************************)
(* _resolve_payload: a reference to an unfinished task is retryable, one   *)
(* to a FAILED or vanished task fatal, as is one to a field its result     *)
(* lacks; which is met first is up to the payload's layout.  With every    *)
(* reference resolved, guards and handler decide.                          *)
(***************************************************************************)
AfterHandling(r) ==
  LET lost  == {p \in Refs[r.task] : status[p] \in {"FAILED", "absent"}}
      early == {p \in Refs[r.task] : status[p] \notin {"SUCCESS", "FAILED", "absent"}}
  IN  {"raised", "timedOut"}
        \cup (IF early = {} \/ Refs[r.task] # early THEN {"fatal"} ELSE {})
        \cup (IF lost = {} \/ early # {} THEN {AfterRetryable(r)} ELSE {})
        \cup (IF lost \cup early = {} THEN {"succeeding"} ELSE {})
        \cup (IF lost \cup early = {} /\ r.task \in Publishers THEN {"waiting"} ELSE {})

FinishHandling(r) ==
  /\ r.at = "handling"
  /\ \E place \in AfterHandling(r) : runs' = MoveTo(r, place)
  /\ UNCHANGED <<storeVars, worker>>

\* The guard of a final write raises on a coroutine that lost its execution.
WriteSuccess(r) ==
  /\ r.at = "succeeding"
  /\ IF Current(r.task, r.attempt)
     THEN MarkSuccess(r.task, r.attempt) /\ runs' = runs \ {r}
     ELSE UNCHANGED storeVars /\ runs' = MoveTo(r, "raised")
  /\ UNCHANGED worker

WriteFailure(r) ==
  /\ r.at \in FailureWrites
  /\ IF Current(r.task, r.attempt)
     THEN \E delay \in BOOLEAN :
            MarkFailure(r.task, r.attempt, r.at = "timedOut", r.at = "fatal", delay)
     ELSE UNCHANGED storeVars
  /\ runs' = runs \ {r}
  /\ UNCHANGED worker

WriteRetryTask(r) ==
  /\ r.at \in FirstRetryWrites
  /\ \E delay \in BOOLEAN : RetryTaskRow(r.task, r.at = "retrying", delay)
  /\ runs' = MoveTo(r, IF r.at = "retrying" THEN "retryingExec" ELSE "waitingExec")
  /\ UNCHANGED worker

WriteRetryExecution(r) ==
  /\ r.at \in SecondRetryWrites
  /\ RetryExecutionRow(r.task, r.attempt)
  /\ runs' = runs \ {r}
  /\ UNCHANGED worker

\* A write raises.  Only mark_task_success has a handler behind it.
WriteRaises(r) ==
  /\ DbFaults
  /\ r.at # "handling"
  /\ runs' = IF r.at = "succeeding" THEN MoveTo(r, "raised") ELSE runs \ {r}
  /\ UNCHANGED <<storeVars, worker>>

Heartbeat(r) ==
  /\ RenewLease(r.task, r.attempt)
  /\ UNCHANGED <<worker, runs>>

RunStep(r) ==
  \/ FinishHandling(r)
  \/ WriteSuccess(r)
  \/ WriteFailure(r)
  \/ WriteRetryTask(r)
  \/ WriteRetryExecution(r)

-----------------------------------------------------------------------------
Next ==
  \/ \E j \in Jobs : ApiCreateJob(j) \/ ApiDeleteJob(j)
  \/ \E t \in Tasks : ApiRetryTask(t) \/ BackoffPasses(t)
  \/ \E t \in Tasks, a \in Attempts : LeasePasses(t, a)
  \/ SchedulerTick
  \/ RecoveryTick
  \/ \E w \in Workers :
       AcquireBatch(w) \/ RequestStop(w) \/ Drained(w) \/ Crash(w) \/ Start(w)
  \/ \E r \in runs : RunStep(r) \/ WriteRaises(r) \/ Heartbeat(r)

Spec == Init /\ [][Next]_vars

(***************************************************************************)
(* The scheduler and every polling worker loop for ever, a backoff is a    *)
(* deadline of the wall clock, and a coroutine goes on: its handler runs   *)
(* under asyncio.timeout.  A stopped worker is started again.  No API      *)
(* request, crash or fault is owed to anyone.                              *)
(***************************************************************************)
Fairness ==
  /\ WF_vars(SchedulerTick)
  /\ \A t \in Tasks : WF_vars(BackoffPasses(t))
  /\ \A w \in Workers :
       /\ WF_vars(AcquireBatch(w))
       /\ WF_vars(Drained(w))
       /\ WF_vars(Start(w))
  /\ \A t \in Tasks, a \in Attempts :
       WF_vars(\E r \in runs : r.task = t /\ r.attempt = a /\ RunStep(r))

FairSpec == Spec /\ Fairness

-----------------------------------------------------------------------------
(* Properties                                                              *)

TypeOK ==
  /\ job \in [Jobs -> JobStatus \cup {"absent", "deleted"}]
  /\ status \in [Tasks -> TaskStatus \cup {"absent"}]
  /\ retries \in [Tasks -> Nat]
  /\ parked \subseteq Tasks
  /\ exec \in [Tasks -> [Attempts -> ExecutionStatus \cup {"none"}]]
  /\ lapsed \subseteq Tasks \X Attempts
  /\ worker \in [Workers -> {"polling", "draining", "down"}]
  /\ runs \subseteq Runs

\* A task is never executed twice at once: whatever mix of batches, retries
\* and crashes came before, at most one of its execution rows is running
\* (the unique index task_executions_one_running_per_task_uidx never bites).
OneRunningExecution ==
  \A t \in Tasks, a, b \in Attempts :
    exec[t][a] = "running" /\ exec[t][b] = "running" => a = b

\* A RUNNING task has a running execution, even after a crash: a task is
\* never left RUNNING with nothing to show for it.  (So the second repair of
\* scripts/fix_db_state.py, which looks for exactly that, finds nothing.)
RunningHasExecution == \A t \in Tasks : status[t] = "RUNNING" => RunningRow(t)

\* A task that has left PENDING has only parents that succeeded, and they
\* stay that way: dependents never see a parent's result taken back.
NeverAheadOfParents ==
  \A t \in Tasks : status[t] \notin {"absent", "PENDING"} => ParentsSucceeded(t)

\* A coroutine that still has to decide or to write decides on the present:
\* its execution is the task's running one and its snapshot of retry_count
\* is the row's.  (_retry_exhausted and mark_task_for_retry rely on it:
\* neither looks at the database again.)
DecidesOnThePresent ==
  \A r \in runs : r.at \in Owning =>
    /\ Current(r.task, r.attempt)
    /\ r.retries = retries[r.task]

\* retry_count is exactly the number of attempts that failed, for a task
\* that never waits for approval: no failure is counted twice or forgotten,
\* with a failure between the two UPDATEs of mark_task_for_retry counted
\* before its row is closed.
Failures(t) == {a \in Attempts : exec[t][a] \in {"failed", "timed_out"}}
HalfRetried(t) == status[t] \in {"RETRY", "READY"} /\ RunningRow(t)
RetriesCountFailures ==
  \A t \in Tasks \ Publishers :
    retries[t] = Cardinality(Failures(t)) + (IF HalfRetried(t) THEN 1 ELSE 0)

\* The budget: only a FAILED task has spent it all, so no task is left
\* READY or RETRY with nothing to spend (acquisition would skip it for ever).
BudgetLeft ==
  \A t \in Tasks :
    /\ retries[t] <= MaxRetries[t]
    /\ status[t] # "FAILED" => retries[t] < MaxRetries[t]

\* The job row agrees with its tasks: a FAILED task fails its job at once,
\* and a job is completed when all its tasks succeeded and only then
\* (a job that failed before a task was retried stays failed).
JobAgreesWithTasks ==
  \A j \in Jobs :
    /\ (\E t \in TasksOf(j) : status[t] = "FAILED") => job[j] = "failed"
    /\ job[j] = "completed" => \A t \in TasksOf(j) : status[t] = "SUCCESS"
    /\ job[j] = "pending" => \E t \in TasksOf(j) : status[t] # "SUCCESS"

(***************************************************************************)
(* What makes the above inductive while nobody calls the recovery: who may *)
(* hold a coroutine, and what a half-done retry leaves untouched.          *)
(***************************************************************************)
TasksFollowJob ==
  \A t \in Tasks : status[t] = "absent" <=> job[JobOf[t]] \in {"absent", "deleted"}

OneRunPerTask == \A r, s \in runs : r.task = s.task => r = s

RunsOfCreatedJobs == \A r \in runs : job[JobOf[r.task]] # "absent"

SecondWriteStillOwns ==
  \A r \in runs : r.at \in SecondRetryWrites =>
    \/ status[r.task] = "absent"
    \/ status[r.task] \in {"RETRY", "READY"} /\ exec[r.task][r.attempt] = "running"

RetryingLeavesBudget ==
  \A r \in runs : r.at = "retrying" => r.retries + 1 < MaxRetries[r.task]

IInv ==
  /\ TypeOK
  /\ OneRunningExecution
  /\ RunningHasExecution
  /\ NeverAheadOfParents
  /\ DecidesOnThePresent
  /\ BudgetLeft
  /\ JobAgreesWithTasks
  /\ TasksFollowJob
  /\ OneRunPerTask
  /\ RunsOfCreatedJobs
  /\ SecondWriteStillOwns
  /\ RetryingLeavesBudget

\* The tables, the workers and the scheduler together keep the promise of
\* TaskLifecycle: every change of a task's status is one that
\* VALID_TASK_TRANSITIONS allows (in particular SUCCESS is final), though
\* mark_task_for_retry and promote_tasks_to_ready never look it up.
Lifecycle == INSTANCE TaskLifecycle WITH
  Tasks <- Tasks, Parents <- Parents, MaxRetries <- MaxRetries,
  status <- status, retries <- retries
ImplementsLifecycle == Lifecycle!Spec

\* Every submitted job ends: completed, failed or deleted.
JobSettles ==
  \A j \in Jobs : job[j] = "pending" ~> job[j] \in {"completed", "failed", "deleted"}

\* With recovery wired in, a coroutine may find its execution closed and the
\* task run again: only the newest attempt may end the task.
FencedCompletion ==
  [][\A t \in Tasks :
       status[t] = "RUNNING" /\ status'[t] \in {"SUCCESS", "FAILED"} =>
         /\ exec[t][Cardinality(Rows(t))] = "running"
         /\ exec'[t][Cardinality(Rows(t))] # "running"]_vars

\* As deployed, what a dead worker leaves behind is final: its execution stays
\* running, a task left RUNNING stays RUNNING and cannot even be deleted with
\* its job, and one left between the two UPDATEs of a retry is promoted but
\* never acquired again.  No retry, reset, promotion or restart of a worker
\* takes an execution for its own that another one began.
Deserted(t, a) ==
  exec[t][a] = "running" /\ \A r \in runs : ~(r.task = t /\ r.attempt = a)
DesertionIsFinal ==
  [][\A t \in Tasks, a \in Attempts : Deserted(t, a) =>
       \/ status[t] # "RUNNING" /\ status'[t] = "absent"
       \/ Deserted(t, a)' /\ (status'[t] = "RUNNING" <=> status[t] = "RUNNING")]_vars

=============================================================================
