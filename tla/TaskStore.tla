----------------------------- MODULE TaskStore -----------------------------
(***************************************************************************)
(* The task tables of database/database.py and the transactions that       *)
(* change them.  One operator per transaction: BEGIN IMMEDIATE ... COMMIT  *)
(* is one step, and each autocommitted UPDATE is a step of its own.        *)
(* Who calls them, and when, is TaskRuntime's business.                    *)
(***************************************************************************)
EXTENDS Integers, FiniteSets

CONSTANTS
  Jobs,         \* jobs that may be submitted
  Tasks,        \* their tasks
  JobOf,        \* tasks.job_id
  Parents,      \* task_dependencies: the tasks a task depends on
  Priority,     \* tasks.priority
  MaxRetries,   \* tasks.max_retries
  Delayed,      \* tasks submitted with a next_run_at in the future
  MaxAttempts   \* bound on the execution rows of one task

\* What create_job and the CHECK constraints of schema.sql make true.
ASSUME StoreAssumption ==
  /\ JobOf \in [Tasks -> Jobs]
  /\ Parents \in [Tasks -> SUBSET Tasks]
  /\ \A t \in Tasks : \A p \in Parents[t] : p # t /\ JobOf[p] = JobOf[t]
  /\ Priority \in [Tasks -> Int]
  /\ MaxRetries \in [Tasks -> Nat \ {0}]
  /\ Delayed \subseteq Tasks
  /\ MaxAttempts \in Nat \ {0}

TaskStatus == {"PENDING", "READY", "RUNNING", "RETRY", "SUCCESS", "FAILED"}
ExecutionStatus == {"running", "succeeded", "failed", "timed_out"}
JobStatus == {"pending", "completed", "failed"}

Attempts == 1 .. MaxAttempts

VARIABLES
  job,      \* jobs.status; "absent" before create_job, "deleted" after delete_job
  status,   \* tasks.status; "absent" while the task has no row
  retries,  \* tasks.retry_count
  parked,   \* tasks whose next_run_at / next_retry_at lies in the future
  exec,     \* task_executions.status by task and attempt_number; "none": no row
  lapsed    \* running executions whose lease_expires_at sorts before now

storeVars == <<job, status, retries, parked, exec, lapsed>>

StoreInit ==
  /\ job = [j \in Jobs |-> "absent"]
  /\ status = [t \in Tasks |-> "absent"]
  /\ retries = [t \in Tasks |-> 0]
  /\ parked = {}
  /\ exec = [t \in Tasks |-> [a \in Attempts |-> "none"]]
  /\ lapsed = {}

TasksOf(j) == {t \in Tasks : JobOf[t] = j}
Rows(t) == {a \in Attempts : exec[t][a] # "none"}
RunningRow(t) == \E a \in Attempts : exec[t][a] = "running"
ParentsSucceeded(t) == \A p \in Parents[t] : status[p] = "SUCCESS"

(***************************************************************************)
(* ORDER BY priority DESC ... LIMIT n: as many as fit, none outranked by   *)
(* one left behind.  Rows of one priority tie on timestamps: any order.    *)
(***************************************************************************)
TopOf(E, limit) ==
  {S \in SUBSET E :
     /\ Cardinality(S) = IF Cardinality(E) < limit THEN Cardinality(E) ELSE limit
     /\ \A s \in S, e \in E \ S : Priority[s] >= Priority[e]}

-----------------------------------------------------------------------------
(* Jobs                                                                    *)

\* A job's id is fresh, so a deleted job never comes back.
CreateJob(j) ==
  /\ job[j] = "absent"
  /\ TasksOf(j) # {}
  /\ job' = [job EXCEPT ![j] = "pending"]
  /\ status' = [t \in Tasks |-> IF JobOf[t] = j THEN "PENDING" ELSE status[t]]
  /\ parked' = parked \cup (TasksOf(j) \cap Delayed)
  /\ UNCHANGED <<retries, exec, lapsed>>

\* Mutant: without delete_job's look for RUNNING tasks.
DeleteRunningJob(j) ==
  /\ job[j] \in JobStatus
  /\ job' = [job EXCEPT ![j] = "deleted"]
  /\ status' = [t \in Tasks |-> IF JobOf[t] = j THEN "absent" ELSE status[t]]
  /\ retries' = [t \in Tasks |-> IF JobOf[t] = j THEN 0 ELSE retries[t]]
  /\ parked' = parked \ TasksOf(j)
  /\ exec' = [t \in Tasks |->
                IF JobOf[t] = j THEN [a \in Attempts |-> "none"] ELSE exec[t]]
  /\ lapsed' = {e \in lapsed : JobOf[e[1]] # j}

DeleteJob(j) ==
  /\ job[j] \in JobStatus
  /\ \A t \in TasksOf(j) : status[t] # "RUNNING"
  /\ job' = [job EXCEPT ![j] = "deleted"]
  /\ status' = [t \in Tasks |-> IF JobOf[t] = j THEN "absent" ELSE status[t]]
  /\ retries' = [t \in Tasks |-> IF JobOf[t] = j THEN 0 ELSE retries[t]]
  /\ parked' = parked \ TasksOf(j)
  /\ exec' = [t \in Tasks |->
                IF JobOf[t] = j THEN [a \in Attempts |-> "none"] ELSE exec[t]]
  /\ lapsed' = {e \in lapsed : JobOf[e[1]] # j}

\* Mutant: looks at the statuses from before the update.
JobBeforeSuccess(j, new) ==
  IF job[j] = "pending" /\ \A t \in TasksOf(j) : status[t] = "SUCCESS"
  THEN [job EXCEPT ![j] = "completed"]
  ELSE job

\* _maybe_complete_job, given the tasks' statuses after the update.
JobAfterSuccess(j, new) ==
  IF job[j] = "pending" /\ \A t \in TasksOf(j) : new[t] = "SUCCESS"
  THEN [job EXCEPT ![j] = "completed"]
  ELSE job

\* Mutant: a job fails when all its tasks have.
JobAfterAllFail(failed) ==
  [j \in Jobs |-> IF job[j] = "pending" /\ TasksOf(j) \subseteq failed
                  THEN "failed" ELSE job[j]]

\* _maybe_fail_job for the jobs of the tasks that have just failed.
JobAfterFailure(failed) ==
  [j \in Jobs |-> IF job[j] = "pending" /\ \E t \in failed : JobOf[t] = j
                  THEN "failed" ELSE job[j]]

-----------------------------------------------------------------------------
(* Scheduling                                                              *)

\* Mutant: without the dependency check.
PromotableEarly(t) == status[t] \in {"PENDING", "RETRY"} /\ t \notin parked

Promotable(t) ==
  /\ status[t] \in {"PENDING", "RETRY"}
  /\ t \notin parked
  /\ ParentsSucceeded(t)

Promote(S) ==
  /\ S # {}
  /\ \A t \in S : Promotable(t)
  /\ status' = [t \in Tasks |-> IF t \in S THEN "READY" ELSE status[t]]
  /\ UNCHANGED <<job, retries, parked, exec, lapsed>>

\* A backoff ends: next_run_at / next_retry_at is no longer in the future.
BackoffEnds(t) ==
  /\ t \in parked
  /\ parked' = parked \ {t}
  /\ UNCHANGED <<job, status, retries, exec, lapsed>>

\* Mutant: without the NOT EXISTS on a running execution.
AcquirableTwice(t) ==
  /\ status[t] = "READY"
  /\ t \notin parked
  /\ retries[t] < MaxRetries[t]
  /\ ParentsSucceeded(t)
  /\ Cardinality(Rows(t)) < MaxAttempts

Acquirable(t) ==
  /\ status[t] = "READY"
  /\ t \notin parked
  /\ retries[t] < MaxRetries[t]
  /\ ParentsSucceeded(t)
  /\ ~RunningRow(t)
  /\ Cardinality(Rows(t)) < MaxAttempts    \* bound

NextAttempt(t) == Cardinality(Rows(t)) + 1

Acquire(S) ==
  /\ S # {}
  /\ \A t \in S : Acquirable(t)
  /\ status' = [t \in Tasks |-> IF t \in S THEN "RUNNING" ELSE status[t]]
  /\ exec' = [t \in Tasks |->
                IF t \in S THEN [exec[t] EXCEPT ![NextAttempt(t)] = "running"]
                           ELSE exec[t]]
  /\ UNCHANGED <<job, retries, parked, lapsed>>

-----------------------------------------------------------------------------
(* The end of an execution                                                 *)

\* Mutant: without _validate_running_execution.
CurrentTask(t, a) == exec[t][a] # "none" /\ status[t] = "RUNNING"

\* What _validate_running_execution and the status check let through.
Current(t, a) == exec[t][a] = "running" /\ status[t] = "RUNNING"

\* Mutant: the execution is closed and the task forgotten.
MarkSuccessOfExecution(t, a) ==
  /\ Current(t, a)
  /\ exec' = [exec EXCEPT ![t][a] = "succeeded"]
  /\ lapsed' = lapsed \ {<<t, a>>}
  /\ UNCHANGED <<job, status, retries, parked>>

MarkSuccess(t, a) ==
  /\ Current(t, a)
  /\ exec' = [exec EXCEPT ![t][a] = "succeeded"]
  /\ status' = [status EXCEPT ![t] = "SUCCESS"]
  /\ job' = JobAfterSuccess(JobOf[t], status')
  /\ lapsed' = lapsed \ {<<t, a>>}
  /\ UNCHANGED <<retries, parked>>

\* Mutant: one retry too many.
RetriesOnceMore(t, forceFinal) == ~forceFinal /\ retries[t] + 1 <= MaxRetries[t]

RetriesAgain(t, forceFinal) == ~forceFinal /\ retries[t] + 1 < MaxRetries[t]

\* delay: whether RetryConfig.delay_for_attempt puts next_run_at in the future.
MarkFailure(t, a, timedOut, forceFinal, delay) ==
  LET again == RetriesAgain(t, forceFinal)
  IN  /\ Current(t, a)
      /\ exec' = [exec EXCEPT ![t][a] = IF timedOut THEN "timed_out" ELSE "failed"]
      /\ status' = [status EXCEPT ![t] = IF again THEN "RETRY" ELSE "FAILED"]
      /\ retries' = [retries EXCEPT ![t] = @ + 1]
      /\ parked' = IF again /\ delay THEN parked \cup {t} ELSE parked
      /\ job' = IF again THEN job ELSE JobAfterFailure({t})
      /\ lapsed' = lapsed \ {<<t, a>>}

\* Mutant: a wait gives back the attempt it has used.
RetryTaskRowRefunds(t, spend, delay) ==
  /\ status[t] # "absent"
  /\ status' = [status EXCEPT ![t] = "RETRY"]
  /\ retries' = [retries EXCEPT ![t] = IF spend THEN @ + 1 ELSE @ - 1]
  /\ parked' = IF delay THEN parked \cup {t} ELSE parked \ {t}
  /\ UNCHANGED <<job, exec, lapsed>>

(***************************************************************************)
(* mark_task_for_retry and mark_task_waiting_for_retry: two autocommitted  *)
(* UPDATEs, by id only.  Neither looks at the status it overwrites, and    *)
(* each changes nothing when delete_job has removed the row.               *)
(***************************************************************************)
RetryTaskRow(t, spend, delay) ==
  /\ IF status[t] = "absent"
     THEN UNCHANGED <<status, retries, parked>>
     ELSE /\ status' = [status EXCEPT ![t] = "RETRY"]
          /\ retries' = IF spend THEN [retries EXCEPT ![t] = @ + 1] ELSE retries
          /\ parked' = IF delay THEN parked \cup {t} ELSE parked \ {t}
  /\ UNCHANGED <<job, exec, lapsed>>

RetryExecutionRow(t, a) ==
  /\ exec' = IF exec[t][a] = "none" THEN exec ELSE [exec EXCEPT ![t][a] = "failed"]
  /\ lapsed' = lapsed \ {<<t, a>>}
  /\ UNCHANGED <<job, status, retries, parked>>

\* Mutant: resets a task whatever its status.
ResetAny(t) ==
  /\ status[t] # "absent"
  /\ retries[t] < MaxRetries[t]
  /\ status' = [status EXCEPT ![t] = "PENDING"]
  /\ parked' = parked \ {t}
  /\ UNCHANGED <<job, retries, exec, lapsed>>

\* Mutant: gives the task its whole budget back.
ResetBudget(t) ==
  /\ status[t] = "FAILED"
  /\ status' = [status EXCEPT ![t] = "PENDING"]
  /\ retries' = [retries EXCEPT ![t] = 0]
  /\ parked' = parked \ {t}
  /\ UNCHANGED <<job, exec, lapsed>>

ResetFailed(t) ==
  /\ status[t] = "FAILED"
  /\ retries[t] < MaxRetries[t]
  /\ status' = [status EXCEPT ![t] = "PENDING"]
  /\ parked' = parked \ {t}
  /\ UNCHANGED <<job, retries, exec, lapsed>>

-----------------------------------------------------------------------------
(* Leases                                                                  *)

\* update_execution_heartbeat: only a running row gets a new lease.
RenewLease(t, a) ==
  /\ <<t, a>> \in lapsed
  /\ lapsed' = lapsed \ {<<t, a>>}
  /\ UNCHANGED <<job, status, retries, parked, exec>>

LeaseLapses(t, a) ==
  /\ exec[t][a] = "running"
  /\ <<t, a>> \notin lapsed
  /\ lapsed' = lapsed \cup {<<t, a>>}
  /\ UNCHANGED <<job, status, retries, parked, exec>>

Expired == {e \in lapsed : Current(e[1], e[2])}

\* recover_expired_executions; delayed: those whose backoff lies ahead.
RecoverExpired(delayed) ==
  LET E == Expired
      T == {e[1] : e \in E}
      again == {t \in T : retries[t] < MaxRetries[t]}
  IN  /\ E # {}
      /\ delayed \subseteq again
      /\ exec' = [t \in Tasks |-> [a \in Attempts |->
                    IF <<t, a>> \in E THEN "failed" ELSE exec[t][a]]]
      /\ status' = [t \in Tasks |-> IF t \in again THEN "RETRY"
                                    ELSE IF t \in T THEN "FAILED" ELSE status[t]]
      /\ parked' = parked \cup delayed
      /\ job' = JobAfterFailure(T \ again)
      /\ lapsed' = lapsed \ E
      /\ UNCHANGED retries
=============================================================================
