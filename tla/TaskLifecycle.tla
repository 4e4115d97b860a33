--------------------------- MODULE TaskLifecycle ---------------------------
(***************************************************************************)
(* What the task tables promise, without executions, workers or two-part   *)
(* writes: VALID_TASK_TRANSITIONS of database/database.py, the dependency  *)
(* gate, and the retry budget.  Several tasks may move in one step.        *)
(***************************************************************************)
EXTENDS Integers

CONSTANTS Tasks, Parents, MaxRetries

VARIABLES
  status,   \* as in TaskStore; "absent": no row
  retries   \* retry_count

ValidTaskTransitions ==
  [s \in {"PENDING", "READY", "RUNNING", "RETRY", "SUCCESS", "FAILED"} |->
     CASE s = "PENDING" -> {"READY", "FAILED"}
       [] s = "READY"   -> {"RUNNING", "FAILED"}
       [] s = "RUNNING" -> {"SUCCESS", "RETRY", "FAILED"}
       [] s = "RETRY"   -> {"READY", "FAILED"}
       [] s = "SUCCESS" -> {}
       [] s = "FAILED"  -> {"PENDING"}]

Init ==
  /\ status = [t \in Tasks |-> "absent"]
  /\ retries = [t \in Tasks |-> 0]

Idle(t) == status'[t] = status[t] /\ retries'[t] = retries[t]

Create(t) ==
  /\ status[t] = "absent" /\ status'[t] = "PENDING"
  /\ retries'[t] = 0

\* Only a task that nobody runs can be deleted.
Delete(t) ==
  /\ status[t] \notin {"absent", "RUNNING"} /\ status'[t] = "absent"
  /\ retries'[t] = 0

\* Becoming READY and starting need every parent to have succeeded; starting
\* needs something left of the budget, and only an attempt's end spends it.
Move(t) ==
  /\ status[t] # "absent"
  /\ status'[t] \in ValidTaskTransitions[status[t]]
  /\ status'[t] \in {"READY", "RUNNING"} =>
       \A p \in Parents[t] : status[p] = "SUCCESS" /\ status'[p] = "SUCCESS"
  /\ status'[t] = "RUNNING" => retries[t] < MaxRetries[t]
  /\ \/ retries'[t] = retries[t]
     \/ /\ status[t] = "RUNNING" /\ status'[t] # "SUCCESS"
        /\ retries'[t] = retries[t] + 1

Next ==
  /\ DOMAIN status' = Tasks /\ DOMAIN retries' = Tasks
  /\ \A t \in Tasks : Idle(t) \/ Create(t) \/ Delete(t) \/ Move(t)

Spec == Init /\ [][Next]_<<status, retries>>
=============================================================================
