---------------------------- MODULE RepairScript ----------------------------
(***************************************************************************)
(* scripts/fix_db_state.py, run by hand on the task tables while no worker *)
(* is up.  Its two repairs are transactions of their own; the script ends  *)
(* at the first statement that raises.                                     *)
(***************************************************************************)
EXTENDS TaskRuntime

VARIABLE script   \* idle, done, or raised (it ended in an exception)

repairVars == <<vars, script>>

Orphans ==
  {e \in Tasks \X Attempts :
     /\ exec[e[1]][e[2]] = "running"
     /\ status[e[1]] \in {"READY", "PENDING", "RETRY", "FAILED"}}

StaleRunning == {t \in Tasks : status[t] = "RUNNING" /\ ~RunningRow(t)}

\* Fix 1 sets a column task_executions does not have, so with an orphan to
\* repair it raises before anything has changed.
RunScript ==
  /\ script = "idle"
  /\ \A w \in Workers : worker[w] = "down"
  /\ IF Orphans # {}
     THEN script' = "raised" /\ UNCHANGED <<status, retries, parked>>
     ELSE /\ script' = "done"
          /\ status' = [t \in Tasks |-> IF t \in StaleRunning THEN "RETRY" ELSE status[t]]
          /\ retries' = [t \in Tasks |->
                           IF t \in StaleRunning THEN retries[t] + 1 ELSE retries[t]]
          /\ parked' = parked \ StaleRunning
  /\ UNCHANGED <<job, exec, lapsed, worker, runs>>

RepairInit == Init /\ script = "idle"
RepairNext == (Next /\ UNCHANGED script) \/ RunScript
RepairSpec == RepairInit /\ [][RepairNext]_repairVars

\* Once the script has been run, no stale running execution is left that
\* blocks the re-acquisition of a READY, PENDING or RETRY task.
ClearsOrphans == [][script' # script => Orphans' = {}]_repairVars
=============================================================================
