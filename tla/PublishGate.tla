----------------------------- MODULE PublishGate -----------------------------
(***************************************************************************)
(* From a rendered video to its upload: the remake task writes a file and  *)
(* registers it as an artifact, the operator judges the artifact, and the  *)
(* worker lets the publish task through its four guards, each of which is  *)
(* a query of its own on a state that the API may change in between        *)
(* (workers/worker_runtime.py, api/routes/artifacts.py and accounts.py).   *)
(***************************************************************************)
EXTENDS Integers

CONSTANTS
  Paths,         \* storage_uri: one per 16 bits of a seed that remake_video draws
  NoPath,        \* no result yet
  MaxRenders,    \* bound on the executions of the remake task
  MaxAttempts    \* bound on the publish task's failed attempts

VARIABLES
  file,          \* which render a path holds, 0 for none
  overwriting,   \* the renders that took the path of an earlier one
  artifact,      \* artifacts.status by storage_uri, "none" without a row
  reviewed,      \* the renders the operator has approved, of all time
  remake,        \* the remake task: step, its path, and how often it ran
  video,         \* the remake task's result once it is a SUCCESS
  standing,      \* accounts.status, "deleted" without a row
  gate,          \* the publish task: step of its execution, what it resolved, failures
  uploaded       \* the renders that reached the platform

gateVars == <<file, overwriting, artifact, reviewed, remake, video, standing, gate, uploaded>>

GateInit ==
  /\ file = [p \in Paths |-> 0]
  /\ overwriting = {}
  /\ artifact = [p \in Paths |-> "none"]
  /\ reviewed = {}
  /\ remake = [step |-> "queued", path |-> NoPath, runs |-> 0]
  /\ video = NoPath
  /\ standing = "healthy"
  /\ gate = [step |-> "queued", path |-> NoPath, failed |-> 0]
  /\ uploaded = {}

-----------------------------------------------------------------------------
(* The remake task                                                         *)

\* The seed names the file by its last 16 bits: another run's file may have them.
Render ==
  /\ remake.step = "queued" /\ remake.runs < MaxRenders
  /\ \E p \in Paths :
       /\ file' = [file EXCEPT ![p] = remake.runs + 1]
       /\ overwriting' = IF file[p] = 0 THEN overwriting ELSE overwriting \cup {remake.runs + 1}
       /\ remake' = [step |-> "rendered", path |-> p, runs |-> remake.runs + 1]
  /\ UNCHANGED <<artifact, reviewed, video, standing, gate, uploaded>>

\* create_artifact: INSERT OR IGNORE, so a row that is there keeps its status.
Register ==
  /\ remake.step = "rendered"
  /\ remake' = [remake EXCEPT !.step = "registered"]
  /\ artifact' = IF artifact[remake.path] # "none" THEN artifact ELSE [artifact EXCEPT ![remake.path] = "pending"]
  /\ UNCHANGED <<file, overwriting, reviewed, video, standing, gate, uploaded>>

RemakeSucceeds ==
  /\ remake.step = "registered"
  /\ remake' = [remake EXCEPT !.step = "done"]
  /\ video' = remake.path
  /\ UNCHANGED <<file, overwriting, artifact, reviewed, standing, gate, uploaded>>

\* The render, the registration or the commit of the success fails: the task runs again.
RemakeFails ==
  /\ remake.step \in {"rendered", "registered"}
  /\ remake' = [remake EXCEPT !.step = "queued"]
  /\ UNCHANGED <<file, overwriting, artifact, reviewed, video, standing, gate, uploaded>>

-----------------------------------------------------------------------------
(* The operator                                                            *)

\* PUT /artifacts/{id}/status, whatever the status was
Judge(p, verdict) ==
  /\ artifact[p] # "none"
  /\ artifact' = [artifact EXCEPT ![p] = verdict]
  /\ reviewed' = IF verdict = "approved" THEN reviewed \cup {file[p]} ELSE reviewed
  /\ UNCHANGED <<file, overwriting, remake, video, standing, gate, uploaded>>

\* update_account_status and delete_account
SetsStanding(s) ==
  /\ standing # "deleted"
  /\ standing' = s
  /\ UNCHANGED <<file, overwriting, artifact, reviewed, remake, video, gate, uploaded>>

-----------------------------------------------------------------------------
(* An execution of the publish task                                        *)

GateMoves(step) == gate' = [gate EXCEPT !.step = step]

\* RetryableDependencyError and every other error spend the budget.
SpendsATry == gate' = [step |-> IF gate.failed + 1 < MaxAttempts THEN "queued" ELSE "dead",
                    path |-> NoPath, failed |-> gate.failed + 1]

\* _resolve_payload: the remake's result as it is when the execution starts
Resolve ==
  /\ gate.step = "queued" /\ video # NoPath
  /\ gate' = [gate EXCEPT !.step = "account", !.path = video]
  /\ UNCHANGED <<file, overwriting, artifact, reviewed, remake, video, standing, uploaded>>

\* Guards 1 and 2
CheckAccount ==
  /\ gate.step = "account"
  /\ CASE standing \in {"deleted", "banned"} -> GateMoves("dead")
       [] standing = "limited" -> SpendsATry
       [] OTHER -> GateMoves("rules")
  /\ UNCHANGED <<file, overwriting, artifact, reviewed, remake, video, standing, uploaded>>

\* get_policy_rules raises for an account that is gone by now
RulesAreFound == standing # "deleted"

\* Guard 3: the rules count table action_logs, which no code writes, against
\* limits of at least one.
CheckRules ==
  /\ gate.step = "rules"
  /\ IF RulesAreFound THEN GateMoves("approval") ELSE SpendsATry
  /\ UNCHANGED <<file, overwriting, artifact, reviewed, remake, video, standing, uploaded>>

\* Mutant: any artifact of the job will do.
StatusOfJob(path) ==
  IF \E p \in Paths : artifact[p] = "approved" THEN "approved" ELSE artifact[path]

\* No row reads as pending.
StatusAt(path) == artifact[path]

\* Guard 4: PendingApprovalError spends no budget
CheckApproval ==
  /\ gate.step = "approval"
  /\ CASE StatusAt(gate.path) = "approved" -> GateMoves("upload")
       [] StatusAt(gate.path) = "rejected" -> GateMoves("dead")
       [] OTHER -> gate' = [gate EXCEPT !.step = "queued", !.path = NoPath]
  /\ UNCHANGED <<file, overwriting, artifact, reviewed, remake, video, standing, uploaded>>

Upload ==
  /\ gate.step = "upload"
  /\ GateMoves("done")
  /\ uploaded' = uploaded \cup {file[gate.path]}
  /\ UNCHANGED <<file, overwriting, artifact, reviewed, remake, video, standing>>

UploadFails ==
  /\ gate.step = "upload"
  /\ SpendsATry
  /\ UNCHANGED <<file, overwriting, artifact, reviewed, remake, video, standing, uploaded>>

-----------------------------------------------------------------------------

OperatorJudges ==
  \/ \E p \in Paths, verdict \in {"approved", "rejected"} : Judge(p, verdict)
  \/ \E s \in {"healthy", "limited", "banned", "deleted"} : SetsStanding(s)

GateNext ==
  \/ Render \/ Register \/ RemakeSucceeds \/ RemakeFails
  \/ Resolve \/ CheckAccount \/ CheckRules \/ CheckApproval \/ Upload \/ UploadFails
  \/ OperatorJudges

GateSpec == GateInit /\ [][GateNext]_gateVars

-----------------------------------------------------------------------------
(* Properties                                                              *)

\* What reaches the platform is a render that the operator has seen and
\* approved: an approval of an earlier run's file never stands for the file of a
\* later run, but for one whose seed ends like that of an earlier run, which
\* takes that run's path and approval (remake_video.py:177-208,
\* worker_runtime.py:288-327).
UploadsAreReviewed == uploaded \subseteq reviewed \cup overwriting
=============================================================================
