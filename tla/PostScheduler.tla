---------------------------- MODULE PostScheduler ----------------------------
(***************************************************************************)
(* Stage 11 of the content pipeline: approved items become jobs of the     *)
(* SQLite queue of execution/scheduler.py, and a tick publishes those that *)
(* are due, one after another (execution/orchestrator.py,                  *)
(* publisher_playwright.py, account_manager.py).  One process runs cycles; *)
(* the operator reviews and cancels from outside.  Two logs limit what a   *)
(* page publishes: the scheduler's and the orchestrator's.                 *)
(***************************************************************************)
EXTENDS FiniteSetsExt, Integers

CONSTANTS
  Items,         \* submissions
  Score,         \* what get_approved orders by
  AutoApprove,   \* AUTO_APPROVE
  Jobs,          \* rows of the table jobs
  PostPages,     \* accounts of accounts.json
  NoPage,        \* account_id = ""
  PerCycle,      \* MAX_EXEC_PER_CYCLE
  PerTick,       \* MAX_JOBS_PER_TICK
  PerDay,        \* MAX_POSTS_PER_DAY, and the orchestrator's constant
  Uploads,       \* MAX_RETRIES of an upload
  FailLimit,     \* _MAX_CONSECUTIVE_FAILS
  MaxMishaps     \* bound: deaths of the process and writes it loses

NoItem == "no item"

ASSUME PostAssumption ==
  /\ IsFiniteSet(Jobs) /\ NoItem \notin Items
  /\ PerTick \in Nat /\ PerCycle \in Nat /\ PerDay \in Nat /\ MaxMishaps \in Nat
  /\ Uploads \in Nat \ {0} /\ FailLimit \in Nat \ {0} /\ NoPage \notin PostPages

VARIABLES
  review,    \* queue.status, "absent" before the submission
  row,       \* jobs: item, page, status, whether not_before has come
  cycle,     \* the pipeline: at, items to enqueue, rows of the tick, the current one
  log,       \* page_post_log and post_log: posts of each page today
  resting,   \* pages of page_post_log younger than MIN_POST_INTERVAL_S,
             \* the same as of the tick's start, pages of post_log younger than 60 s
  fails,     \* consecutive_fails of the process's health records
  cooling,   \* pages that get_next_account passes over
  known,     \* whether the process has read accounts.json
  posts,     \* uploads of each job that reached the platform
  mishaps        \* deaths of the process, and writes lost in a swallowed error

postVars == <<row, cycle, log, resting, fails, cooling, known, posts, mishaps>>

-----------------------------------------------------------------------------
(* The operator's review of what a cycle proposes                          *)
(* (execution/approval_queue.py): one row per submission, every change one *)
(* committed UPDATE that names the status it starts from.                  *)

Reviews == {"absent", "pending", "approved", "rejected", "dispatched"}

ReviewInit(queued) == review = [i \in Items |-> IF i \in queued THEN "dispatched" ELSE "absent"]

\* INSERT OR REPLACE, but of a new row: the id is hashed from the account, the
\* niche and the time of the cycle, and an account is submitted once in a cycle.
Submit(i) ==
  /\ review[i] = "absent"
  /\ review' = [review EXCEPT ![i] = IF AutoApprove THEN "approved" ELSE "pending"]

\* approve, reject and mark_dispatched; each returns whether it changed a row.
Moves(i, from, to) == review[i] = from /\ review' = [review EXCEPT ![i] = to]

Approve(i) == Moves(i, "pending", "approved")
Reject(i) == Moves(i, "pending", "rejected")
MarkDispatched(i) ==
  IF review[i] = "approved" THEN Moves(i, "approved", "dispatched") ELSE UNCHANGED review

\* get_approved(limit): the best, and any among equals.
Approved(limit) ==
  LET S == {i \in Items : review[i] = "approved"}
  IN  {T \in SUBSET S : /\ Cardinality(T) = Min({limit, Cardinality(S)})
                        /\ \A i \in T, j \in S \ T : Score[i] >= Score[j]}

-----------------------------------------------------------------------------
(* The queue                                                               *)

Unused == [item |-> NoItem, page |-> NoPage, status |-> "absent", due |-> FALSE]
AtRest == [at |-> "resting", items |-> {}, rows |-> {}, job |-> {}, tried |-> 0]
Fresh(x) == [p \in PostPages |-> x]
RowsOf(i) == {j \in Jobs : row[j].item = i}
Page(j) == row[j].page
Goes(place) == cycle' = [cycle EXCEPT !.at = place]
Current == CHOOSE j \in cycle.job : TRUE

\* What an earlier process may have queued: each row for an item of its own.
QueuedRow == [item : Items, page : PostPages \cup {NoPage}, status : {"queued"}, due : BOOLEAN]
Leftovers ==
  {left \in [Jobs -> QueuedRow \cup {Unused}] :
     \A j, k \in Jobs : left[j] # Unused /\ left[j].item = left[k].item => j = k}

\* left: the rows the process has queued already.
PostInit(left) ==
  /\ row = left
  /\ ReviewInit({left[j].item : j \in Jobs} \ {NoItem})
  /\ cycle = AtRest
  /\ log = [queue |-> Fresh(0), done |-> Fresh(0)]
  /\ resting = [queue |-> {}, seen |-> {}, done |-> {}]
  /\ fails = Fresh(0) /\ cooling = {} /\ known = (\E j \in Jobs : left[j] # Unused)
  /\ posts = [j \in Jobs |-> 0]
  /\ mishaps = 0

-----------------------------------------------------------------------------
(* A cycle: submissions, then the approved items, then a tick              *)

\* A cycle may have nothing to submit, and a submission that fails is logged.
CycleBegins ==
  /\ cycle = AtRest
  /\ (\E i \in Items : Submit(i)) \/ UNCHANGED review
  /\ Goes("submitted")
  /\ UNCHANGED <<row, log, resting, fails, cooling, known, posts, mishaps>>

ReadApproved ==
  /\ cycle.at = "submitted"
  /\ \E batch \in Approved(PerCycle) : cycle' = [cycle EXCEPT !.at = "enqueueing", !.items = batch]
  /\ UNCHANGED <<review, row, log, resting, fails, cooling, known, posts, mishaps>>

\* An error of either database is logged and swallowed.
WriteIsLost == mishaps < MaxMishaps /\ mishaps' = mishaps + 1

\* get_next_account: a page that is available, in turn; and enqueue.
QueueJob(i) ==
  \E j \in Jobs, due \in BOOLEAN :
    /\ row[j].status = "absent"
    /\ \E p \in IF PostPages \ cooling = {} THEN {NoPage} ELSE PostPages \ cooling :
         row' = [row EXCEPT ![j] = [item |-> i, page |-> p, status |-> "queued", due |-> due]]

Enqueue(i) ==
  /\ cycle.at = "enqueueing" /\ i \in cycle.items
  /\ known' = TRUE
  /\ \/ QueueJob(i) /\ UNCHANGED mishaps
     \/ WriteIsLost /\ UNCHANGED row
  /\ cycle' = [cycle EXCEPT !.at = "dispatching", !.items = {i}, !.rows = cycle.items \ {i}]
  /\ UNCHANGED <<review, log, resting, fails, cooling, posts>>

\* Mutant: the item stays approved.
ForgetDispatch(i) == UNCHANGED review

\* mark_dispatched, in a database of its own.
Dispatched(i) == MarkDispatched(i)

Dispatch(i) ==
  /\ cycle.at = "dispatching" /\ i \in cycle.items
  /\ \/ Dispatched(i) /\ UNCHANGED mishaps
     \/ WriteIsLost /\ UNCHANGED review
  /\ cycle' = [cycle EXCEPT !.at = "enqueueing", !.items = cycle.rows, !.rows = {}]
  /\ UNCHANGED <<row, log, resting, fails, cooling, known, posts>>

\* The tick takes the rows that are due now.
TickBegins ==
  /\ cycle.at = "enqueueing" /\ cycle.items = {}
  /\ LET due == {j \in Jobs : row[j].status = "queued" /\ row[j].due} IN
     \E batch \in kSubset(Min({PerTick, Cardinality(due)}), due) :
       cycle' = [cycle EXCEPT !.at = "ticking", !.rows = batch]
  /\ resting' = [resting EXCEPT !.seen = resting.queue]
  /\ UNCHANGED <<review, row, log, fails, cooling, known, posts, mishaps>>

\* The log as it is, against the clock as the tick found it.
Held(p) ==
  p \in PostPages /\ (log.queue[p] >= PerDay \/ p \in resting.seen \/ p \in resting.queue)

Postpone(j) ==
  /\ cycle.at = "ticking" /\ j \in cycle.rows /\ Held(Page(j))
  /\ row' = [row EXCEPT ![j].due = FALSE]
  /\ cycle' = [cycle EXCEPT !.rows = @ \ {j}]
  /\ UNCHANGED <<review, log, resting, fails, cooling, known, posts, mishaps>>

\* The row becomes running whatever it has become since the tick began, and
\* the orchestrator checks its own log.
Start(j) ==
  LET p == Page(j)
      limited == known /\ p \in PostPages /\ (log.done[p] >= PerDay \/ p \in resting.done) IN
  /\ cycle.at = "ticking" /\ j \in cycle.rows /\ ~Held(p)
  /\ row' = [row EXCEPT ![j].status = "running"]
  /\ cycle' = [cycle EXCEPT !.at = IF limited THEN "skipped" ELSE "preparing",
                            !.rows = @ \ {j}, !.job = {j}, !.tried = 0]
  /\ UNCHANGED <<review, log, resting, fails, cooling, known, posts, mishaps>>

\* The video is made, and the account must have a session: without its
\* configuration (get_account reads what the process has loaded) it has none.
Prepare ==
  /\ cycle.at = "preparing"
  /\ Goes("failed") \/ (known /\ Page(Current) \in PostPages /\ Goes("uploading"))
  /\ UNCHANGED <<review, row, log, resting, fails, cooling, known, posts, mishaps>>

-----------------------------------------------------------------------------
(* Uploads                                                                 *)

\* mark_failed
CountsFailure(p) ==
  /\ fails' = [fails EXCEPT ![p] = Min({@ + 1, FailLimit})]
  /\ cooling' = IF fails[p] + 1 >= FailLimit THEN cooling \cup {p} ELSE cooling

\* A login page, a captcha: no further attempt.
SessionBlocked ==
  /\ cycle.at = "uploading"
  /\ CountsFailure(Page(Current))
  /\ Goes("failed")
  /\ UNCHANGED <<review, row, log, resting, known, posts, mishaps>>

\* An attempt that raises, before the click or after it, is repeated.
AttemptFails ==
  /\ cycle.at \in {"uploading", "posted"}
  /\ cycle' = IF cycle.tried + 1 < Uploads
              THEN [cycle EXCEPT !.at = "uploading", !.tried = @ + 1]
              ELSE [cycle EXCEPT !.at = "failed"]
  /\ UNCHANGED <<review, row, log, resting, fails, cooling, known, posts, mishaps>>

Click ==
  /\ cycle.at = "uploading"
  /\ posts' = [posts EXCEPT ![Current] = @ + 1]
  /\ Goes("posted")
  /\ UNCHANGED <<review, row, log, resting, fails, cooling, known, mishaps>>

\* _record_post
RecordPost ==
  LET p == Page(Current) IN
  /\ cycle.at = "posted"
  /\ log' = [log EXCEPT !.done[p] = @ + 1]
  /\ resting' = [resting EXCEPT !.done = @ \cup {p}]
  /\ Goes("succeeded")
  /\ UNCHANGED <<review, row, fails, cooling, known, posts, mishaps>>

\* The scheduler's own log, and mark_healthy.
LogPost ==
  LET p == Page(Current) IN
  /\ cycle.at = "succeeded"
  /\ log' = [log EXCEPT !.queue[p] = @ + 1]
  /\ resting' = [resting EXCEPT !.queue = @ \cup {p}]
  /\ fails' = [fails EXCEPT ![p] = 0]
  /\ cooling' = cooling \ {p}
  /\ Goes("success")
  /\ UNCHANGED <<review, row, known, posts, mishaps>>

\* The job's final status; a failure counts against the account (again).
JobEnds ==
  LET p == Page(Current) IN
  /\ cycle.at \in {"success", "skipped", "failed"}
  /\ row' = [row EXCEPT ![Current].status = cycle.at]
  /\ IF cycle.at = "failed" /\ p \in PostPages THEN CountsFailure(p) ELSE UNCHANGED <<fails, cooling>>
  /\ cycle' = [cycle EXCEPT !.at = "ticking", !.job = {}, !.tried = 0]
  /\ UNCHANGED <<review, log, resting, known, posts, mishaps>>

CycleEnds ==
  /\ cycle.at = "ticking" /\ cycle.rows = {}
  /\ cycle' = AtRest
  /\ UNCHANGED <<review, row, log, resting, fails, cooling, known, posts, mishaps>>

-----------------------------------------------------------------------------
(* Outside                                                                 *)

OperatorReviews ==
  /\ \E i \in Items : Approve(i) \/ Reject(i)
  /\ UNCHANGED postVars

CancelJob(j) ==
  /\ row[j].status = "queued"
  /\ row' = [row EXCEPT ![j].status = "cancelled"]
  /\ UNCHANGED <<review, cycle, log, resting, fails, cooling, known, posts, mishaps>>

TimePasses ==
  \/ /\ \E j \in Jobs : ~row[j].due /\ row' = [row EXCEPT ![j].due = TRUE]
     /\ UNCHANGED <<log, resting, cooling>>
  \/ resting' = [resting EXCEPT !.done = {}] /\ UNCHANGED <<row, log, cooling>>
  \/ resting' = [resting EXCEPT !.queue = {}, !.done = {}] /\ UNCHANGED <<row, log, cooling>>
  \/ log' = [log EXCEPT !.queue = Fresh(0), !.done = Fresh(0)] /\ UNCHANGED <<row, resting, cooling>>
  \/ cooling # {} /\ cooling' = {} /\ UNCHANGED <<row, log, resting>>

TimeOutside == TimePasses /\ UNCHANGED <<review, cycle, fails, known, posts, mishaps>>

\* The process dies and starts again: a running row stays running.
ProcessDies ==
  /\ mishaps < MaxMishaps /\ cycle # AtRest
  /\ mishaps' = mishaps + 1
  /\ cycle' = AtRest
  /\ fails' = Fresh(0) /\ cooling' = {} /\ known' = FALSE
  /\ UNCHANGED <<review, row, log, resting, posts>>

CycleStep ==
  \/ CycleBegins \/ ReadApproved \/ TickBegins \/ CycleEnds
  \/ \E i \in Items : Enqueue(i) \/ Dispatch(i)
  \/ \E j \in Jobs : Postpone(j) \/ Start(j)
  \/ Prepare \/ SessionBlocked \/ AttemptFails \/ Click \/ RecordPost \/ LogPost \/ JobEnds

PostNext ==
  \/ CycleStep
  \/ OperatorReviews
  \/ \E j \in Jobs : CancelJob(j)
  \/ TimeOutside
  \/ ProcessDies

PostSpec == (\E left \in Leftovers : PostInit(left)) /\ [][PostNext]_<<review, postVars>>

-----------------------------------------------------------------------------
(* Properties                                                              *)

\* What the operator rejected is never queued, let alone published, and what
\* was approved is queued once, though the queue and the review live in two
\* databases: at most once more for each time the process dies between the
\* two writes or loses the second.
ReviewDecides ==
  \A i \in Items :
    /\ review[i] \in {"absent", "pending", "rejected"} => RowsOf(i) = {}
    /\ Cardinality(RowsOf(i)) <= 1 + mishaps
=============================================================================
