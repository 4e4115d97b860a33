# Automation Ecosystem: a TLA+ verification

Automation Ecosystem is a local automation platform: an API accepts *jobs* made of
*tasks*, a scheduler promotes tasks whose dependencies are met, and worker processes take
them from a SQLite database and run their *handlers*: they search TikTok, download and
remix videos, and publish them under rules that keep accounts from being banned. Beside
that queue stand services that the API serves (licences, AI keys, logins, approvals), the
engines that decide what is published where, and a simulation pipeline with its own
ledgers.

This directory specifies all three layers. Paths below are relative to the repository's
root; `database.py` is `database/database.py`.

| file | what it is |
|---|---|
| **the task queue** | |
| `TaskLifecycle.tla` | abstract specification: what the tables promise about a task |
| `TaskStore.tla` | the task tables and the transactions that change them |
| `TaskRuntime.tla` | scheduler, workers, coroutines, leases and API requests over the tables |
| `RepairScript.tla` | `scripts/fix_db_state.py` over the state a crash leaves |
| **publishing** | |
| `AccountRisk.tla` | the accounts, their proxies, and the account row: status, session, counters, risk score |
| `Coordinator.tla` | `CrossAccountCoordinator`: slots, activity levels, upload caps, skips |
| `PublishSession.tla` | the TikTok publisher: sessions that use the two modules above |
| `PublishGate.tla` | from a render through the operator's verdict to the upload |
| `SessionPlanner.tla` | when an account may hold a session and upload in it |
| `AccountConnect.tla` | logins, confirmations and write-backs on one account |
| `Identity.tla` | the device that an account's browsers show |
| **services and engines** | |
| `LicenseServer.tla`, `LicenseClient.tla` | device seats on the server; cache, grace period and guard of the clients |
| `AiRouter.tla` | AI keys, models, and two callers of one configured library |
| `PostScheduler.tla` | the review of proposed posts and the queue that publishes them |
| `AccountBrain.tla`, `ContentBrain.tla`, `CeoBrain.tla` | memory and plan of an account; verdicts on content; growth mode and overrides |
| `Portfolio.tla` | stages of an account, states of a content, the plan that joins them |
| `AngleBank.tla`, `PatternMemory.tla` | content angles in rotation; what has been learnt of patterns |
| **TikTok data handlers** | |
| `Devices.tla` | the pages and the phone that concurrent tasks share |
| `ProductSearch.tla`, `ProductInfo.tla`, `ProductWords.tla` | search, product extraction, keywords and queries |
| `VideoDownload.tla`, `MediaFiles.tla`, `RemixPlan.tla` | attempts of a download, the files they leave, selection and remix |
| **simulation and fleet** | |
| `SessionBrains.tla`, `FleetSessions.tla` | risk, fingerprint and intent of a session; windows and SAFE mode of the fleet |
| `Attribution.tla`, `Scaling.tla`, `Swarm.tla`, `Pipeline.tla` | ledger of sales, scaling tiers, clusters under selection, and the cycle that calls the three |
| **instances and proofs** | |
| `MCTaskRuntime.tla`, `MCRepairScript.tla`, `MCPublishSession.tla`, `MCServices.tla`, `MCHandlers.tla`, `MC*_*.cfg` | instances for TLC |
| `TaskRuntimeProofs.tla` | types and the inductive invariant of `TaskRuntime` |
| `TaskRowProofs.tla` | rows and retry counts of a task, no task twice, and `TaskRuntime` implements `TaskLifecycle` |
| `PublishSessionProofs.tla` | slots, upload counts, score and status of the accounts of concurrent sessions |
| `LicenseProofs.tla` | seats and trust are bounded, and the clients implement the server |
| `ServiceProofs.tla` | suspension, device, review, recovery, block, spacing, verdicts, pauses and plans |
| `HandlerProofs.tla` | downloads, words, AI keys, angles, the fleet, the pipeline, the ledger of sales |
| `FiniteFolds.tla` | folds, sums and ranks over finite sets, which those proofs need |
| `ContentBrain.tla` | holds the proof of its one property beside it |

## 1. The system

### Inventory

**Task store** (`database.py`, `database/schema.sql`). State: rows of `jobs`, `tasks`
(status, retry_count, next_run_at), `task_executions` (one per attempt, with a lease) and
`task_dependencies`. Operations: `create_job`, `delete_job`, `acquire_ready_tasks_batch`,
`mark_task_success`, `mark_task_failure` (each one transaction), `mark_task_for_retry` and
`mark_task_waiting_for_retry` (two autocommitted `UPDATE`s each, with no look at what they
overwrite), `reset_failed_task_for_retry`, `update_execution_heartbeat`,
`recover_expired_executions`. Hard: several processes interleave, and a process may die
between any two statements. Correct when: no task runs twice, a task starts only after its
parents, retries are counted exactly, a job's status agrees with its tasks.

**Worker runtime** (`workers/worker_runtime.py`). State: the coroutines in flight, a stop
flag. It polls for a batch, runs a coroutine per task (resolve payload, guards, handler
under `asyncio.timeout`, heartbeat on the side), and writes the outcome. Hard: a coroutine
decides on a snapshot taken minutes ago; a write may raise; the deadline races the answer.
Correct when: what a coroutine writes is still true of its task, and every job ends.

**Scheduler and workflow manager** (`core/scheduler.py`, `core/workflow_manager.py`).
A loop that promotes PENDING and RETRY tasks whose parents succeeded. `dispatch_tasks`
needs an external queue that no process configures and returns at once.

**Job and task API** (`api/routes/jobs.py`, `tasks.py`). Requests at any moment: create,
delete, retry.

**Repair script** (`scripts/fix_db_state.py`). Run by hand after a crash.

**Account risk** (`database.py` 1600-1850, `api/routes/accounts.py`). State: status,
session_valid, counters, risk_score. `record_publish_success`, `record_publish_failure`,
`record_captcha_hit` and `record_login_redirect` change a counter, then read the row, then
write score and status back, in three autocommitted statements. Correct when: the score
is the one of the counters and the status the one of the score.

**Cross-account coordinator** (`core/cross_account_coordinator.py`). In the memory of one
worker process: active jobs, accounts by proxy, counts by activity level, upload and skip
windows. Every method runs without an `await`; the sessions that call it interleave
between calls. Correct when: nothing of a session stays once it is over, caps are kept.

**TikTok publisher** (`workers/handlers/publish/tiktok_publisher.py`). A handler of 800
lines: guards, coordinator, start delay of minutes, checks, browser, warm-up, a skip
decision, the upload, records, and a `finally` clause. Hard: cancelled at any `await`,
errors everywhere, sessions of one account at once.

**Artifact approval** (`workers/handlers/video/remake_video.py`, `worker_runtime.py` 260-330,
`api/routes/artifacts.py`). A remake registers its file before its own task is recorded as
a success; the publish task passes four guards, each a query of its own. Correct when: what
is uploaded is what the operator has approved, though a render may follow the review.

**Account connection and identity** (`api/routes/accounts.py`, `core/identity_manager.py`,
`core/browser_context.py`, `core/browser_providers.py`). Requests watch a browser for
minutes and write columns and metadata without a lock; each process keeps identities in
memory. Correct when: a block outlives the login that races it, and an account shows one
device.

**Session planning** (`core/session_planner.py`, `lifecycle_manager.py`, `persistence.py`).
State in the process, a snapshot on disk. Correct when: sessions and uploads keep their
distance through concurrent plans and restarts.

**Licences** (`supabase/`, `api/services/license_service.py`, `api/middleware/`). Seats are
counted under an advisory lock; a client trusts its last answer for a grace period. Correct
when: seats are never exceeded and no machine works beyond the grace.

**AI keys** (`core/ai_key_store.py`, `core/ai_router.py`). Candidates, retries, failure
counts and one configuration per process. Correct when: a request with a working candidate
is answered.

**Post queue** (`execution/approval_queue.py`, `scheduler.py`, `orchestrator.py`,
`account_manager.py`). Two SQLite databases without a common transaction, a process that
may die between them. Correct when: nothing rejected is queued and nothing is queued twice
for no reason.

**Engines of decisions** (`core/account_brain.py`, `execution/execution_brain.py`,
`strategy/ceo_brain.py`, `execution/content_lifecycle.py`, `account_warmup.py`,
`portfolio_allocator.py`, `core/angle_engine.py`, `portfolio_memory.py`,
`unified_scoring.py`). Sequential handlers over dictionaries and tables. Hard: a long
sequence of legal calls, restarts, and rulings of an operator between them.

**TikTok data handlers** (`workers/handlers/tiktok/`). Chains of attempts over a page, a
phone and `yt-dlp`, shared with other tasks and without locks. Correct when: the file filed
under a video is that video, and the queries handed on can be searched.

**Fleet, ledgers and simulation** (`core/fleet_coordinator.py`, `stealth_brain.py`,
`mutation_controller.py`, `behavioral_brain.py`, `attribution_engine.py`, `profit_store.py`,
`self_scaling.py`, `swarm_dynamics.py`, `pipeline.py`). No worker and no route calls them;
tests and the offline pipeline do. Correct when: credits match sales, nobody holds more
than the cap, stopped accounts stay stopped.

**Not modelled**: the Facebook and YouTube publishers, the rate limiter, analytics and
trackers, the drivers of offline experiments, the API server with its authentication, the
user interface. `PROJECT.json` and the section "Not modelled" give the reasons.

### How the parts interact

API, scheduler, workers and repair script share nothing but the SQLite file. A worker's
coroutines share its memory, hence its coordinator, the browser pages, the phone and the AI
library's one configuration. The publisher is called by the worker runtime as the handler
of `publish_tiktok` tasks; its outcome (return, retryable error, fatal error, cancellation)
is all the runtime learns, which is why `TaskRuntime` treats a handler as nondeterministic
and `PublishSession` treats the task tables as a counter of tries. The post queue reads the
approval queue; the planner asks the coordinator for its daily counts; `LicenseClient` calls
`LicenseServer`; `FleetSessions` runs `SessionBrains` and `Pipeline` runs `Attribution`,
`Scaling` and `Swarm`: those modules extend or share the state of the ones they call. The
engines of decisions read each other's verdicts through the database only.

## 2. The models

### TaskStore and TaskRuntime

One operator per transaction: `BEGIN IMMEDIATE ... COMMIT` is a step, and each
autocommitted statement is a step of its own, so `mark_task_for_retry` is `RetryTaskRow`
and then `RetryExecutionRow` with anything in between. A status is `"absent"` while the
row does not exist. `parked` holds the tasks whose `next_run_at` lies ahead and `lapsed`
the executions whose lease sorts before now: all that the guards ask of a timestamp.
(`recover_expired_executions` compares ISO texts with `CURRENT_TIMESTAMP`, so that a lease
really sorts as expired only once its UTC date has passed; `LeaseLapses` may happen at any
time and covers both.)

A coroutine of `_run_acquired_task` is a record of `runs` with the snapshot it was
acquired with and a place: `handling`, then the write it is about to do. `AfterHandling`
says which writes payload resolution, guards and handler may lead to; a reference to a
task that is not finished is retryable, to one that failed or vanished fatal. The two
guards on the account and the policy guard are ways of failing like any other here.
`WriteRaises` is a locked database: only `mark_task_success` has an `except` around it,
every other write that raises leaves the coroutine and the task behind. `Crash` removes a
worker's coroutines and nothing else, `RequestStop` and `Drained` are the orderly stop,
`Start` is `scripts/start_backend.py`, which starts workers with nothing in memory.

`Delayed` are the tasks submitted with a `next_run_at` of their own. `MaxAttempts` bounds
the execution rows of a task (an approval wait never spends the budget, so attempts are
unbounded in the code). `Outages`, `DbFaults` and `Recovery`
switch crashes and stops, raising writes, and a caller for `recover_expired_executions`,
which the repository does not have. Payloads, results, priorities beyond their order,
`log_action` (never called, hence the policy guard never counts anything) and the artifact
rows are left out.

`TaskLifecycle` is the abstract specification: a task moves along
`VALID_TASK_TRANSITIONS`, becomes READY or RUNNING only with all parents SUCCESS, spends
budget only by ending an attempt, and is deleted only when nobody runs it. The code looks
the table up when it acquires, completes, fails and resets a task, but neither in the two
retry statements nor in `promote_tasks_to_ready`; that these conform too is a theorem. The refinement
mapping is the identity on `status` and `retries`; executions, leases, parking, workers
and coroutines are hidden.

### AccountRisk, Coordinator and PublishSession

A step of `PublishSession` is what runs between two awaits that matter. A task's coroutine
passes the places `entering` (the account's guards), `placing` (proxy, activity level),
`waiting` or `denied` (the start delay), `started`, `cooldown`, `session` (the three
checks), `warming`, `uploading`, `posted`, `registering`; `counting`, `reading` and
`writing` are the three statements of a `record_*` call; `ending` is the `finally` clause
and `returned` the worker's write. `TimesOut` is the cancellation by `asyncio.timeout`,
after which only `ending` runs. `WorkerDies` empties the coordinator and leaves the tasks
`lost`: RUNNING in the table with nobody to run them.

Timestamps of rolling windows become membership, with an ageing step per window
(`WindowsSlide`); scores are in hundredths; random draws (personality, the wish to skip,
the penalty for skipping twice) are choices. `_account_sessions` and `_recent_starts`,
which only stretch a delay or have no caller in the worker, are left out, and so are the
200-entry cap of the skip history and the proxy health numbers. A call of
`update_account_field`, which `database.py` does not have, is swallowed by its `except`
and changes nothing.

`RowAccount` is `tasks.account_id`. `create_job` fills it from the payload, and then the
check for a running publish task of the account finds the calling task itself
(run `refused`). A job submitted with a task-level `account_id` that differs from its
payload's is the only way past that check, so the runs that are about the rest of the
handler use such rows (`RowElsewhere`), and those that are about what happens before or
because of it use the rows as `create_job` fills them (`RowFromPayload`).

### PublishGate, AccountConnect, Identity, SessionPlanner

`PublishGate`: `file` holds which render lies at a path, `artifact` the row, `gate` how far
the publish task has got; `reviewed` is a history variable. A path carries the last 16 bits
of a random seed (`remake_video.py:208`), so a later run may overwrite an earlier run's file
and inherit its approval; `overwriting` collects these renders, and the property is about
all others. The rate limit of the account is translated but never fills, since `log_action`
has no caller. `AccountConnect`: the row is a record, `request` holds what each coroutine
has read before its awaits; `warned` is a history variable. Four things write the status:
a blocked login, a confirmation, the operator, and the recount of a publication
(`_recalculate_risk`, `database.py:1752`), which writes back in a later statement the status
that it has read. A recount that a block has overtaken undoes the block (the lost update of
run `ban`); `lifted` marks that one case, and the property is about every other way to a
healthy account. `Identity`: `registry` holds the profile of each process, `stored` the one in the account's
metadata, `login` and `session` what an open browser was given; a device stands for the salt
its seed is made with, and `shown` collects the devices that publish sessions have shown.
`SessionPlanner`: time is in ages that stop counting at the longest limit; `real` keeps the
true ages and `forgotten` which of them no file holds. `to_dict` leaves out the date of the
day's counts, so a restore starts them at zero (`Undated`). From the lifecycle gate to
`record_start` nothing is awaited, so `GateAdmits` is one step, and the start delay between
the coordinator's cap and the gate is where concurrent calls interleave.

### LicenseServer and LicenseClient

`activate_license_device` is a transaction of several statements under an advisory lock:
it begins when the lock is free (`ActivationBegins`), counts the seats in the tables it then
sees, and commits or fails later, perhaps after its caller has given up; revocations and
deactivations come in between, and without the lock (mutant `UnlockedAnyway`) a second
activation does too. The client's request passes the cache, the state file, the call (which
may fail, or whose answer may be lost or late) and the write of the file and of the cache. The days since the server's last
confirmation (`age`) are a history variable. Offline answers are `OfflineAnswer`, with the grace
period in days. `Typo` is a key that no license has.

### AiRouter, PostScheduler

`AiRouter`: `line` is the list of candidates a caller has read (keys times models) and
`nth` the one it is at, with the retries and failure counts of the code; the configuration
of the library is one variable of the process, set before a call waits for a thread and
read by the thread. Candidates come in the order of their keys' priority and then of the
failure counts. The calls that were made while another request replaced the configuration
are kept in `astray`, candidate by candidate. The write that marks an answer (a success or
a failure) may raise too: it costs the candidate (`unwritten`), and one that raises inside
the `except` clause of the last attempt (`ai_router.py:280`) ends the whole request, which
is then "broken" and not "failed". `PostScheduler`: a cycle is the places between its
database writes; every write may be lost in a swallowed error, and the process may die
anywhere (`MaxMishaps`). The scheduler's and the orchestrator's own logs of posts are both
kept. `submit` is an `INSERT OR REPLACE` under a hash of account, niche and the time of the
cycle, so it meets no row of its own item: `Submit` asks for none.

### AccountBrain, ContentBrain, CeoBrain, Portfolio, AngleBank, PatternMemory

No handler of these has an `await`, so each is a step. A score that only ranks is a class
(`Ratios`, `Grades`) or a choice; trust, fatigue, gates and rates that a threshold is
applied to are integers in percent or thousandths. What a process forgets at a restart is
an action of its own (`Dumps`, `BrainReloads` and so on). The functions of `PatternMemory`
are read and written by a decision in the order of part 10 of `decide`. `CeoBrain` tells
the saved row from the directive that is handed out (`handed`), whose exploration rate is
lowered further for each rated niche (`ceo_brain.py:363`). `Portfolio`: a warm-up row is
made with the first look at an account, at stage 0; where that write fails the account
passes unchecked (`portfolio_allocator.py:171`, `unchecked` of a plan), and with
`WARMUP_ENABLED=0`, which two routes set for their process (`content_brain.py:145`, `:251`),
everyone passes. `AngleBank`: a read that raises is taken for an empty niche, and a new
batch is written over the rows there are, their uses included (`FillBank`).

### The handlers

`Devices` says what a page or the phone shows and which tasks use it, and which saves the
phone still owes its gallery; `VideoDownload`, `ProductSearch` and `ProductInfo` act on what
is showing, whoever put it there. On the phone, opening, listing the files, tapping Save and
pulling the new file are steps with other tasks, and late saves, between them; a browser
attempt attaches its listener before it opens the video, and may hear what the page showed
before. A download is the chain of attempts of its route, with its error classes; `MediaFiles` holds the files
`video_NN` with their owner and age, and the verdict each attempt draws from them.
`ProductWords` models the text functions by what they do to sequences of words, over words
of the classes the code tells apart (stop word, digit, long, blank).

### SessionBrains, FleetSessions, Attribution, Scaling, Swarm, Pipeline

`SessionBrains` is one pass of risk, fingerprint and intent with the memory that feeds the
next one; `FleetSessions` adds the windows of all accounts. `Attribution` has the flush in
its three statements and a cache for each of two processes; the shares of a sale are whole
numbers that add up to its worth. `Swarm` is `run_darwin_cycle` stage by stage (`Spread`
gives away what is over the cap in at most `CapRounds` rounds and cuts off what still is);
a cluster without a share takes everything, as `get_cluster_resource` answers
(`swarm_dynamics.py:1100`). `Pipeline` is a cycle with a `try` around each stage, of which
any may raise. The risk gate has one too (`pipeline.py:280`), but consists of a dictionary's
`get` and two comparisons of floats, so `RiskAllows` never fails.
Genomes, lineages, embeddings and learnt weights are data: a choice among the outcomes that
the stage's control distinguishes.

## 3. The runs

Deadlock is checked where the system always has a step (workers restart, an absent job may
be submitted); `CHECK_DEADLOCK FALSE` is set where it really may stop (no outages and all
jobs settled; all publish tasks done; all bounds of a cast used up).

| run | checks | shows |
|---|---|---|
| `deployed` | `TypeOK`, `OneRunningExecution`, `RunningHasExecution`, `NeverAheadOfParents`, `DecidesOnThePresent`, `RetriesCountFailures`, `BudgetLeft`, `JobAgreesWithTasks`, `ImplementsLifecycle`, `DesertionIsFinal` | the deployed system with crashes, stops, raising writes, deletion and manual retries keeps all safety properties and implements the lifecycle, and nothing ever takes up what a dead worker leaves |
| `live` | `JobSettles` | without crashes and faults every job ends |
| `recovery` | `FencedCompletion` | were recovery called, late workers would be fenced off |
| `slots` | `TypeOK`, `SlotsReleased`, `NeverOvercounts`, `RecordedUploadsHappened` | sessions of one account that end in every way, by deadline, error or death, leave nothing behind in the coordinator |
| `risk` | `RiskGoverns`, `SessionEnds` | with one session at a time, the status follows the score, and every session ends, whatever the operator does to its account |
| `services` | `RoutedOnMerit`, `RecoveryTrumps`, `PauseHolds`, `SeatsRespected`, `TrustIsBounded`, `ReviewDecides`, `BlockIsRespected`, `DeviceIsStable`, `SuspensionHolds`, `PlanIsSound`, `SessionsSpaced` | the services and the engines of decisions, one cast per behaviour |
| `handlers` | `CreditMatchesSales`, `ExcessLastsACycle`, `StoppedForGood`, `QuietAfterBlock`, `RightVideo`, `QueriesAreSearchable`, `UploadsAreReviewed`, `AnglesRotate`, `SilencedForWeakness`, `WorkingKeyAnswers` | the handlers, the learning engines, the fleet and the simulation, one cast per behaviour |
| `orphans` | `ClearsOrphans` violated | the repair script raises on what it is there to repair |
| `refused` | `RefusedForAnother` violated | a publish task is refused because of itself |
| `softdeny` | `SoftDenyIsSoft` violated | the soft-deny delay is longer than the deadline of the task that sleeps it |
| `caps` | `UploadCaps` violated | an upload over the cap goes ahead when the skip ceiling overrules the throttle |
| `ban` | `BanStands` violated | two sessions that fail together lift an automatic ban |

As deployed nothing calls `recover_expired_executions`, and a crashed worker's task is
RUNNING for ever: that is what `DesertionIsFinal` says. Run `recovery` shows what a caller
would be up against; it assumes nothing about when it calls.

**Casts.** `services` and `handlers` compose components that share no state in one
specification: the variable `cast`, chosen at the start, says who takes part in a
behaviour, and everybody else stays as initialised; some casts also narrow what their
actors do (`VeteranActs`, `ClerkActs` and the like say what is not varied). A run is then the union of the state
graphs of its casts and not their product. Those that share something are in a cast
together: two requests of one machine, of which one asks on its own (`{guard, user}`), two
machines that race for the one seat of a license (`{user, guest}`), a machine with a copied
license file (`{guest}`), a search and an
extraction on one page (`{shopper, solo}`, `{solo, finder}`), a download and an AI caller
(`{solo, scout}`), two AI callers (`{scout, writer}`). `studio`, `pair`, `keeper`,
`reader`, `reviewer`, `analyst`, `oracle`, `veteran`, `marshal`, `clerk`, `poster`,
`breeder` and `director` stand for downloads, files, words, the publish gate, angles,
patterns, an ageing account, the fleet, the attribution ledger, scaling, swarm and pipeline;
`MCHandlers` and `MCServices` list them. The post queue, the planner, the logins and the
identity are the casts `poster`, `planner`, `clerk` and `persona` of `services`, where
`clip` and `allocator` are the two halves of the portfolio, `brain` and `curator` the
content brain without and with its queue, `gates` and `ruler` those of the strategy layer,
and `account` is the account brain. What is narrowed: the planner's operator speaks to the
first process only; of two concurrent logins one is no recount and the other no `PATCH`;
angles are either used for long (with a refill when one of the first two is at the limit)
or learnt of; the directive's third niche is rated only in recovery; the pipeline's second
account never does badly.

**Bounds.** `deployed` and `live` use three tasks of one job (`Fork...`): `b` depends on
`a` and reads its result, `c` reads it without declaring the dependency (accepted by
`create_job`) and outranks both; budgets 2, 1 and 2, so that a first failure is final for
one task and retried for the others; two workers, so that acquisitions and stale writes can
collide; `c` is submitted for a later time; `MaxAttempts` 3, one more than any budget, so
that a wait for approval (`b`) or a manual retry has room. Two tasks of one job are enough for every relation between a
task, a parent and their job; the properties relate no more than that, and the proofs
remove the bound. `recovery` needs one task and two workers: the race is between two
executions of one task. `slots` runs two sessions of one account, the case in which
one session's end can touch another's slot; caps of 1 and one place per proxy make every
limit reachable, and the two, being alike, are a symmetry set. `risk` starts the account with three failures, one short of the limit,
and runs a session up to four times, so that the score crosses both thresholds.

In `services` and `handlers` durations are scaled so that every order of the limits in the
code is kept: a suspension of 2 ticks against rest of 1, a session gap of 1 against a file
that is read for 1 more, upload gaps 2 and 3 against a warm-up of 3, a grace of 1 day. The
angle limits are the code's own (`Soft` 5, `Hard` 10) with one use beyond. `Max...`
constants bound what grows for ever: reports, restarts, edits, decisions, sales;
`FailureCap` ends the count of a key's failures at one, which is all that an order of two
keys can show. A niche's batch is the three angles, of which two are kept; a plan's budget
is 1 or 5 slots for three contents; three niches are one more than the two with which
recovery explores enough. Each bound is large enough for the longest sequence its property speaks of (three losses within a week
and a ruling; two flushes that take one sale; a cluster that is weak, silenced and reborn;
two runs over the files of one directory with a cancellation between them).

**Fairness.** `TaskRuntime!Fairness`: the scheduler and every polling worker are endless
loops; a backoff is a deadline of the wall clock; each coroutine goes on, since its handler
runs under `asyncio.timeout`; a draining worker drains and a stopped one is started again
by the launcher. API requests, crashes, faults and recovery are owed to nobody.
`PublishSession!Fairness`: a session takes
its next step, and the timer of `TASK_TIMEOUT` goes off. The operator, the browser's
choices and the account's reconnection have no fairness.

**Mutants.** Definitions headed by a `Mutant:` comment, each just before the one it stands
in for, are plausible mistakes (a dropped guard, a `<=` for a `<`, a forgotten reset). They
are used by no specification; `PROJECT.json` pairs each with the property that notices it.

### Where code and documentation disagree

The five violated runs are traces of the code as it is; `PROJECT.json` quotes the sentence
each contradicts. What else was met while modelling needs no model checker to be seen and
has no run:

- *Task queue.* Waiting for approval never spends the retry budget, although
  `README.md:123` says it does; `max_per_account` is a parameter that
  `acquire_ready_tasks_batch` does not use; the second fix of the repair script looks for
  RUNNING tasks without a running execution, which `RunningHasExecution` shows not to
  exist; a job that failed stays failed when its tasks are retried and succeed.
- *Publishing.* The skip ceiling is not applied to an empty window; a video whose upload was
  cancelled after the click is posted again by the retry; the counts by activity level are
  scaled down while sessions wait for their start; an artifact is registered before the
  success of its task, so that a crash leaves a verdict without a task.
- *Logins.* `confirm_manual_login` sets `healthy` over `banned`; a `PATCH` writes back the
  whole metadata it read (`accounts.py:85`); the confirmation looks for a key the login does
  not write (`accounts.py:967-988`).
- *Identity.* Metadata comes back as text, so the stored profile is never loaded; a
  regenerated or locked identity lives in the API's memory only.
- *AI keys.* "All configured AI providers failed" is also what two callers hear that
  replaced each other's configuration, and a mark that cannot be written
  (`ai_router.py:280`) ends a request whose next candidate would have answered.
- *Licences.* A status read late is written back over a deactivation
  (`license_service.py:248`).
- *Post queue.* `enqueue` swallows an insert error (`scheduler.py:183`); `cancel_job`
  between the tick's `SELECT` and its `UPDATE` cancels a job that is then published; a
  crash leaves a job `running` for ever.
- *Engines.* Every answer lowers the fatigue it shows; a trust of 0.0 is read as 0.80; the
  operator's intent goes before SAFE mode; `INSERT OR REPLACE` resets approvals of the
  content brain; each read of the directive opens the gates by a step; recovery is
  left only when the operator sets another mode, and with three rated niches hands out .24
  where `ceo_brain.py:762` says that it trumps all; new accounts do not "pass through"
  (`portfolio_allocator.py:165`): the look at them makes their row, at stage 0, and they
  wait; a failing read of the angles writes a new batch over them
  (`angle_engine.py:707`); `_angle_id` cuts hooks at 40 characters,
  so that two angles may be one.
- *Handlers.* A stale `mp4` is preferred to a new one; `browser_download_failed` counts as
  permanent; a cancelled handler leaves `yt-dlp` running; a partial clip stays cached
  (`content_pipeline.py:309-317`).
- *Simulation.* `MAX_RISK_JUMP` limits a call, and the detector is called twice a cycle; an
  account at 0.85 is stopped for ever; decay makes a DEAD content NORMAL again after two
  falls (`self_scaling.py:251-256`, the comment says four); "no single cluster can hold
  >40%" (`swarm_dynamics.py:993`) is not kept in a cycle by the clusters born in it, nor by
  a name of k-means that no cycle has ranked, which is answered 1.0, and ten rounds of
  spreading may not be enough, after which the excess is cut off; soft extinction cannot be
  reached in `swarm_dynamics.py` (10 < 12); sales are credited to an identifier with `:`
  replaced by `_`, and the cost map is keyed by neither; a crash between the upsert of a
  credit and the mark of its sale counts the sale twice. In the fleet only `set_fleet_mode`
  leaves SAFE, which `fleet_coordinator.py:16` calls reversible, and `run_batch` never asks
  for an upload slot.

### Hazards without a property

`PROJECT.json` lists a late `mark_task_for_retry` under recovery (`database.py:608`: no
guard, so the lifecycle is false then) and a second post after a deadline
(`tiktok_publisher.py:691`: nothing records that the video is out). Others that need no
property to be certain, because one step shows them: a waiting task is executed without
bound (`database.py:642`); a cycle of `depends_on` is accepted and waits for ever (`:319`);
a heartbeat reports success when it updated nothing (`:1082`); a publish task left RUNNING
by a crash blocks its account (`:1670`); the account's status is read once before a delay of
minutes (`tiktok_publisher.py:229`); the load of a proxy is read before the delay and
registered after it (`cross_account_coordinator.py:329`).

## 4. The proofs

All proofs are checked by TLAPS for every value of the constants that satisfies the named
assumptions of the modules: any jobs, dependency graphs within a job, budgets, workers,
accounts, proxies, licenses, machines, gaps, vocabularies and concurrent requests. The
assumptions say of what kind a constant is (`StoreAssumption`, `RuntimeAssumption`,
`ProxyAssumption`, `CoordinatorAssumption`, `SessionAssumption`, `SeatsAssumption`,
`ClientAssumption`, `SuspensionNat`, `PostAssumption`, `PortfolioAssumption`,
`LedgerAssumption`, `OursIsALedger`, `RouterAssumption`, `DownloadAssumption`,
`InfoAssumption`, `SearchAssumption`, `SwarmAssumption`), what the code's numbers and tables
satisfy (`RiskAssumption`: an account starts with at most three failures; `PlanAssumption`:
how long the planner's file is read; `Thresholds` of the swarm; `WordsAssumption`: no stop
word is a noun; `CleanIsFinal`: the identifier of a sale is cleaned once and for all), or how
large an instance the model is written for (`FewNiches`). The finiteness of what a behaviour
creates (tasks, accounts, items, nouns) is part of them. Where a theorem needs more it says
so itself, in an `ASSUME` of its own.

**`TaskRuntimeProofs`.** `TypeCorrect` holds with and without recovery. `Safety`:
`Recovery = FALSE => (Spec => []IInv)`. None of the properties is inductive alone.
`DecidesOnThePresent` (a coroutine that still has to decide owns its task's running
execution and knows its retry_count) needs to know that nobody else holds the task
(`OneRunPerTask`) and that a deleted job's tasks are never created again under a live
coroutine (`RunsOfCreatedJobs`, `TasksFollowJob`: a coroutine may outlive a job deleted
between the two statements of its retry). `OneRunPerTask` survives an acquisition because
a task that is READY in the middle of a retry still has its running execution
(`SecondWriteStillOwns`), which the `NOT EXISTS` of the acquisition sees. `BudgetLeft`
needs the decision to have been taken on a current counter (`RetryingLeavesBudget` with
`DecidesOnThePresent`). The conjunction of all of these is `IInv`; there is one lemma per
transaction, one that lifts them to a coroutine's step, and `SafeStep` for `Next`.
`DecisionsAreCurrent`, `DependenciesRespected`, `BudgetKept` and `JobsAgree` are its
readable consequences.

Why `Recovery = FALSE`: with a reaper, a late `mark_task_for_retry` of the old worker
overwrites whatever the new one has written, for it has no guard. `DecidesOnThePresent`
and the lifecycle are then false. That is the one thing to repair before wiring recovery in.

**`TaskRowProofs`.** `NeverTwice`: a task never has two running executions, *with or
without* recovery, by an argument about the acquisition alone. `RowsAlwaysInOrder`, also
with both: a task's rows are numbered without a gap and only the last may be running, which
is what `COUNT(*) + 1` as the next attempt and the fences on `attempt_number` take for
granted. `CompletionIsFenced` follows from it: with recovery, a worker whose lease has
lapsed never ends the task of its successor. `DesertedForGood` (`Recovery = FALSE`): a row
left running by a dead worker stays so, since only the coroutine that began it closes a row,
and a task with a running row is not acquired. `FailuresAreCounted` (`Recovery = FALSE`):
`retries` is the number of failed rows, plus one between the two statements of a retry. Its
invariant (`Counting`) adds to `IInv` that a task which neither waits nor runs has no
running row (`TaskCounts`) and that only a task that publishes waits for an approval
(`WaitersPublish`), which closes a row without a charge; `FailuresCount` says what closing
a row does to the cardinality.
`Refinement` (`Recovery = FALSE`): every step of `TaskRuntime` is, task by task, a step of
`TaskLifecycle` or a stutter (`NextAbides`), given `IInv`.

**`PublishSessionProofs`.** `SlotsAlwaysReleased`, with the invariant that a session past
its placing has an activity level and that an account is active only for such a session.
The interesting steps are the ends: an end may free the slot of another session of the same
account (and does), never leave one behind. `RiskAlwaysGoverns`: run `ban` shows that an
overtaken write lifts a ban, and yet no write leaves an account healthier than the score
written with it. What makes it so is `Agree`, an invariant on notes: the score a session
is about to write and the status it is about to write with it stem from one read. The run
`risk` has one session at a time; the theorem has any number. `SessionTypes`: scores stay
within 0 and 100 although clamped sums write them, counts stay natural through rescaling
and double ends. `CountsNeverLead` (`CountInv`): what a level counts is at most the sessions
placed at it, since a rescaled share never exceeds what it was taken from.
`RecordedUploadsTookPlace` (`UploadInv`): what is recorded of an account, and what its live
sessions still owe the record, is at most what they have posted, summed over the sessions.
That the score is the one of the counters is no theorem: a `record_*` call is three
statements, a fault or a deadline between the first and the last leaves the score behind the
counter, and of two sessions one may write what it has read before the other counted, which
is how run `ban` lifts a ban.

**`LicenseProofs`.** `SeatsNeverExceeded` for the server alone: an open activation holds the
lock of its license, so no other seat is given while it lasts, and what it will insert was
counted against seats that can only have become fewer since (`TxnHolds`, `TxnInv`).
`ClientsImplementServer`:
every step of the clients is a step of `LicenseServer` or leaves the tables alone, so the
seats are kept whatever clients do. `TrustNeverOutlived`: a state file, a call under way
and a cached answer each carry the age of the confirmation they stem from, and age plus
what is left of the grace never exceeds `Grace + 1`; a copied file keeps the sum, an answer
that arrives late has aged by a midnight at most.

**`ServiceProofs`.** Nine properties, each with the strengthening that makes it inductive.
`SuspensionKept`: a mind is suspended for what is left of its soft ban's time, unless a dump
from before the ban has made it forget. `OneDevice`: whatever the API's registry and the
table hold, the worker's profile is one that it has seeded itself. `ReviewedUploads`: an
approved artifact's file is one that the operator has seen, or one that took the path of an
earlier run's, up to the last guard. `RecoveryAlwaysTrumps`: the saved gates of recovery are
integers, since other modes may leave anything there; of the directive, that a
read opens the gates to .30 before each of at most three rated niches may take .02 of it
(`HandedOpenly`). `BlockAlwaysRespected`: a recount that has read "healthy" is one that a block
may still overtake, and the only one that may undo it (`lifted`). `SessionsKeepDistance`: the
file is as old as what it holds (`FileAges`), and after a file too old to be read the
process's ignorance of an upload is covered by the warm-up it starts again (`UploadKnown`);
it needs the file to be read for at least a gap and, with the warm-up, for an upload gap,
which the code's numbers satisfy (`PlanAssumption`). `ReviewAlwaysDecides` (`QueueInv`):
every row beyond the first of an item is paid for by a mishap of its own (`Paid`), and what
the cycle has in hand was approved (`BatchIsApproved`). `PausesLast` (`PauseInv`): the table
of overrides is keyed by target and kind, so a pause survives the rows that grades and
reports write; hypothesis `PauseFacts`: times are integers, and no account bears the name of
a niche (the key has one column for both). `PlansAreSound` (`WarmInv`): an account has been
known for as long as its stage and the days in it say, whatever resets it, and with no row
only where the plan says that it could not check; `ChosenIsSound`
says where each slot comes from and `SharesAddUp` that the shares never exceed the budget.

**`HandlerProofs`.** `StopsAreForGood` (`StopInv`): whoever is at the hard stop is turned
away by the gate, and only those in hand are rated. `ResourcesStayCapped` and
`SilenceIsEarned` (`SwarmInv`): however the rounds of spreading end, a cluster that is above
the cap or has no entry at the end of a cycle was born in it, or stands alone among those
that were not; a cluster is silenced after its streak only. `VideosAreFiledRight` (`ShotInv`): up
to the moment it is filed a file shows what its session asked for, unless the session was
crossed (by another task, by an earlier save that was still under way when it listed the
files, or by what the page showed when the listener was attached); alone at the phone, its
own save is the only one that can land. Hypothesis: a download is neither a search nor an AI
caller. `BlocksSilenceUploads` (`QuietInv`): the block stays among the remembered outcomes
while it counts, hence a history of three at least. `OveruseMeansNoneIsFresh` (`RotateInv`,
with `Ceiling`: what an angle scores after its penalties; only a use raises the count of
uses, and a refill starts it anew at a raw score), and `AnglesRotateInCode`, that the
code's limits (5 and 10 uses) and range of scores satisfy its condition.
`CreditFollowsSales` (`CreditInv`): what the flushes hold is worth the sales they took up,
credit and what was lost to a refused write cover what is marked and what is written, and
flushes hold different sales until one is taken up twice (`again`), be it by two processes
or after a death between the upsert and the mark. `WorkingKeysAnswer` (`RouterInv`,
`AtCandidate`, `Accounted`): every candidate before the one a request is at is accounted
for: it fails by itself, its answer could not be recorded, or every attempt at it was made
under another request's configuration. `QueriesCanBeSearched`: a list stays
`Searchable` under every query that is added, so it does not matter who proposes what, and a
product without one is never "done".

**`ContentBrain`** proves `RoutesAreEarned` beside the model (`MeritInv`: what is kept of a
content never says more than its outcomes proved).

**`FiniteFolds`** holds what these proofs need of finite sets: sums and folds are recursive
functions given by `CHOOSE`, and the lemmas show that they exist, where their values lie and
what changing a term does. The inductions are over the subsets of a finite set, by a least
counterexample. `PlacesInOrder` says that the places of a finite set of integers can be
numbered in their order, which is what a filter of a sequence is built on: `SelectSeq` has
no definition the prover can use, so `Portfolio` and `ProductWords` write a list
comprehension as `Sifted`.

**Only model-checked.** Liveness (`JobSettles`, `SessionEnds`), which is
out of TLAPS's reach, and the five violated runs, which are traces.

## 5. Plan

Order: what can lose or duplicate work first, what guards accounts second, what only
ranks or decorates last.

1. *Done*: the task runtime with its lifecycle and proofs; the repair script; account
   risk, coordinator and publishing session; licences, approvals, logins, identities and
   planning; the engines of decisions, the handlers, the fleet and the simulation; the
   proofs of section 4.
2. *Next proofs*: every safety property of the runs is proved. What is left are statements
   the runs do not have yet: an abstract specification of the post queue and of the ledger
   of sales with their refinements, and the pairs of files and their owners of `MediaFiles`.
3. *Next models*: `strategy_engine.py` and `content_engine.py`, the administrative routes
   of the licence service, the health of proxies.

### Not modelled

The Facebook and YouTube publishers raise. The rate limiter is a window of requests that no
route uses. Analytics, trackers and most `GET` routes only read. The API server's
authentication and push messages hold no state that tasks depend on. Drivers of offline
experiments only draw numbers. The user interface is a client of the API.

Inside modelled components: scores, noise, delays and durations where no guard reads them;
`ffmpeg` filters, selectors and page scripts; genomes, lineages and the capital of a niche;
the optimizer and the learners, which are marks that say whether they ran; the budgets of
the scaling engine, which keep no state; `generate_comment`; `strategy_engine.py`,
`content_engine.py`, `content_decision.py` and `global_memory.py`, which rank; liveness of
the licence client, whose requests the user starts; collisions of seeds and hashes, since
profiles and angles are compared by what they are derived from; of the rivals of a cluster
that only two count; that the insert of a click may be refused. `SessionPlanner`, the fleet
library, the pipeline, the swarm and the scaling engine are called by no worker: they are
modelled as they would run, and say nothing of the deployed queue.
