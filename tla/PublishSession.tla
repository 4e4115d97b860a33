--------------------------- MODULE PublishSession ---------------------------
(***************************************************************************)
(* publish_tiktok_handler (workers/handlers/publish/tiktok_publisher.py)   *)
(* in the coroutines of one worker process: every publish task is a        *)
(* coroutine that reads and writes its account's row (AccountRisk) and the *)
(* process's coordinator (Coordinator) between awaits.  A step is what     *)
(* runs from one await that matters to the next.                           *)
(***************************************************************************)
EXTENDS Coordinator, Functions

CONSTANTS
  Tasks,         \* publish tasks
  AccountOf,     \* the account_id of their payload
  RowAccount,    \* tasks.account_id of their row
  MaxTries,      \* tasks.max_retries
  Operator,      \* whether an operator edits accounts meanwhile
  Faults,        \* whether statements raise, and the worker dies
  Timeouts,      \* whether TASK_TIMEOUT strikes during a session's work
  DenialFits     \* whether a soft-denied start delay ends before TASK_TIMEOUT

ASSUME SessionAssumption ==
  /\ IsFiniteSet(Tasks) /\ IsFiniteSet(Accounts)
  /\ AccountOf \in [Tasks -> Accounts]
  /\ MaxTries \in Nat \ {0}
  /\ Operator \in BOOLEAN /\ Faults \in BOOLEAN
  /\ Timeouts \in BOOLEAN /\ DenialFits \in BOOLEAN

VARIABLES
  at,      \* where a task's coroutine stands
  tries,   \* how often the task has been executed
  level,   \* the activity level its session was given, or "none"
  mark,    \* the record_* call in progress
  note,    \* what that call has read
  again,   \* tasks whose session ended in a retryable error
  posts    \* how often TikTok got a task's video

sessionVars == <<at, tries, level, mark, note, again, posts>>
vars == <<riskVars, coordVars, sessionVars>>

\* Places before the handler is over, in the order it passes them.
Recording == {"counting", "reading", "writing"}
Working == {"entering", "placing", "waiting", "denied", "started", "cooldown",
            "session", "warming", "uploading", "posted", "registering"} \cup Recording
Busy == Working \cup {"ending", "returned", "lost"}

Nothing == [score |-> 0, standing |-> "healthy"]

Acct(t) == AccountOf[t]
Goes(t, place) == at' = [at EXCEPT ![t] = place]

Init ==
  /\ RiskInit /\ CoordInit
  /\ at = [t \in Tasks |-> "idle"]
  /\ tries = [t \in Tasks |-> 0]
  /\ level = [t \in Tasks |-> "none"]
  /\ mark = [t \in Tasks |-> "failure"]
  /\ note = [t \in Tasks |-> Nothing]
  /\ again = {}
  /\ posts = [t \in Tasks |-> 0]

-----------------------------------------------------------------------------
(* Failing and recording                                                   *)

\* A dependency error, retryable or fatal: record_publish_failure is next.
Fails(t, retryable) ==
  /\ Goes(t, "counting")
  /\ mark' = [mark EXCEPT ![t] = "failure"]
  /\ again' = IF retryable THEN again \cup {t} ELSE again \ {t}

Records(t, m) ==
  /\ Goes(t, "counting")
  /\ mark' = [mark EXCEPT ![t] = m]
  /\ UNCHANGED again

\* The handler's own call failed.  That of record_publish_failure is
\* swallowed; any other error is a retryable one of the session.
RecordRaises(t) ==
  /\ Faults
  /\ at[t] \in Recording
  /\ IF mark[t] = "failure" THEN Goes(t, "ending") /\ UNCHANGED <<mark, again>>
                            ELSE Fails(t, TRUE)
  /\ UNCHANGED <<riskVars, coordVars, tries, level, note, posts>>

Count(t) ==
  /\ at[t] = "counting"
  /\ CountMark(Acct(t), mark[t])
  /\ Goes(t, "reading")
  /\ UNCHANGED <<coordVars, tries, level, mark, note, again, posts>>

Read(t) ==
  /\ at[t] = "reading"
  /\ note' = [note EXCEPT ![t] = Recalculated(Acct(t))]
  /\ Goes(t, "writing")
  /\ UNCHANGED <<riskVars, coordVars, tries, level, mark, again, posts>>

Write(t) ==
  /\ at[t] = "writing"
  /\ WriteBack(Acct(t), note[t])
  /\ CASE mark[t] = "failure" -> Goes(t, "ending") /\ UNCHANGED <<mark, again>>
       [] mark[t] = "success" -> Goes(t, "registering") /\ UNCHANGED <<mark, again>>
       [] OTHER               -> Fails(t, FALSE)
  /\ note' = [note EXCEPT ![t] = Nothing]
  /\ UNCHANGED <<coordVars, tries, level, posts>>

-----------------------------------------------------------------------------
(* The session                                                             *)

\* The worker's guards on the account, before it calls the handler.
Begin(t) ==
  /\ at[t] = "idle" /\ tries[t] < MaxTries
  /\ tries' = [tries EXCEPT ![t] = @ + 1]
  /\ CASE standing[Acct(t)] = "banned"  -> Goes(t, "done")
       [] standing[Acct(t)] = "limited" -> UNCHANGED at
       [] OTHER                         -> Goes(t, "entering")
  /\ UNCHANGED <<riskVars, coordVars, level, mark, note, again, posts>>

\* Mutant: waits until the account is healthy.
EnterWhenHealthy(t) ==
  /\ at[t] = "entering"
  /\ standing[Acct(t)] \notin {"banned", "limited"} /\ Acct(t) \notin softBan
  /\ Goes(t, "placing")
  /\ UNCHANGED <<riskVars, coordVars, tries, level, mark, note, again, posts>>

\* get_account, and the handler's guards on what it returned.
Enter(t) ==
  /\ at[t] = "entering"
  /\ IF standing[Acct(t)] \in {"banned", "limited"} \/ Acct(t) \in softBan
     THEN Fails(t, standing[Acct(t)] # "banned")
     ELSE Goes(t, "placing") /\ UNCHANGED <<mark, again>>
  /\ UNCHANGED <<riskVars, coordVars, tries, level, note, posts>>

\* No proxy, or none that answers.
ProxyFails(t) ==
  /\ at[t] = "placing"
  /\ Fails(t, TRUE)
  /\ UNCHANGED <<riskVars, coordVars, tries, level, note, posts>>

\* adjust_personality and get_start_delay; a slow proxy aborts in between.
PlaceSession(t) ==
  /\ at[t] = "placing"
  /\ \E personality \in Activity : \E l \in Adjusted(personality) :
       /\ Place(l)
       /\ level' = [level EXCEPT ![t] = l]
  /\ \/ /\ Goes(t, IF Overloaded(ProxyOf[Acct(t)]) THEN "denied" ELSE "waiting")
        /\ UNCHANGED <<mark, again>>
     \/ Fails(t, TRUE)
  /\ UNCHANGED <<riskVars, tries, note, posts>>

\* The start delay is over.
StartJob(t) ==
  /\ at[t] = "waiting" \/ (at[t] = "denied" /\ DenialFits)
  /\ RegisterStart(Acct(t), ProxyOf[Acct(t)])
  /\ Goes(t, "started")
  /\ UNCHANGED <<riskVars, tries, level, mark, note, again, posts>>

\* has_running_task_for_account: a RUNNING publish task with the account in
\* its row, the caller's own included.
RunningFor(x) == \E u \in Tasks : RowAccount[u] = x /\ at[u] \in Busy

CheckParallel(t) ==
  /\ at[t] = "started"
  /\ IF RunningFor(Acct(t)) THEN Fails(t, TRUE)
                            ELSE Goes(t, "cooldown") /\ UNCHANGED <<mark, again>>
  /\ UNCHANGED <<riskVars, coordVars, tries, level, note, posts>>

CheckCooldown(t) ==
  /\ at[t] = "cooldown"
  /\ IF Acct(t) \in cooling THEN Fails(t, TRUE)
                            ELSE Goes(t, "session") /\ UNCHANGED <<mark, again>>
  /\ UNCHANGED <<riskVars, coordVars, tries, level, note, posts>>

CheckSession(t) ==
  /\ at[t] = "session"
  /\ IF Acct(t) \notin connected THEN Fails(t, FALSE)
                                 ELSE Goes(t, "warming") /\ UNCHANGED <<mark, again>>
  /\ UNCHANGED <<riskVars, coordVars, tries, level, note, posts>>

\* A read of the database raises: any such error is a retryable one.
ReadRaises(t) ==
  /\ Faults
  /\ at[t] \in {"entering", "started", "cooldown", "session"}
  /\ Fails(t, TRUE)
  /\ UNCHANGED <<riskVars, coordVars, tries, level, note, posts>>

\* The browser shows a login page or a captcha, or the page fails.
BrowserFails(t) ==
  /\ at[t] \in {"warming", "uploading"}
  /\ Records(t, "redirect") \/ Records(t, "captcha") \/ Fails(t, TRUE)
  /\ UNCHANGED <<riskVars, coordVars, tries, level, note, posts>>

\* An AdsPower profile that is not logged in.
LoggedOut(t) ==
  /\ at[t] = "warming"
  /\ Disconnect(Acct(t))
  /\ Fails(t, FALSE)
  /\ UNCHANGED <<coordVars, tries, level, note, posts>>

\* should_skip_upload wishes, the upload throttle may turn the wish into a
\* skip, and should_allow_skip rules.
Decide(t) ==
  /\ at[t] = "warming"
  /\ \E wish \in {"skip", "proceed"} :
       LET local == IF CanUploadNow(Acct(t)) THEN wish ELSE "skip" IN
       \E ruling \in SkipRulings(Acct(t), local) :
         /\ RecordSkip(Acct(t), ruling)
         /\ Goes(t, IF ruling = "skip" THEN "ending" ELSE "uploading")
  /\ again' = again \ {t}
  /\ UNCHANGED <<riskVars, tries, level, mark, note, posts>>

\* The click on publish.
Post(t) ==
  /\ at[t] = "uploading"
  /\ posts' = [posts EXCEPT ![t] = @ + 1]
  /\ Goes(t, "posted")
  /\ UNCHANGED <<riskVars, coordVars, tries, level, mark, note, again>>

Confirm(t) ==
  /\ at[t] = "posted"
  /\ Records(t, "success") \/ Fails(t, TRUE)
  /\ UNCHANGED <<riskVars, coordVars, tries, level, note, posts>>

\* The handler is over, and its local variables with it.
Leaves(t) ==
  /\ Goes(t, "returned")
  /\ level' = [level EXCEPT ![t] = "none"]
  /\ mark' = [mark EXCEPT ![t] = "failure"]
  /\ note' = [note EXCEPT ![t] = Nothing]

\* register_job_end for the upload and, in the finally clause, once more.
Register(t) ==
  /\ at[t] = "registering"
  /\ RegisterEnds(Acct(t), ProxyOf[Acct(t)], level[t], 1, 2)
  /\ Leaves(t)
  /\ again' = again \ {t}
  /\ UNCHANGED <<riskVars, tries, posts>>

\* The finally clause of every other way out.  A session that was never
\* placed has no engine, and the call raises before it is made.
End(t) ==
  /\ at[t] = "ending"
  /\ IF level[t] = "none" THEN UNCHANGED coordVars
     ELSE RegisterEnds(Acct(t), ProxyOf[Acct(t)], level[t], 0, 1)
  /\ Leaves(t)
  /\ UNCHANGED <<riskVars, tries, again, posts>>

\* The worker writes the outcome; a retry is executed again.
Finish(t) ==
  /\ at[t] = "returned"
  /\ Goes(t, IF t \in again /\ tries[t] < MaxTries THEN "idle" ELSE "done")
  /\ UNCHANGED <<riskVars, coordVars, tries, level, mark, note, again, posts>>

\* asyncio.timeout cancels the handler at an await: only the finally clause
\* still runs, and the task is retried.
TimesOut(t) ==
  /\ \/ Timeouts /\ at[t] \in Working
     \/ at[t] = "denied" /\ ~DenialFits
  /\ Goes(t, "ending")
  /\ again' = again \cup {t}
  /\ UNCHANGED <<riskVars, coordVars, tries, level, mark, note, posts>>

-----------------------------------------------------------------------------
(* Around the sessions                                                     *)

\* The process dies and starts again with an empty coordinator; the tasks
\* it was executing stay RUNNING.
WorkerDies ==
  /\ Faults
  /\ CoordReset
  /\ at' = [t \in Tasks |-> IF at[t] \in Busy THEN "lost" ELSE at[t]]
  /\ level' = [t \in Tasks |-> "none"]
  /\ mark' = [t \in Tasks |-> "failure"]
  /\ note' = [t \in Tasks |-> Nothing]
  /\ UNCHANGED <<riskVars, tries, again, posts>>

OperatorActs(x) ==
  /\ Operator
  /\ \/ \E s \in Standings : SetStanding(x, s)
     \/ MarkSoftBan(x)
     \/ ClearSoftBan(x)
  /\ UNCHANGED <<coordVars, sessionVars>>

Reconnects(x) == x \notin connected /\ Reconnect(x) /\ UNCHANGED <<coordVars, sessionVars>>

CooldownPasses(x) == CooldownEnds(x) /\ UNCHANGED <<coordVars, sessionVars>>

WindowsSlide ==
  /\ BurstSlides \/ HourSlides \/ SkipWindowSlides \/ Midnight
  /\ UNCHANGED <<riskVars, sessionVars>>

SessionStep(t) ==
  \/ Begin(t) \/ Enter(t) \/ ProxyFails(t) \/ PlaceSession(t) \/ StartJob(t)
  \/ CheckParallel(t) \/ CheckCooldown(t) \/ CheckSession(t)
  \/ BrowserFails(t) \/ LoggedOut(t) \/ Decide(t) \/ Post(t) \/ Confirm(t)
  \/ Count(t) \/ Read(t) \/ Write(t) \/ Register(t) \/ End(t) \/ Finish(t)

Next ==
  \/ \E t \in Tasks : SessionStep(t) \/ TimesOut(t) \/ ReadRaises(t) \/ RecordRaises(t)
  \/ \E x \in Accounts : OperatorActs(x) \/ Reconnects(x) \/ CooldownPasses(x)
  \/ WindowsSlide
  \/ WorkerDies

Spec == Init /\ [][Next]_vars

\* A session goes on, and the timer of TASK_TIMEOUT goes off.
Fairness == \A t \in Tasks : WF_vars(SessionStep(t)) /\ WF_vars(TimesOut(t))

FairSpec == Spec /\ Fairness

-----------------------------------------------------------------------------
(* Properties                                                              *)

TypeOK ==
  /\ standing \in [Accounts -> Standings]
  /\ softBan \subseteq Accounts /\ connected \subseteq Accounts
  /\ cooling \subseteq Accounts
  /\ counter \in [Accounts -> [failed : Nat, captchas : Nat, redirects : Nat]]
  /\ score \in [Accounts -> 0 .. 100]
  /\ active \subseteq Accounts
  /\ onProxy \in [Proxies -> SUBSET Accounts]
  /\ levels \in [Activity -> Nat]
  /\ burst \in Nat /\ hour \in Nat
  /\ today \in [Accounts -> Nat]
  /\ decisions \in Seq(BOOLEAN)
  /\ skippedLast \subseteq Accounts
  /\ at \in [Tasks -> Busy \cup {"idle", "done"}]
  /\ tries \in [Tasks -> 0 .. MaxTries]
  /\ level \in [Tasks -> Activity \cup {"none"}]
  /\ mark \in [Tasks -> Marks]
  /\ note \in [Tasks -> [score : 0 .. 100, standing : Standings]]
  /\ again \subseteq Tasks
  /\ posts \in [Tasks -> Nat]

\* Whichever way sessions end (an upload, a skip, an error at any point, a
\* cancellation in the start delay), no account keeps its slot in the
\* coordinator: _active_jobs and _proxy_accounts name only accounts with a
\* session that is placed and not over, and they name the same ones.
SlotsReleased ==
  /\ \A x \in active : \E t \in Tasks : Acct(t) = x /\ level[t] # "none"
  /\ \A p \in Proxies : onProxy[p] = {x \in active : ProxyOf[x] = p}

\* _activity_counts never counts a session that is over, in spite of crashed
\* starts, double ends and rescaling: drift upwards, which the self-healing
\* of adjust_personality is there to repair, never happens.
NeverOvercounts ==
  \A l \in Activity : levels[l] <= Cardinality({t \in Tasks : level[t] = l})

\* The coordinator records no upload that did not happen, though a session
\* that uploaded ends its job twice.
PostsOf(x) == FoldFunctionOnSet(+, 0, posts, {t \in Tasks : Acct(t) = x})
RecordedUploadsHappened ==
  /\ \A x \in Accounts : today[x] <= PostsOf(x)
  /\ burst <= hour /\ hour <= FoldFunction(+, 0, posts)

\* A risky account is never left healthy, and one at the ban threshold is
\* banned, however successes and failures follow each other; only the operator
\* makes exceptions.
Governed(x) ==
  /\ score[x] >= AutoPause => standing[x] # "healthy"
  /\ score[x] >= AutoBan => standing[x] = "banned"
RiskGoverns ==
  [][\A x \in Accounts : Governed(x) /\ ~OperatorActs(x) => Governed(x)']_vars

\* Every session comes to an end, its finally clause and the worker's write
\* of the outcome included, whatever an operator does to the account meanwhile.
SessionEnds == \A t \in Tasks : at[t] \in Working ~> at[t] \in {"idle", "done"}

\* A session that get_start_delay soft-denies because its proxy is busy waits
\* longer and then starts ("how many seconds this job should wait before
\* starting", "not a hard block").
SoftDenyIsSoft == \A t \in Tasks : at[t] = "denied" ~> at[t] = "started"

\* A publish task is turned away for a running publish task of its account
\* only when there is another one.
RefusedForAnother ==
  [][\A t \in Tasks : CheckParallel(t) /\ at'[t] = "counting" =>
       \E u \in Tasks \ {t} : RowAccount[u] = Acct(t) /\ at[u] \in Busy]_vars

\* The three caps that can_upload_now says it enforces.
UploadCaps == burst <= BurstCap /\ hour <= HourCap /\ \A x \in Accounts : today[x] <= AccountCap

\* Only the operator lifts a ban.
BanStands ==
  [][\A x \in Accounts :
       standing[x] = "banned" /\ standing'[x] # "banned" => OperatorActs(x)]_vars
=============================================================================
