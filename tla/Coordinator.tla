---------------------------- MODULE Coordinator ----------------------------
(***************************************************************************)
(* CrossAccountCoordinator (core/cross_account_coordinator.py): what one   *)
(* worker process remembers of the publishing sessions of all the accounts *)
(* of the table.  Every method runs without a suspension, so each operator is  *)
(* the whole effect of one call.  Timestamps are abstracted to membership  *)
(* of the rolling windows: an entry leaves a window in an ageing step.     *)
(***************************************************************************)
EXTENDS AccountRisk, Sequences, FiniteSets

CONSTANTS
  MaxPerProxy,  \* _MAX_ACCOUNTS_PER_PROXY
  BurstCap,     \* _UPLOAD_MAX_IN_WINDOW, in ten minutes
  HourCap       \* _UPLOAD_MAX_PER_HOUR

ASSUME CoordinatorAssumption ==
  /\ MaxPerProxy \in Nat \ {0} /\ BurstCap \in Nat \ {0} /\ HourCap \in Nat \ {0}

Activity == {"low", "medium", "high"}
AccountCap == 1      \* _MAX_UPLOADS_PER_ACCOUNT_PER_DAY
SkipCeiling == 15    \* _SKIP_RATE_CEILING, in hundredths

VARIABLES
  active,       \* accounts with an entry in _active_jobs
  onProxy,      \* _proxy_accounts
  levels,       \* _activity_counts
  burst,        \* uploads of the last ten minutes in _upload_history
  hour,         \* those of the last hour
  today,        \* _account_uploads
  decisions,    \* _skip_history of the last half hour, oldest first: skipped or not
  skippedLast   \* accounts whose _last_skip is True

coordVars == <<active, onProxy, levels, burst, hour, today, decisions, skippedLast>>

CoordInit ==
  /\ active = {}
  /\ onProxy = [p \in Proxies |-> {}]
  /\ levels = [l \in Activity |-> 0]
  /\ burst = 0 /\ hour = 0
  /\ today = [x \in Accounts |-> 0]
  /\ decisions = <<>>
  /\ skippedLast = {}

\* The coordinator of a process that starts: there is nothing on disk.
CoordReset ==
  /\ active' = {}
  /\ onProxy' = [p \in Proxies |-> {}]
  /\ levels' = [l \in Activity |-> 0]
  /\ burst' = 0 /\ hour' = 0
  /\ today' = [x \in Accounts |-> 0]
  /\ decisions' = <<>>
  /\ skippedLast' = {}

-----------------------------------------------------------------------------
(* adjust_personality                                                      *)

Total(lv) == lv["low"] + lv["medium"] + lv["high"]

\* round(n * part / whole) of Python: halves go to the even neighbour.
Share(n, part, whole) ==
  LET quotient == (n * part) \div whole
      twice == 2 * ((n * part) % whole)
  IN  IF twice > whole \/ (twice = whole /\ quotient % 2 = 1) THEN quotient + 1 ELSE quotient

\* _recompute_activity_counts: scaled down to the number of active jobs.
Healed ==
  LET jobs == Cardinality(active)
      scaled == [l \in Activity |-> Share(levels[l], jobs, Total(levels))]
      excess == Total(scaled) - jobs
  IN  IF Total(levels) <= jobs THEN levels
      ELSE IF excess <= 0 THEN scaled
      ELSE [scaled EXCEPT !["medium"] = IF @ > excess THEN @ - excess ELSE 0]

\* The levels a session of this personality may be given.
Adjusted(personality) ==
  LET n == Total(Healed)
      calmed == IF personality = "high" /\ 100 * Healed["high"] > 30 * n
                THEN "medium" ELSE personality
  IN  IF n = 0 THEN {personality}
      ELSE {calmed} \cup (IF calmed # "low" /\ 100 * Healed["low"] < 30 * n
                          THEN {"low"} ELSE {})

Place(level) ==
  /\ levels' = [Healed EXCEPT ![level] = @ + 1]
  /\ UNCHANGED <<active, onProxy, burst, hour, today, decisions, skippedLast>>

-----------------------------------------------------------------------------
(* Jobs                                                                    *)

\* get_start_delay returns its soft-deny delay.
Overloaded(p) == p # NoProxy /\ Cardinality(onProxy[p]) >= MaxPerProxy

RegisterStart(x, p) ==
  /\ active' = active \cup {x}
  /\ onProxy' = [onProxy EXCEPT ![p] = @ \cup {x}]
  /\ UNCHANGED <<levels, burst, hour, today, decisions, skippedLast>>

\* Mutant: leaves the account on its proxy.
FreesSlotOfJob(x, p) == active' = active \ {x} /\ UNCHANGED onProxy

\* The parts of register_job_end: the slot, the activity level, the upload.
FreesSlot(x, p) ==
  /\ active' = active \ {x}
  /\ onProxy' = [onProxy EXCEPT ![p] = @ \ {x}]

\* Mutant: the level stays counted.
CountsNoneDown(l, times) == UNCHANGED levels

CountsDown(l, times) ==
  levels' = [levels EXCEPT ![l] = IF @ > times THEN @ - times ELSE 0]

\* Mutant: every end counts as an upload.
CountsEveryEnd(x, uploads) ==
  /\ burst' = burst + 1
  /\ hour' = hour + 1
  /\ today' = [today EXCEPT ![x] = @ + 1]

CountsUploads(x, uploads) ==
  /\ burst' = burst + uploads
  /\ hour' = hour + uploads
  /\ today' = [today EXCEPT ![x] = @ + uploads]

\* register_job_end, called so many times in a row for one session.
RegisterEnds(x, p, l, uploads, times) ==
  /\ FreesSlot(x, p)
  /\ CountsDown(l, times)
  /\ CountsUploads(x, uploads)
  /\ UNCHANGED <<decisions, skippedLast>>

-----------------------------------------------------------------------------
(* Uploads and skips                                                       *)

CanUploadNow(x) == burst < BurstCap /\ hour < HourCap /\ today[x] < AccountCap

Skips(d) == Cardinality({i \in DOMAIN d : d[i]})

OverCeiling(d) == 100 * Skips(d) > SkipCeiling * Len(d)

\* should_allow_skip: the rulings it may give.  Whether the penalty for
\* skipping twice in a row denies the skip is drawn at random.
SkipRulings(x, wish) ==
  IF wish = "proceed" \/ (decisions # <<>> /\ OverCeiling(Append(decisions, TRUE)))
  THEN {"proceed"}
  ELSE {"skip"} \cup (IF x \in skippedLast THEN {"proceed"} ELSE {})

RecordSkip(x, ruling) ==
  /\ decisions' = Append(decisions, ruling = "skip")
  /\ skippedLast' = IF ruling = "skip" THEN skippedLast \cup {x} ELSE skippedLast \ {x}
  /\ UNCHANGED <<active, onProxy, levels, burst, hour, today>>

-----------------------------------------------------------------------------
(* Time: the windows slide, and UTC midnight passes                        *)

BurstSlides ==
  /\ burst > 0
  /\ burst' = burst - 1
  /\ UNCHANGED <<active, onProxy, levels, hour, today, decisions, skippedLast>>

HourSlides ==
  /\ hour > burst
  /\ hour' = hour - 1
  /\ UNCHANGED <<active, onProxy, levels, burst, today, decisions, skippedLast>>

SkipWindowSlides ==
  /\ decisions # <<>>
  /\ decisions' = Tail(decisions)
  /\ UNCHANGED <<active, onProxy, levels, burst, hour, today, skippedLast>>

Midnight ==
  /\ \E x \in Accounts : today[x] > 0
  /\ today' = [x \in Accounts |-> 0]
  /\ UNCHANGED <<active, onProxy, levels, burst, hour, decisions, skippedLast>>
=============================================================================
