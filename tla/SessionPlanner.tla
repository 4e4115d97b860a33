--------------------------- MODULE SessionPlanner ---------------------------
(***************************************************************************)
(* When one account may hold a session, and whether it may upload in it    *)
(* (core/session_planner.py over lifecycle_manager.py, account_brain.py,   *)
(* the daily counters of cross_account_coordinator.py and persistence.py). *)
(* The state lives in the process; a snapshot is written when a session    *)
(* ends and read when the process starts.  Timestamps are ages in ticks,   *)
(* counted up to the longest limit: "never" is as good as that.            *)
(***************************************************************************)
EXTENDS Integers

CONSTANTS
  Plans,         \* concurrent calls of plan_session for the account
  Gap,           \* _MIN_SESSION_GAP_HOURS
  Day,           \* ticks from midnight to midnight
  UploadGap,     \* _PHASE_MIN_UPLOAD_GAP_DAYS, of the phases that upload
  WarmUp, RampUp,    \* _WARM_UP_DAYS, _RAMP_UP_DAYS
  Cooldown, Severe,  \* _COOLDOWN_DURATION_HOURS, _COOLDOWN_SEVERE_HOURS
  StaleAfter,    \* restore_state ignores an older file
  Orders,        \* the intents the operator forces
  MaxStops       \* bound: deaths of the process

\* 4 hours against 25, 1 and 3 days against 25 hours and 7 days.
ASSUME PlanAssumption ==
  /\ {Gap, WarmUp, RampUp, StaleAfter} \subseteq Nat
  /\ UploadGap \in [{"RAMP_UP", "NORMAL"} -> Nat] /\ UploadGap["NORMAL"] <= UploadGap["RAMP_UP"]
  /\ Gap <= StaleAfter + 1 /\ UploadGap["RAMP_UP"] <= StaleAfter + 1 + WarmUp

VARIABLES
  life,          \* AccountLifecycleState
  brain,         \* AccountState.intent_override
  daily,         \* the coordinator's sessions and uploads of the day
  disk,          \* runtime_state.json: the three, and the age of the file
  plan,          \* where each call is
  running,       \* whether the process runs
  hour,          \* ticks since midnight
  real,          \* ages of the account's last session and last upload
  forgotten,     \* what of it the process has no record of
  stops

planVars == <<life, brain, daily, disk, plan, running, hour, real, forgotten, stops>>

Intents == {"UPLOAD", "BROWSE"}   \* IDLE is counted and spaced like BROWSE
SessionCap == [WARM_UP |-> 1, RAMP_UP |-> 2, NORMAL |-> 3, COOLDOWN |-> 1]
UploadCap == [WARM_UP |-> 0, RAMP_UP |-> 1, NORMAL |-> 1, COOLDOWN |-> 0]
DailySessions == 3    \* _MAX_SESSIONS_PER_ACCOUNT_PER_DAY
DailyUploads == 1     \* _MAX_UPLOADS_PER_ACCOUNT_PER_DAY
AnomalyThreshold == 2 \* _COOLDOWN_ANOMALY_THRESHOLD

LongAgo == UploadGap["RAMP_UP"]
Unregistered == -1

\* The state _get creates for an account it does not know.
Unknown == [age |-> Unregistered, sessions |-> 0, uploads |-> 0,
            session |-> Gap, upload |-> LongAgo, cooldown |-> 0, anomalies |-> 0]
NewBrain == "none"
NoCounts == [sessions |-> 0, uploads |-> 0]
NoSnapshot == [age |-> StaleAfter + 1, life |-> Unknown, brain |-> NewBrain, daily |-> NoCounts]

Phase(l) ==
  IF l.cooldown > 0 THEN "COOLDOWN"
  ELSE IF l.age < WarmUp THEN "WARM_UP"
  ELSE IF l.age < RampUp THEN "RAMP_UP"
  ELSE "NORMAL"

Registered(l) == [l EXCEPT !.age = IF @ = Unregistered THEN 0 ELSE @]

PlanInit ==
  /\ life \in {[Unknown EXCEPT !.age = a] : a \in Unregistered .. RampUp}
  /\ brain = NewBrain /\ daily = NoCounts
  /\ disk = NoSnapshot
  /\ plan = [p \in Plans |-> "idle"]
  /\ running = TRUE
  /\ hour = 0
  /\ real = [session |-> Gap, upload |-> LongAgo]
  /\ forgotten = {}
  /\ stops = 0

InSession(p) == plan[p] \in Intents

-----------------------------------------------------------------------------
(* plan_session                                                            *)

\* check_session_allowed of the coordinator
SessionAllowed == daily.sessions < DailySessions

\* Up to that cap; then the start delay is awaited.
Ask(p) ==
  /\ running /\ plan[p] = "idle"
  /\ SessionAllowed
  /\ plan' = [plan EXCEPT ![p] = "delayed"]
  /\ UNCHANGED <<life, brain, daily, disk, running, hour, real, forgotten, stops>>

\* decide_intent: an operator's word goes before everything else; whether
\* there is content, and trust, fatigue, risk, mode and the hour let it be
\* uploaded, is drawn.
RawIntents == IF brain # "none" THEN {brain} ELSE Intents

\* Mutant: the age of the last session is not looked at.
SessionDueToday(l) == l.sessions < SessionCap[Phase(l)]

\* The parts of evaluate_lifecycle_gate: the session, and the upload, to
\* which the gates for trust and fatigue are added.
SessionDue(l) == l.session >= Gap /\ l.sessions < SessionCap[Phase(l)]
UploadDue(l) ==
  /\ Phase(l) \in {"RAMP_UP", "NORMAL"}
  /\ l.upload >= UploadGap[Phase(l)]
  /\ l.uploads < UploadCap[Phase(l)]

\* can_upload_now; the caps of the fleet may refuse as well.
Allowed(intent) ==
  IF intent # "UPLOAD" THEN {intent}
  ELSE {"BROWSE"} \cup (IF UploadDue(life) /\ daily.uploads < DailyUploads THEN {"UPLOAD"} ELSE {})

GateSkips(p) ==
  /\ plan[p] = "delayed" /\ ~SessionDue(life)
  /\ plan' = [plan EXCEPT ![p] = "idle"]
  /\ life' = Registered(life)
  /\ UNCHANGED <<brain, daily, disk, running, hour, real, forgotten, stops>>

\* From the gate to record_start nothing is awaited.
GateAdmits(p) ==
  /\ plan[p] = "delayed" /\ SessionDue(life)
  /\ \E raw \in RawIntents : \E intent \in Allowed(raw) : plan' = [plan EXCEPT ![p] = intent]
  /\ life' = [Registered(life) EXCEPT !.sessions = @ + 1, !.session = 0]
  /\ brain' = "none"
  /\ daily' = [daily EXCEPT !.sessions = @ + 1]
  /\ real' = [real EXCEPT !.session = 0]
  /\ forgotten' = forgotten \ {"session"}
  /\ UNCHANGED <<disk, running, hour, stops>>

-----------------------------------------------------------------------------
(* record_session_end                                                      *)

\* An upload that the phase of this moment does not allow is not counted.
Counted(l) == l.uploads < UploadCap[Phase(l)]

WithUpload(l) == IF Counted(l) THEN [l EXCEPT !.uploads = @ + 1, !.upload = 0] ELSE l

\* trigger_cooldown
Cooled(l, severe) == [l EXCEPT !.cooldown = IF severe THEN Severe ELSE Cooldown]

WithAnomaly(l, outcome) ==
  LET n == l.anomalies + 1 IN
  IF outcome = "healthy" THEN [l EXCEPT !.anomalies = IF @ > 0 THEN @ - 1 ELSE 0]
  ELSE LET counted == [l EXCEPT !.anomalies = IF n > AnomalyThreshold THEN AnomalyThreshold ELSE n]
       IN  IF outcome = "severe" \/ n >= AnomalyThreshold THEN Cooled(counted, outcome = "severe") ELSE counted

\* to_dict leaves out last_counter_date: from_dict takes the counts of the day
\* for another day's.
Undated(l) == [l EXCEPT !.sessions = 0, !.uploads = 0]

\* save_state: written aside and renamed; an error is logged and forgotten.
Saves == disk' \in {[age |-> 0, life |-> Undated(life'), brain |-> brain, daily |-> daily'], disk}

SessionEnds(p, uploaded, outcome) ==
  /\ InSession(p) /\ (uploaded => plan[p] = "UPLOAD")
  /\ plan' = [plan EXCEPT ![p] = "idle"]
  /\ life' = WithAnomaly(IF uploaded THEN WithUpload(life) ELSE life, outcome)
  /\ daily' = IF uploaded THEN [daily EXCEPT !.uploads = @ + 1] ELSE daily
  /\ Saves
  /\ real' = IF uploaded THEN [real EXCEPT !.upload = 0] ELSE real
  /\ forgotten' = IF ~uploaded THEN forgotten
                  ELSE IF Counted(life) THEN forgotten \ {"upload"} ELSE forgotten \cup {"upload"}
  /\ UNCHANGED <<brain, running, hour, stops>>

-----------------------------------------------------------------------------
(* The operator, time, and the end of the process                          *)

OperatorActs ==
  /\ running
  /\ \/ \E severe \in BOOLEAN : life' = Cooled(Registered(life), severe) /\ UNCHANGED brain
     \/ life' = [Registered(life) EXCEPT !.cooldown = 0, !.anomalies = 0] /\ UNCHANGED brain
     \/ \E i \in Orders : brain' = i /\ UNCHANGED life
  /\ UNCHANGED <<daily, disk, plan, running, hour, real, forgotten, stops>>

Older(n, limit) == IF n < limit THEN n + 1 ELSE n

Aged(l, midnight) ==
  [age |-> IF l.age = Unregistered THEN l.age ELSE Older(l.age, RampUp),
   sessions |-> IF midnight THEN 0 ELSE l.sessions,
   uploads |-> IF midnight THEN 0 ELSE l.uploads,
   session |-> Older(l.session, Gap), upload |-> Older(l.upload, LongAgo),
   cooldown |-> IF l.cooldown > 0 THEN l.cooldown - 1 ELSE 0,
   anomalies |-> l.anomalies]

Morning(d, midnight) == IF midnight THEN NoCounts ELSE d

\* A session is over before the next is due (_compute_session_duration: 20
\* minutes at most).
Tick ==
  LET midnight == hour + 1 = Day IN
  /\ \A p \in Plans : InSession(p) => real.session + 1 < Gap
  /\ hour' = (hour + 1) % Day
  /\ life' = Aged(life, midnight)
  /\ daily' = Morning(daily, midnight)
  /\ disk' = [age |-> Older(disk.age, StaleAfter + 1), life |-> Aged(disk.life, midnight),
              brain |-> disk.brain, daily |-> Morning(disk.daily, midnight)]
  /\ real' = [session |-> Older(real.session, Gap), upload |-> Older(real.upload, LongAgo)]
  /\ UNCHANGED <<brain, plan, running, forgotten, stops>>

\* What the file does not hold is lost with the process.
ProcessStops ==
  /\ running /\ stops < MaxStops
  /\ running' = FALSE
  /\ stops' = stops + 1
  /\ life' = Unknown /\ brain' = NewBrain /\ daily' = NoCounts
  /\ plan' = [p \in Plans |-> "idle"]
  /\ forgotten' = forgotten \cup {k \in {"session", "upload"} : disk.life[k] # real[k]}
  /\ UNCHANGED <<disk, hour, real>>

\* restore_state
Restored == IF disk.age <= StaleAfter THEN disk.life ELSE Unknown

ProcessStarts ==
  /\ ~running
  /\ running' = TRUE
  /\ life' = Restored
  /\ brain' = IF disk.age <= StaleAfter THEN disk.brain ELSE NewBrain
  /\ daily' = IF disk.age <= StaleAfter THEN disk.daily ELSE NoCounts
  /\ UNCHANGED <<disk, plan, hour, real, forgotten, stops>>

PlanNext ==
  \/ \E p \in Plans :
       \/ Ask(p) \/ GateSkips(p) \/ GateAdmits(p)
       \/ \E u \in BOOLEAN, o \in {"healthy", "anomaly", "severe"} : SessionEnds(p, u, o)
  \/ OperatorActs \/ Tick \/ ProcessStops \/ ProcessStarts

PlanSpec == PlanInit /\ [][PlanNext]_planVars

-----------------------------------------------------------------------------
(* Properties                                                              *)

Starts(p) == ~InSession(p) /\ InSession(p)'

\* No session of an account starts sooner after another than Gap, however
\* many calls of plan_session wait out their delay at once, and through any
\* restart that finds the earlier session in its file.  Nor does a session
\* that may upload start sooner after an upload than the phase asks for, not
\* even after a restart whose file was too old to be read; except that an
\* upload which ended in a cooldown declared meanwhile, and one that no file
\* holds, were never counted.
SessionsSpaced ==
  [][\A p \in Plans : Starts(p) =>
       /\ real.session >= Gap \/ "session" \in forgotten
       /\ plan'[p] = "UPLOAD" =>
         real.upload >= UploadGap[Phase(life)] \/ "upload" \in forgotten]_planVars
=============================================================================
