---------------------------- MODULE AccountBrain ----------------------------
(***************************************************************************)
(* The memory the account brain keeps of an account, and the session it    *)
(* prescribes (core/account_brain.py behind api/routes/account_brain.py,   *)
(* fleet_health.py and decisions.py).  It lives in the process; a dump of  *)
(* it survives.  A handler has no await.  Trust and fatigue are percents,  *)
(* timestamps are ages in ticks, and every answer shows a plan, for which  *)
(* the fatigue decays.                                                     *)
(***************************************************************************)
EXTENDS FiniteSetsExt, Integers

CONSTANTS
  Minds,         \* accounts
  Suspension,    \* _UPLOAD_SUSPEND_HOURS
  RestNeeded,    \* _MIN_UPLOAD_GAP_HOURS
  DecayPerTick,  \* _FATIGUE_DECAY_PER_HOUR
  Efforts,       \* fatigue a session may add
  Reports,       \* SessionSignals: [kinds, engaged, suspect]
  Trusted,       \* what trust earlier sessions have left
  MaxEvents      \* bound: sessions, orders and dumps

ASSUME SuspensionNat == Suspension \in Nat

VARIABLES
  mind,          \* AccountBrainRegistry._states
  saved,         \* dump_states, as an earlier session wrote it
  outlook,       \* the plan last shown
  banned,        \* ticks since the account's last soft ban
  lapse,         \* accounts whose last soft ban no dump holds
  events         \* how many, for the bound

accountBrainVars == <<mind, saved, outlook, banned, lapse, events>>

\* _TRUST_PENALTY, and 5 for a kind it does not list.
Penalty ==
  [captcha |-> 15, action_blocked |-> 10, soft_ban |-> 25, low_engagement |-> 5, upload_failed |-> 8,
   fingerprint_changed |-> 5, geo_mismatch |-> 5, ip_changed |-> 5, device_mismatch |-> 5]
AnomalyKinds == DOMAIN Penalty
SafeActions == {"browse", "scroll", "view"}
AllowedIn ==
  [SAFE |-> SafeActions, NORMAL |-> SafeActions \cup {"like", "comment"},
   AGGRESSIVE |-> SafeActions \cup {"like", "comment", "upload", "interact"}]

LongIdle == 100 \div DecayPerTick + 1    \* after that all fatigue is gone

\* AccountState.new_for_account; an age of -1 is None.
Unmet == [trust |-> 80, anomalies |-> 0, fatigue |-> 0, suspended |-> 0, ready |-> FALSE,
          intent |-> "none", mode |-> "none", active |-> -1, upload |-> -1]
NoOutlook == [intent |-> "none", forced |-> FALSE, level |-> "low", actions |-> {}]

AccountBrainInit ==
  /\ mind \in [Minds -> {[Unmet EXCEPT !.trust = n] : n \in Trusted}]
  /\ saved = [a \in Minds |-> Unmet]
  /\ outlook = [a \in Minds |-> NoOutlook]
  /\ banned = [a \in Minds |-> Suspension]
  /\ lapse = {}
  /\ events = 0

\* Python's max(n, m) and min(n, m)
AtLeast(n, m) == IF n < m THEN m ELSE n
AtMost(n, m) == IF n > m THEN m ELSE n

Happens == events < MaxEvents /\ events' = events + 1

-----------------------------------------------------------------------------
(* decide_session_plan                                                     *)

RiskLevel(m) ==
  IF m.anomalies >= 3 \/ m.trust < 30 THEN "high"
  ELSE IF m.anomalies >= 1 \/ m.trust < 60 THEN "medium"
  ELSE "low"

OperatingMode(m) ==
  IF m.mode # "none" THEN m.mode
  ELSE CASE RiskLevel(m) = "high" -> "SAFE"
         [] RiskLevel(m) = "low" /\ m.trust > 85 -> "AGGRESSIVE"
         [] OTHER -> "NORMAL"

Rested(m) == m.upload = -1 \/ m.upload >= RestNeeded

MayUpload(m) ==
  /\ OperatingMode(m) # "SAFE" /\ RiskLevel(m) # "high"
  /\ m.suspended = 0
  /\ m.ready /\ m.trust >= 70 /\ m.fatigue < 70 /\ Rested(m)

\* decide_intent; awake: the hour is in the account's window.
Intent(m, awake) ==
  IF m.intent # "none" THEN m.intent
  ELSE IF m.fatigue >= 75 \/ (OperatingMode(m) # "SAFE" /\ ~awake) THEN "IDLE"
  ELSE IF MayUpload(m) THEN "UPLOAD" ELSE "BROWSE"

Actions(m, intent) == IF intent = "IDLE" THEN {"view"} ELSE AllowedIn[OperatingMode(m)]

\* _compute_interaction_level
Level(m, intent) ==
  CASE intent = "IDLE" \/ OperatingMode(m) = "SAFE" -> "low"
    [] intent = "UPLOAD" /\ OperatingMode(m) # "SAFE" -> IF m.fatigue > 50 THEN "medium" ELSE "high"
    [] OTHER -> IF m.fatigue > 60 THEN "low" ELSE "medium"

\* Which actions go with the mode does not depend on the intent: an upload is
\* planned in modes whose actions do not include it.
Plan(m, awake) ==
  LET intent == Intent(m, awake) IN
  [intent |-> intent, forced |-> m.intent # "none",
   level |-> Level(m, intent), actions |-> Actions(m, intent)]

\* apply_fatigue_decay, for the whole time since the last session: a second
\* reading takes the same off again.
Relaxed(m) ==
  IF m.active <= 0 THEN m
  ELSE [m EXCEPT !.fatigue = AtLeast(@ - m.active * DecayPerTick, 0)]

\* snapshot; the row of an account nobody has asked for is made on the way.
Shows(minds) ==
  /\ mind' = [a \in Minds |-> Relaxed(minds[a])]
  /\ \E awake \in [Minds -> BOOLEAN] :
       outlook' = [a \in Minds |-> Plan(mind'[a], awake[a])]

ShowsOne(a, m) ==
  /\ mind' = [mind EXCEPT ![a] = Relaxed(m)]
  /\ \E awake \in BOOLEAN : outlook' = [outlook EXCEPT ![a] = Plan(mind'[a], awake)]

\* The planner's call uses a forced intent up, the dashboard's does not.
PlansSession(a) ==
  /\ Happens
  /\ \E awake \in BOOLEAN :
       /\ outlook' = [outlook EXCEPT ![a] = Plan(Relaxed(mind[a]), awake)]
       /\ mind' = [mind EXCEPT ![a] = [Relaxed(@) EXCEPT !.intent = "none"]]
  /\ UNCHANGED <<saved, banned, lapse>>

-----------------------------------------------------------------------------
(* update_account_strategy and record_action                               *)

\* The identity signals come from the planner; the route has no fields for them.
Loss(r) ==
  MapThenSumSet(LAMBDA k : Penalty[k], r.kinds)
    + (IF "fingerprint_changed" \in r.kinds THEN 25 ELSE 0)
    + (IF "device_mismatch" \in r.kinds THEN 10 ELSE 0) + (IF r.suspect THEN 30 ELSE 0)

Judged(m, r) ==
  LET trust == AtLeast(m.trust - Loss(r), 0)
      more == (IF r.kinds # {} THEN 1 ELSE 0) + (IF "fingerprint_changed" \in r.kinds THEN 1 ELSE 0)
  IN  [m EXCEPT !.trust = IF r.kinds = {} /\ r.engaged THEN AtMost(trust + 2, 100) ELSE trust,
                !.anomalies = IF r.kinds = {} THEN AtLeast(@ - 1, 0) ELSE AtMost(@ + more, 3),
                !.suspended = IF "soft_ban" \in r.kinds THEN Suspension ELSE @,
                !.mode = IF "geo_mismatch" \in r.kinds /\ @ = "none" THEN "SAFE" ELSE @]

UpdateStrategy(a, r) ==
  /\ Happens
  /\ banned' = IF "soft_ban" \in r.kinds THEN [banned EXCEPT ![a] = 0] ELSE banned
  /\ lapse' = IF "soft_ban" \in r.kinds THEN lapse \ {a} ELSE lapse
  /\ ShowsOne(a, Judged(mind[a], r))
  /\ UNCHANGED saved

RecordAction(a, effort, uploaded) ==
  /\ Happens
  /\ ShowsOne(a, [mind[a] EXCEPT !.active = 0, !.fatigue = AtMost(@ + effort, 100),
                                 !.upload = IF uploaded THEN 0 ELSE @,
                                 !.ready = @ /\ ~uploaded])
  /\ UNCHANGED <<saved, banned, lapse>>

-----------------------------------------------------------------------------
(* The operator                                                            *)

\* What the orders for one account make of its mind.
Steered(m) ==
  {[m EXCEPT !.intent = i] : i \in {"BROWSE", "UPLOAD", "IDLE"}}
  \cup {[m EXCEPT !.ready = b] : b \in BOOLEAN}
  \cup {[m EXCEPT !.mode = o] : o \in {"none", "SAFE", "NORMAL", "AGGRESSIVE"}}
  \cup {[m EXCEPT !.fatigue = 0]}

OperatorSteers(a) ==
  /\ Happens
  /\ \E m \in Steered(mind[a]) : ShowsOne(a, m)
  /\ UNCHANGED <<saved, banned, lapse>>

\* The emergency switch shows no plan, and neither does its release.
EmergencySwitch ==
  /\ Happens
  /\ \/ mind' = [a \in Minds |-> [mind[a] EXCEPT !.mode = "SAFE"]]
     \/ mind' = [a \in Minds |-> [mind[a] EXCEPT !.mode = IF @ = "SAFE" THEN "none" ELSE @]]
  /\ UNCHANGED <<saved, outlook, banned, lapse>>

\* The list, the fleet's health and the feed of decisions.
DashboardReads == Shows(mind) /\ UNCHANGED <<saved, banned, lapse, events>>

-----------------------------------------------------------------------------
(* Time and restarts                                                       *)

Grown(n, limit) == IF n \in 0 .. limit - 1 THEN n + 1 ELSE n
Later(m) ==
  [m EXCEPT !.suspended = AtLeast(@ - 1, 0), !.active = Grown(@, LongIdle), !.upload = Grown(@, RestNeeded)]

BrainTick ==
  /\ mind' = [a \in Minds |-> Later(mind[a])]
  /\ saved' = [a \in Minds |-> Later(saved[a])]
  /\ banned' = [a \in Minds |-> Grown(banned[a], Suspension)]
  /\ UNCHANGED <<outlook, lapse, events>>

\* dump_states
Dumps == saved' = mind /\ Happens /\ UNCHANGED <<mind, outlook, banned, lapse>>

\* Mutant: the suspension is a derived field, which from_dict does not read.
FromDictDerived(m) == [m EXCEPT !.trust = IF @ = 0 THEN Unmet.trust ELSE @, !.suspended = 0]

\* from_dict: a trust of 0 reads like none, and becomes what a new account has.
FromDict(m) == [m EXCEPT !.trust = IF @ = 0 THEN Unmet.trust ELSE @]

\* load_states, into an empty registry.
BrainReloads ==
  /\ mind' = [a \in Minds |-> FromDict(saved[a])]
  /\ outlook' = [a \in Minds |-> NoOutlook]
  /\ lapse' = lapse \cup {a \in Minds : saved[a].suspended # mind[a].suspended}
  /\ UNCHANGED <<saved, banned, events>>

AccountBrainNext ==
  \/ \E a \in Minds : PlansSession(a) \/ OperatorSteers(a)
  \/ \E a \in Minds, r \in Reports : UpdateStrategy(a, r)
  \/ \E a \in Minds, effort \in Efforts, uploaded \in BOOLEAN : RecordAction(a, effort, uploaded)
  \/ EmergencySwitch \/ DashboardReads \/ BrainTick \/ Dumps \/ BrainReloads

AccountBrainSpec == AccountBrainInit /\ [][AccountBrainNext]_accountBrainVars

-----------------------------------------------------------------------------
(* Properties                                                              *)

\* A plan that is new uploads only once the account's suspension is over.
HeldBack(a) ==
  outlook'[a] # outlook[a] /\ outlook'[a].intent = "UPLOAD" =>
    banned'[a] >= Suspension \/ outlook'[a].forced \/ a \in lapse'

\* For a whole suspension after the last soft ban of an account no plan lets
\* it upload: no good session, no mode the operator sets, no content that
\* becomes ready and no restart that finds the ban in its dump lifts it; only
\* an intent the operator forces does.
SuspensionHolds == [][\A a \in Minds : HeldBack(a)]_accountBrainVars
=============================================================================
