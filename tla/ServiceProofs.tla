---------------------------- MODULE ServiceProofs ----------------------------
(***************************************************************************)
(* Theorems about services and engines beside the task queue, each for     *)
(* every value of its module's constants.                                  *)
(***************************************************************************)
EXTENDS AccountBrain, CeoBrain, AccountConnect, Identity, PublishGate, SessionPlanner,
        PostScheduler, Portfolio, FiniteFolds, FiniteSetTheorems, SequenceTheorems, TLAPS

-----------------------------------------------------------------------------
(* A suspension holds, for any accounts, reports and number of events      *)

Fields == {"trust", "anomalies", "fatigue", "suspended", "ready", "intent", "mode", "active", "upload"}

\* A mind that no dump has made forget it is suspended for what is left of its
\* soft ban's time.
Suspended(m, age, spared) ==
  /\ DOMAIN m = Fields /\ m.suspended \in Nat
  /\ spared \/ m.suspended >= Suspension - age

SuspendedInv ==
  /\ DOMAIN mind = Minds /\ DOMAIN saved = Minds /\ DOMAIN outlook = Minds
  /\ banned \in [Minds -> 0..Suspension]
  /\ \A a \in Minds : Suspended(mind[a], banned[a], a \in lapse)
  /\ \A a \in Minds : DOMAIN saved[a] = Fields /\ saved[a].suspended \in Nat

LEMMA BrainStarts == AccountBrainInit => SuspendedInv
  BY SuspensionNat DEF AccountBrainInit, SuspendedInv, Suspended, Fields, Unmet

\* Relaxing leaves the suspension alone.
LEMMA RelaxedStays ==
  ASSUME NEW m, DOMAIN m = Fields
  PROVE  DOMAIN Relaxed(m) = Fields /\ Relaxed(m).suspended = m.suspended
  BY DEF Relaxed, Fields

\* A plan uploads because the operator forces it or nothing suspends it.
LEMMA PlanWaits ==
  ASSUME NEW m, NEW awake, Plan(m, awake).intent = "UPLOAD"
  PROVE  Plan(m, awake).forced \/ m.suspended = 0
  BY DEF Plan, Intent, MayUpload

\* So a plan for a mind that remembers its soft ban is held back.
LEMMA PlanIsMinded ==
  ASSUME NEW m, NEW awake, NEW age \in 0..Suspension,
         Suspended(m, age, FALSE), Plan(m, awake).intent = "UPLOAD"
  PROVE  age >= Suspension \/ Plan(m, awake).forced
  BY PlanWaits, SuspensionNat DEF Suspended

HeldInv == SuspendedInv' /\ \A a \in Minds : HeldBack(a)

LEMMA ShownOneKeeps ==
  ASSUME SuspendedInv, UNCHANGED saved, NEW a \in Minds, NEW m, ShowsOne(a, m),
         DOMAIN m = Fields, m.suspended \in Nat,
         \/ m.suspended = mind[a].suspended /\ UNCHANGED <<banned, lapse>>
         \/ m.suspended = Suspension /\ banned' = [banned EXCEPT ![a] = 0] /\ lapse' = lapse \ {a}
  PROVE  HeldInv
<1>1. mind' = [mind EXCEPT ![a] = Relaxed(m)] /\ Relaxed(m).suspended = m.suspended /\ DOMAIN Relaxed(m) = Fields
  BY RelaxedStays DEF ShowsOne
<1>2. Suspended(mind'[a], banned'[a], a \in lapse') /\ banned' \in [Minds -> 0..Suspension]
  BY <1>1, SuspensionNat DEF SuspendedInv, Suspended
<1>3. \A b \in Minds \ {a} : mind'[b] = mind[b] /\ banned'[b] = banned[b] /\ (b \in lapse' <=> b \in lapse)
  BY <1>1 DEF SuspendedInv
<1>4. PICK awake \in BOOLEAN : outlook' = [outlook EXCEPT ![a] = Plan(mind'[a], awake)]
  BY DEF ShowsOne
<1>5. SuspendedInv'
  BY <1>1, <1>2, <1>3, <1>4 DEF SuspendedInv
<1>6. HeldBack(a)
  BY <1>2, <1>4, PlanIsMinded DEF HeldBack, SuspendedInv, Suspended
<1>7. \A b \in Minds \ {a} : HeldBack(b)
  BY <1>4 DEF HeldBack, SuspendedInv
<1> QED
  BY <1>5, <1>6, <1>7 DEF HeldInv

LEMMA PlansKeeps ==
  ASSUME SuspendedInv, NEW a \in Minds, PlansSession(a)
  PROVE  HeldInv
<1> DEFINE calm == Relaxed(mind[a])
<1>1. calm.suspended = mind[a].suspended /\ DOMAIN calm = Fields
  BY RelaxedStays DEF SuspendedInv, Suspended
<1>2. PICK awake \in BOOLEAN : outlook' = [outlook EXCEPT ![a] = Plan(calm, awake)]
  BY DEF PlansSession
<1>3. mind' = [mind EXCEPT ![a] = [calm EXCEPT !.intent = "none"]] /\ UNCHANGED <<saved, banned, lapse>>
  BY DEF PlansSession, SuspendedInv
<1>4. Suspended(calm, banned[a], a \in lapse)
  BY <1>1 DEF SuspendedInv, Suspended
<1>5. SuspendedInv'
  BY <1>1, <1>2, <1>3 DEF SuspendedInv, Suspended, Fields
<1>6. HeldBack(a)
  BY <1>2, <1>3, <1>4, PlanIsMinded DEF HeldBack, SuspendedInv, Suspended
<1>7. \A b \in Minds \ {a} : HeldBack(b)
  BY <1>2 DEF HeldBack, SuspendedInv
<1> QED
  BY <1>5, <1>6, <1>7 DEF HeldInv

\* The steps that show one account's plan.
LEMMA OneAccountKeeps ==
  ASSUME SuspendedInv, NEW a \in Minds,
         \/ OperatorSteers(a)
         \/ \E r \in Reports : UpdateStrategy(a, r)
         \/ \E effort \in Efforts, posted \in BOOLEAN : RecordAction(a, effort, posted)
  PROVE  HeldInv
<1> DEFINE old == mind[a]
<1>0. DOMAIN old = Fields /\ old.suspended \in Nat
  BY DEF SuspendedInv, Suspended
<1>1. CASE OperatorSteers(a)
  <2>1. PICK m \in Steered(old) : ShowsOne(a, m)
    BY <1>1 DEF OperatorSteers
  <2>2. DOMAIN m = Fields /\ m.suspended = old.suspended
    BY <1>0, <2>1 DEF Steered, Fields
  <2> QED
    BY <1>0, <1>1, <2>1, <2>2, ShownOneKeeps DEF OperatorSteers
<1>2. ASSUME NEW r \in Reports, UpdateStrategy(a, r)
      PROVE  HeldInv
  <2>1. DOMAIN Judged(old, r) = Fields
    BY <1>0 DEF Judged
  <2>2. Judged(old, r).suspended = IF "soft_ban" \in r.kinds THEN Suspension ELSE old.suspended
    BY <1>0 DEF Judged, Fields
  <2> QED
    BY <1>0, <1>2, <2>1, <2>2, SuspensionNat, ShownOneKeeps DEF UpdateStrategy
<1>3. ASSUME NEW effort \in Efforts, NEW posted \in BOOLEAN, RecordAction(a, effort, posted)
      PROVE  HeldInv
  <2> DEFINE m == [old EXCEPT !.active = 0, !.fatigue = AtMost(@ + effort, 100),
                              !.upload = IF posted THEN 0 ELSE @,
                              !.ready = @ /\ ~posted]
  <2>1. DOMAIN m = Fields /\ m.suspended = old.suspended
    BY <1>0 DEF Fields
  <2>2. ShowsOne(a, m) /\ UNCHANGED <<saved, banned, lapse>>
    BY <1>3 DEF RecordAction
  <2> HIDE DEF m
  <2> QED
    BY <1>0, <2>1, <2>2, ShownOneKeeps
<1> QED
  BY <1>1, <1>2, <1>3

LEMMA DashboardKeeps ==
  ASSUME SuspendedInv, DashboardReads
  PROVE  HeldInv
<1>1. mind' = [a \in Minds |-> Relaxed(mind[a])] /\ UNCHANGED <<saved, banned, lapse>>
  BY DEF DashboardReads, Shows
<1>2. \A a \in Minds : Suspended(mind'[a], banned'[a], a \in lapse')
  BY <1>1, RelaxedStays DEF SuspendedInv, Suspended
<1>3. PICK awake \in [Minds -> BOOLEAN] : outlook' = [a \in Minds |-> Plan(mind'[a], awake[a])]
  BY DEF DashboardReads, Shows
<1>4. SuspendedInv'
  BY <1>1, <1>2, <1>3 DEF SuspendedInv
<1>5. ASSUME NEW a \in Minds PROVE HeldBack(a)
  BY <1>1, <1>2, <1>3, PlanIsMinded DEF HeldBack, SuspendedInv, Suspended
<1> QED
  BY <1>4, <1>5 DEF HeldInv

\* Time, the emergency switch, dumps and restarts show no plan that uploads.
LEMMA OthersKeep ==
  ASSUME SuspendedInv, EmergencySwitch \/ BrainTick \/ Dumps \/ BrainReloads
  PROVE  HeldInv
<1>1. CASE EmergencySwitch
  BY <1>1 DEF EmergencySwitch, HeldInv, HeldBack, SuspendedInv, Suspended, Fields
<1>2. CASE BrainTick
  <2>0. ASSUME NEW m, DOMAIN m = Fields, m.suspended \in Nat
        PROVE  /\ DOMAIN Later(m) = Fields /\ Later(m).suspended \in Nat
               /\ Later(m).suspended >= m.suspended - 1
    BY <2>0 DEF Later, AtLeast, Fields
  <2>1. \A a \in Minds : /\ Suspended(mind'[a], banned'[a], a \in lapse')
                         /\ DOMAIN saved'[a] = Fields /\ saved'[a].suspended \in Nat
    <3> TAKE a \in Minds
    <3>1. mind'[a] = Later(mind[a]) /\ saved'[a] = Later(saved[a]) /\ banned'[a] = Grown(banned[a], Suspension) /\ lapse' = lapse
      BY <1>2 DEF BrainTick, SuspendedInv
    <3>2. DOMAIN mind[a] = Fields /\ mind[a].suspended \in Nat /\ DOMAIN saved[a] = Fields /\ saved[a].suspended \in Nat
      BY DEF SuspendedInv, Suspended
    <3>3. a \in lapse \/ Later(mind[a]).suspended >= Suspension - Grown(banned[a], Suspension)
      BY <2>0, <3>2, SuspensionNat DEF SuspendedInv, Suspended, Grown
    <3> QED
      BY <2>0, <3>1, <3>2, <3>3 DEF Suspended
  <2>2. banned' \in [Minds -> 0..Suspension]
    BY <1>2, SuspensionNat DEF BrainTick, SuspendedInv, Grown
  <2> QED
    BY <1>2, <2>1, <2>2 DEF BrainTick, HeldInv, HeldBack, SuspendedInv
<1>3. CASE Dumps
  BY <1>3 DEF Dumps, HeldInv, HeldBack, SuspendedInv, Suspended
<1>4. CASE BrainReloads
  <2>1. \A a \in Minds : Suspended(mind'[a], banned'[a], a \in lapse')
    BY <1>4 DEF BrainReloads, SuspendedInv, Suspended, FromDict, Fields
  <2>2. \A a \in Minds : HeldBack(a)
    BY <1>4 DEF BrainReloads, NoOutlook, HeldBack
  <2> QED
    BY <1>4, <2>1, <2>2 DEF BrainReloads, HeldInv, SuspendedInv
<1> QED
  BY <1>1, <1>2, <1>3, <1>4

LEMMA BrainStepKeeps ==
  ASSUME SuspendedInv, [AccountBrainNext]_accountBrainVars
  PROVE  SuspendedInv' /\ [\A a \in Minds : HeldBack(a)]_accountBrainVars
<1>1. CASE AccountBrainNext
  BY <1>1, PlansKeeps, OneAccountKeeps, DashboardKeeps, OthersKeep DEF AccountBrainNext, HeldInv
<1>2. CASE UNCHANGED accountBrainVars
  BY <1>2 DEF accountBrainVars, SuspendedInv, Suspended
<1> QED
  BY <1>1, <1>2

\* For any accounts, length of the suspension, reports and number of events: only
\* an intent the operator forces, or a dump from before the ban, lets a suspended
\* account upload (account_brain.py:220, :420).
THEOREM SuspensionKept == AccountBrainSpec => SuspensionHolds
BY BrainStarts, BrainStepKeeps, PTL DEF AccountBrainSpec, SuspensionHolds

-----------------------------------------------------------------------------
(* The device is stable for any number of edits and restarts               *)

Zones == Countries \cup {Local}
Seeded ==
  [device : {0}, zone : Zones, proxy : Zones, locked : BOOLEAN, risk : {"none", "warning", "critical"}]

\* Whatever the API's registry and the table hold, the worker's profile is one
\* that it has seeded itself.
WorkerSeeds ==
  /\ DOMAIN registry = Processes
  /\ registry["worker"] \in Seeded \cup {NoProfile}
  /\ proxy \in Zones
  /\ session \in [step : {"none", "read", "open"}, proxy : Zones]
  /\ shown \in [BrowserProviders -> SUBSET {0}]

LEMMA SeedsFirst == IdentityInit => WorkerSeeds
  BY DEF IdentityInit, WorkerSeeds, Seeded, Zones, NoProfile, NoSession, Processes

\* The operator and the login reach the registry of the API only.
LEMMA ApiKeeps ==
  ASSUME WorkerSeeds, OperatorActsOnIdentity \/ LoginOpens \/ LoginSaves \/ LoginFails
  PROVE  WorkerSeeds'
<1> USE DEF WorkerSeeds, Registers, Zones, Processes
<1>1. CASE OperatorActsOnIdentity
  BY <1>1 DEF OperatorActsOnIdentity, Looks, Regenerates, PatchesAccount, MovesProxy, Locks, Validates
<1>2. CASE LoginOpens
  BY <1>2 DEF LoginOpens
<1>3. CASE LoginSaves \/ LoginFails
  BY <1>3 DEF LoginSaves, LoginFails
<1> QED
  BY <1>1, <1>2, <1>3

LEMMA SessionKeeps ==
  ASSUME WorkerSeeds, SessionReads \/ SessionOpens \/ SessionCloses
  PROVE  WorkerSeeds'
<1> USE DEF WorkerSeeds
<1>1. CASE SessionReads \/ SessionCloses
  BY <1>1 DEF SessionReads, SessionCloses, NoSession, Zones
<1>2. CASE SessionOpens
  <2> DEFINE profile == [Kept("worker", session.proxy) EXCEPT !.proxy = session.proxy]
  <2>1. Kept("worker", session.proxy) \in Seeded
    BY <1>2 DEF SessionOpens, Kept, Generated, SeededDevice, Seeded, Zones
  <2>2. profile \in Seeded /\ Scripts(profile) = 0
    BY <2>1 DEF Seeded, Scripts, Zones
  <2> QED
    BY <1>2, <2>2 DEF SessionOpens, Registers, Processes
<1> QED
  BY <1>1, <1>2

LEMMA RestartKeeps ==
  ASSUME WorkerSeeds, NEW p \in Processes, Restarts(p)
  PROVE  WorkerSeeds'
BY DEF WorkerSeeds, Restarts, Registers, Processes, NoSession, Zones

LEMMA IdentityStepKeeps ==
  ASSUME WorkerSeeds, [IdentityNext]_identityVars
  PROVE  WorkerSeeds'
<1>1. CASE IdentityNext
  BY <1>1, ApiKeeps, SessionKeeps, RestartKeeps DEF IdentityNext
<1>2. CASE UNCHANGED identityVars
  BY <1>2 DEF identityVars, WorkerSeeds
<1> QED
  BY <1>1, <1>2

\* Every publish session of an account shows one and the same device, for any
\* countries, however often the operator edits the identity and the processes
\* restart (identity_manager.py:190-214, browser_context.py:219-240).
THEOREM OneDevice == IdentitySpec => []DeviceIsStable
<1>1. WorkerSeeds => DeviceIsStable
  BY DEF WorkerSeeds, DeviceIsStable
<1> QED
  BY SeedsFirst, IdentityStepKeeps, <1>1, PTL DEF IdentitySpec

-----------------------------------------------------------------------------
(* Only reviewed renders are uploaded, whatever the bounds                 *)

Rendered == {p \in Paths : file[p] # 0}

\* A path is judged once it holds a file, and the gate and the remake task know
\* paths of files only; a file that is rendered over an approved one is known.
GateInv ==
  /\ file \in [Paths -> Nat]
  /\ artifact \in [Paths -> {"none", "pending", "approved", "rejected"}]
  /\ remake.runs \in Nat /\ DOMAIN remake = {"step", "path", "runs"}
  /\ DOMAIN gate = {"step", "path", "failed"}
  /\ remake.step \in {"rendered", "registered"} => remake.path \in Rendered
  /\ video \in Rendered \cup {NoPath}
  /\ gate.step \in {"account", "rules", "approval", "upload"} => gate.path \in Rendered
  /\ \A p \in Paths : artifact[p] # "none" => p \in Rendered
  /\ \A p \in Paths : artifact[p] = "approved" => file[p] \in reviewed \cup overwriting
  /\ gate.step = "upload" => file[gate.path] \in reviewed \cup overwriting
  /\ UploadsAreReviewed

LEMMA GateStarts == GateInit => GateInv
  BY DEF GateInit, GateInv, UploadsAreReviewed, Rendered

LEMMA RemakeKeeps ==
  ASSUME GateInv, Render \/ Register \/ RemakeSucceeds \/ RemakeFails
  PROVE  GateInv'
<1> USE DEF GateInv, Rendered, UploadsAreReviewed
<1>1. CASE Render
  BY <1>1 DEF Render
<1>2. CASE Register
  BY <1>2 DEF Register
<1>3. CASE RemakeSucceeds
  BY <1>3 DEF RemakeSucceeds
<1>4. CASE RemakeFails
  BY <1>4 DEF RemakeFails
<1> QED
  BY <1>1, <1>2, <1>3, <1>4

LEMMA GuardsKeep ==
  ASSUME GateInv, Resolve \/ CheckAccount \/ CheckRules \/ CheckApproval
  PROVE  GateInv'
<1> USE DEF GateInv, Rendered, UploadsAreReviewed, GateMoves, SpendsATry
<1>1. CASE Resolve
  BY <1>1 DEF Resolve
<1>2. CASE CheckAccount
  BY <1>2 DEF CheckAccount
<1>3. CASE CheckRules
  BY <1>3 DEF CheckRules, RulesAreFound
<1>4. CASE CheckApproval
  BY <1>4 DEF CheckApproval, StatusAt
<1> QED
  BY <1>1, <1>2, <1>3, <1>4

LEMMA UploadKeeps ==
  ASSUME GateInv, Upload \/ UploadFails
  PROVE  GateInv'
BY DEF GateInv, Rendered, UploadsAreReviewed, Upload, UploadFails, GateMoves, SpendsATry

LEMMA OperatorKeeps ==
  ASSUME GateInv, OperatorJudges
  PROVE  GateInv'
<1> USE DEF GateInv, Rendered, UploadsAreReviewed
<1>1. ASSUME NEW p \in Paths, NEW verdict \in {"approved", "rejected"}, Judge(p, verdict)
      PROVE  GateInv'
  BY <1>1 DEF Judge
<1>2. ASSUME NEW s \in {"healthy", "limited", "banned", "deleted"}, SetsStanding(s)
      PROVE  GateInv'
  BY <1>2 DEF SetsStanding
<1> QED
  BY <1>1, <1>2 DEF OperatorJudges

LEMMA GateStepKeeps ==
  ASSUME GateInv, [GateNext]_gateVars
  PROVE  GateInv'
<1>1. CASE GateNext
  BY <1>1, RemakeKeeps, GuardsKeep, UploadKeeps, OperatorKeeps DEF GateNext
<1>2. CASE UNCHANGED gateVars
  BY <1>2 DEF gateVars, GateInv, Rendered, UploadsAreReviewed
<1> QED
  BY <1>1, <1>2

\* Every upload is a render the operator has approved, for any paths and any
\* number of renders and attempts, though guards and verdicts interleave and a
\* render may happen after the review; a render that takes the path of an earlier
\* one is told apart (worker_runtime.py:288-327).
THEOREM ReviewedUploads == GateSpec => []UploadsAreReviewed
<1>1. GateInv => UploadsAreReviewed
  BY DEF GateInv
<1> QED
  BY GateStarts, GateStepKeeps, <1>1, PTL DEF GateSpec

-----------------------------------------------------------------------------
(* Recovery trumps all, for any niches, settings and bounds                *)

LEMMA MaxMin ==
  ASSUME NEW x \in Int, NEW y \in Int
  PROVE  Max({x, y}) = (IF x < y THEN y ELSE x) /\ Min({x, y}) = (IF x < y THEN x ELSE y)
  BY DEF Max, Min

Opened == /\ strategy.explore \in Int /\ strategy.explore >= 25
          /\ strategy.threshold \in Int /\ strategy.threshold <= 85

Floor == IF Cardinality(rated) \in 0 .. 2 THEN 25 ELSE 24

HandedOpen ==
  handed.mode = "recovery" =>
    handed.threshold <= 85 /\ handed.explore >= Floor

\* The gates of another mode may be anything.
RecoveryInv ==
  /\ DOMAIN strategy = {"mode", "low", "threshold", "explore"}
  /\ strategy.mode = "recovery" => Opened
  /\ HandedOpen

AllAtLeast(rates, k) == \A e \in rates : e \in Int /\ e >= k

LEMMA CapKeeps ==
  ASSUME NEW x \in Int, NEW k \in Int, k <= 30, x >= k
  PROVE  Min({x, 30}) \in Int /\ Min({x, 30}) >= k
<1>1. Min({x, 30}) = (IF x < 30 THEN x ELSE 30)
  BY MaxMin
<1> QED
  BY <1>1

\* The angles of a niche lower the rate by two points at most.
LEMMA ShiftedLowers ==
  ASSUME NEW rate \in Int, NEW k \in 7 .. 30, rate >= k
  PROVE  AllAtLeast(Shifted(rate), k - 2)
<1> DEFINE fewer == Max({rate - 2, 5})
<1>1. fewer = (IF rate - 2 < 5 THEN 5 ELSE rate - 2)
  BY MaxMin
<1>2. fewer \in Int /\ fewer >= k - 2
  BY <1>1
<1>3. Min({rate + 2, 30}) \in Int /\ Min({rate + 2, 30}) >= k - 2
  BY MaxMin
<1> HIDE DEF fewer
<1>4. Min({fewer + 2, 30}) \in Int /\ Min({fewer + 2, 30}) >= k - 2
  <2>1. /\ fewer + 2 \in Int /\ fewer + 2 >= k - 2
        /\ k - 2 \in Int /\ k - 2 <= 30
    BY <1>2
  <2> QED
    BY <2>1, CapKeeps, Zenon
<1>5. Shifted(rate) = {rate, fewer, Min({rate + 2, 30}), Min({fewer + 2, 30})}
  BY DEF Shifted, fewer
<1> QED
  BY <1>2, <1>3, <1>4, <1>5 DEF AllAtLeast

LEMMA AllShiftedLowers ==
  ASSUME NEW rates, NEW k \in 7 .. 30, AllAtLeast(rates, k)
  PROVE  AllAtLeast(AllShifted(rates), k - 2)
  BY ShiftedLowers DEF AllAtLeast, AllShifted

\* Trends and clusters raise it.
LEMMA HandedKeeps ==
  ASSUME NEW rate \in Int, NEW k \in 7 .. 30, AllAtLeast(AfterAngles(rate), k)
  PROVE  AllAtLeast(HandedRates(rate), k)
<1> SUFFICES ASSUME NEW h \in HandedRates(rate)
             PROVE  h \in Int /\ h >= k
  BY DEF AllAtLeast
<1>1. CASE h \in AfterAngles(rate)
  BY <1>1 DEF AllAtLeast
<1>2. ASSUME NEW e \in AfterAngles(rate), NEW more \in Raises, h = Min({e + more, 30})
      PROVE  h \in Int /\ h >= k
  <2>1. e \in Int /\ e >= k
    BY DEF AllAtLeast
  <2>2. more \in {2, 3, 5}
    BY DEF Raises
  <2>3. /\ e + more \in Int /\ e + more >= k
        /\ k \in Int /\ k <= 30
    BY <2>1, <2>2
  <2> QED
    BY <1>2, <2>3, CapKeeps, Zenon
<1> QED
  BY <1>1, <1>2 DEF HandedRates

\* A directive read while niches are rated starts from 30 points, another from 25.
LEMMA HandedOpenly ==
  ASSUME NEW rate \in Int, rate >= 25, Crowded => rate = 30
  PROVE  AllAtLeast(HandedRates(rate), Floor)
<1>1. Floor \in 7 .. 30 /\ Floor <= 25
  BY DEF Floor
<1>2. ~Crowded => Cardinality(rated) = 0
  BY FS_EmptySet DEF Crowded
<1>3. CASE Cardinality(rated) = 0
  <2>1. AfterAngles(rate) = {rate}
    BY <1>3 DEF AfterAngles
  <2> QED
    BY <1>1, <2>1, HandedKeeps DEF AllAtLeast
<1>4. CASE Cardinality(rated) # 0
  <2>1. rate = 30
    BY <1>2, <1>4
  <2>2. AllAtLeast(Shifted(rate), 28)
    BY <2>1, ShiftedLowers
  <2>3. AllAtLeast(AllShifted(Shifted(rate)), 26)
    BY <2>2, AllShiftedLowers
  <2>4. AllAtLeast(AllShifted(AllShifted(Shifted(rate))), 24)
    BY <2>3, AllShiftedLowers
  <2>5. AllAtLeast(AfterAngles(rate), Floor)
    <3>1. CASE Cardinality(rated) = 1
      BY <1>1, <2>2, <3>1 DEF AfterAngles, AllAtLeast
    <3>2. CASE Cardinality(rated) = 2
      BY <1>1, <2>3, <3>2 DEF AfterAngles, AllAtLeast
    <3>3. CASE Cardinality(rated) \notin {1, 2}
      BY <1>4, <2>4, <3>3 DEF AfterAngles, AllAtLeast, Floor
    <3> QED
      BY <3>1, <3>2, <3>3
  <2> QED
    BY <1>1, <2>5, HandedKeeps
<1> QED
  BY <1>3, <1>4

LEMMA AppliedOpens ==
  ASSUME NEW s, DOMAIN s = {"mode", "low", "threshold", "explore"}
  PROVE  /\ DOMAIN Applied(s) = DOMAIN s /\ Applied(s).mode = s.mode
         /\ s.mode = "recovery" => Applied(s).explore = 25 /\ Applied(s).threshold = 85
  BY DEF Applied

LEMMA ReadStep ==
  ASSUME RecoveryInv, ReadDirective
  PROVE  RecoveryInv'
<1>1. DOMAIN strategy' = DOMAIN strategy /\ strategy'.mode = strategy.mode
  BY DEF ReadDirective, RecoveryInv
<1>2. rated' = rated /\ Floor' = Floor
  BY DEF ReadDirective, Floor
<1>3. PICK e \in HandedRates(strategy'.explore) :
        handed' = [mode |-> strategy.mode, threshold |-> strategy'.threshold, explore |-> e]
  BY DEF ReadDirective
<1>4. CASE strategy.mode # "recovery"
  BY <1>1, <1>3, <1>4 DEF RecoveryInv, HandedOpen
<1>5. CASE strategy.mode = "recovery"
  <2> DEFINE wider == strategy.explore + 5
             looser == strategy.threshold - 5
  <2>1. Opened /\ wider \in Int /\ wider >= 30 /\ looser \in Int /\ looser <= 80
    BY <1>5 DEF RecoveryInv, Opened
  <2>2. Crowded => strategy'.explore = Min({wider, 30}) /\ strategy'.threshold = Max({looser, 70})
    BY DEF ReadDirective, RecoveryInv
  <2> HIDE DEF wider, looser
  <2>3. Min({wider, 30}) = 30 /\ Max({looser, 70}) \in Int /\ Max({looser, 70}) <= 85
    <3>1. Min({wider, 30}) = (IF wider < 30 THEN wider ELSE 30)
      BY <2>1, MaxMin
    <3>2. Max({looser, 70}) = (IF looser < 70 THEN 70 ELSE looser)
      BY <2>1, MaxMin
    <3> QED
      BY <2>1, <3>1, <3>2
  <2>4. ~Crowded => strategy' = strategy
    BY DEF ReadDirective
  <2>5. /\ strategy'.explore \in Int /\ strategy'.explore >= 25
        /\ strategy'.threshold \in Int /\ strategy'.threshold <= 85
    BY <2>1, <2>2, <2>3, <2>4 DEF Opened
  <2>6. Opened'
    BY <2>5 DEF Opened
  <2>7. AllAtLeast(HandedRates(strategy'.explore), Floor)
    <3>1. Crowded => strategy'.explore = 30
      BY <2>2, <2>3
    <3> QED
      BY <2>5, <3>1, HandedOpenly
  <2>8. handed'.threshold <= 85 /\ handed'.explore >= Floor
    BY <1>3, <2>5, <2>7 DEF AllAtLeast
  <2> QED
    BY <1>1, <1>2, <2>6, <2>8 DEF RecoveryInv, HandedOpen
<1> QED
  BY <1>4, <1>5

LEMMA RecoveryStep ==
  ASSUME RecoveryInv, [CeoNext]_ceoVars
  PROVE  RecoveryInv'
<1>1. CASE UNCHANGED ceoVars
  BY <1>1 DEF RecoveryInv, Opened, HandedOpen, Floor, ceoVars
<1>2. CASE ReadDirective
  BY <1>2, ReadStep
<1> SUFFICES ASSUME \/ OperatorOverrides \/ OperatorSetsMode \/ ScoreAccount \/ UpdateFromMetrics \/ CeoTick,
                    handed' = NoDirective
             PROVE  RecoveryInv'
  BY <1>1, <1>2 DEF CeoNext
<1>3. HandedOpen'
  BY DEF HandedOpen, NoDirective
<1>4. ASSUME strategy' = strategy
      PROVE  RecoveryInv'
  BY <1>3, <1>4 DEF RecoveryInv, Opened
<1>5. ASSUME NEW s, DOMAIN s = {"mode", "low", "threshold", "explore"}, strategy' = Applied(s)
      PROVE  RecoveryInv'
  BY <1>3, <1>5, AppliedOpens DEF RecoveryInv, Opened
<1>6. CASE OperatorSetsMode
  BY <1>5, <1>6 DEF OperatorSetsMode, RecoveryInv
<1>7. ASSUME NEW ratio \in Ratios, NEW wide \in BOOLEAN, strategy' = Switched(strategy, ratio, wide)
      PROVE  RecoveryInv'
  <2> DEFINE s == Recomputed([strategy EXCEPT !.low = LowStreak(strategy, ratio),
                                              !.mode = Mode(strategy, ratio, wide)], ratio)
  <2>1. DOMAIN s = {"mode", "low", "threshold", "explore"} /\ strategy' = Applied(s)
    BY <1>7 DEF Recomputed, Switched, RecoveryInv
  <2> HIDE DEF s
  <2> QED
    BY <1>5, <2>1
<1> QED
  BY <1>4, <1>6, <1>7
  DEF OperatorOverrides, ScoreAccount, UpdateFromMetrics, CeoTick

\* In recovery the saved gates stay open, whatever the operator sets, the metrics
\* report and however often the directive is read (ceo_brain.py:762), and so do the
\* gates handed out, to within one point of exploration.
THEOREM RecoveryAlwaysTrumps == CeoSpec => []RecoveryTrumps
<1>1. CeoInit => RecoveryInv
  BY DEF CeoInit, RecoveryInv, HandedOpen, NoDirective
<1>2. RecoveryInv => RecoveryTrumps
  BY DEF RecoveryInv, RecoveryTrumps, Opened, HandedOpen, Floor
<1> QED
  BY <1>1, <1>2, RecoveryStep, PTL DEF CeoSpec

-----------------------------------------------------------------------------
(* A block is respected, by any number of requests                         *)

AccountFields == {"status", "valid", "login", "provider", "manual"}

RequestFields == {"at", "provider", "manual", "status"}

\* Until a recount lifts it the block shows in the status, and a recount that the
\* block has not overtaken has read it there.
BlockInv ==
  /\ DOMAIN account = AccountFields
  /\ DOMAIN request = Logins /\ \A r \in Logins : DOMAIN request[r] = RequestFields
  /\ warned /\ ~lifted => account.status # "healthy"
  /\ warned /\ ~lifted => \A r \in Logins : At(r, "recounting") => request[r].status # "healthy"

\* What most steps leave as it was; none of their requests begins to recount.
StatusKept == DOMAIN account' = DOMAIN account /\ account'.status = account.status
MarksKept == warned' = warned /\ lifted' = lifted
NoneRecounts(r) ==
  /\ DOMAIN request' = Logins
  /\ DOMAIN request'[r] = RequestFields /\ request'[r].at # "recounting"
  /\ \A q \in Logins \ {r} : request'[q] = request[q]

LEMMA KeptIsEnough ==
  ASSUME BlockInv, NEW r \in Logins, StatusKept, MarksKept, NoneRecounts(r)
  PROVE  BlockInv'
  BY DEF BlockInv, StatusKept, MarksKept, NoneRecounts, At

\* The writes of the requests spare the status.
LEMMA WritesSpare ==
  ASSUME BlockInv, NEW v, NEW w,
         \/ account' = [account EXCEPT !.provider = v, !.manual = w]
         \/ account' = [account EXCEPT !.valid = v, !.login = w]
         \/ account' = [account EXCEPT !.valid = v]
         \/ account' = account
  PROVE  StatusKept
  BY DEF BlockInv, AccountFields, StatusKept

LEMMA Returning ==
  ASSUME BlockInv, NEW r \in Logins, Returns(r)
  PROVE  NoneRecounts(r)
  BY DEF Returns, Waiting, NoneRecounts, BlockInv, RequestFields

LEMMA Going ==
  ASSUME BlockInv, NEW r \in Logins, NEW place, place # "recounting",
         GoesTo(r, place) \/ Reads(r, place)
  PROVE  NoneRecounts(r)
  BY DEF GoesTo, Reads, Waiting, NoneRecounts, BlockInv, RequestFields

LEMMA LoginKeeps ==
  ASSUME BlockInv, NEW r \in Logins,
         \/ Connect(r) \/ ProfileOpens(r) \/ SeesLogin(r) \/ SavesSession(r) \/ StoresProfile(r)
         \/ RequestFails(r)
         \/ Confirm(r) \/ VerifySucceeds(r) \/ VerifyFails(r)
         \/ PatchReads(r) \/ PatchWrites(r)
  PROVE  BlockInv'
<1>1. StatusKept
  BY WritesSpare
  DEF StatusKept, Connect, ProfileOpens, SeesLogin, SavesSession, StoresProfile, RequestFails, Confirm,
      VerifySucceeds, VerifyFails, PatchReads, PatchWrites, Patched, LoggedIn
<1>2. MarksKept
  BY DEF MarksKept, Connect, ProfileOpens, SeesLogin, SavesSession, StoresProfile, RequestFails, Confirm,
         VerifySucceeds, VerifyFails, PatchReads, PatchWrites
<1>3. NoneRecounts(r)
  BY Returning, Going
  DEF Connect, ProfileOpens, SeesLogin, SavesSession, StoresProfile, RequestFails, Confirm,
      VerifySucceeds, VerifyFails, PatchReads, PatchWrites
<1> QED
  BY <1>1, <1>2, <1>3, KeptIsEnough

LEMMA BlockKeeps ==
  ASSUME BlockInv, NEW r \in Logins, SeesBlock(r)
  PROVE  BlockInv'
<1>1. account'.status = "limited" /\ DOMAIN account' = AccountFields
  BY DEF SeesBlock, Diagnosed, BlockInv, AccountFields
<1>2. /\ DOMAIN request' = Logins
      /\ \A q \in Logins : DOMAIN request'[q] = RequestFields /\ request'[q].at # "recounting"
  BY DEF SeesBlock, At, Waiting, BlockInv, RequestFields
<1> QED
  BY <1>1, <1>2 DEF BlockInv, At

LEMMA MarkKeeps ==
  ASSUME BlockInv, NEW r \in Logins, MarksConfirmed(r)
  PROVE  BlockInv'
  BY DEF MarksConfirmed, Returns, Waiting, BlockInv, AccountFields, RequestFields

LEMMA RecountKeeps ==
  ASSUME BlockInv, NEW r \in Logins, RecountReads(r) \/ RecountWrites(r)
  PROVE  BlockInv'
<1>1. CASE RecountReads(r)
  <2>1. DOMAIN account' = AccountFields /\ account'.status = account.status
    BY <1>1 DEF RecountReads, BlockInv, AccountFields
  <2>2. /\ DOMAIN request' = Logins /\ DOMAIN request'[r] = RequestFields
        /\ request'[r].status = account.status
        /\ \A q \in Logins \ {r} : request'[q] = request[q]
    BY <1>1 DEF RecountReads, BlockInv, Waiting, RequestFields
  <2> QED
    BY <1>1, <2>1, <2>2 DEF RecountReads, BlockInv, At
<1>2. CASE RecountWrites(r)
  <2>1. PICK s \in Escalated(request[r].status) : account' = [account EXCEPT !.status = s]
    BY <1>2 DEF RecountWrites
  <2>2. DOMAIN account' = AccountFields /\ account'.status = s
    BY <2>1 DEF BlockInv, AccountFields
  <2>3. s = "healthy" => request[r].status = "healthy"
    BY <2>1 DEF Escalated
  <2>4. /\ DOMAIN request' = Logins /\ DOMAIN request'[r] = RequestFields
        /\ request'[r].at = "none"
        /\ \A q \in Logins \ {r} : request'[q] = request[q]
    BY <1>2 DEF RecountWrites, Returns, BlockInv, Waiting, RequestFields
  <2>5. warned' /\ ~lifted' => warned /\ ~lifted /\ At(r, "recounting")
    BY <1>2 DEF RecountWrites
  <2> QED
    BY <2>2, <2>3, <2>4, <2>5 DEF BlockInv, At
<1> QED
  BY <1>1, <1>2

\* However many requests and publications watch, save, confirm and write back what
\* they have read: after a block the account is offered again by the operator, or
\* by a publication that had read its status before (accounts.py:523-640,
\* :967-1010; database.py:1747-1776).
THEOREM BlockAlwaysRespected == ConnectSpec => []BlockIsRespected
<1>1. ConnectInit => BlockInv
  BY DEF ConnectInit, BlockInv, AccountFields, RequestFields, Waiting, At
<1>2. ASSUME BlockInv, [ConnectNext]_connectVars PROVE BlockInv'
  <2>1. CASE OperatorSets
    BY <1>2, <2>1 DEF OperatorSets, BlockInv, AccountFields, At
  <2>2. CASE PublisherIsLoggedOut \/ PageTurns \/ UNCHANGED connectVars
    BY <1>2, <2>2 DEF PublisherIsLoggedOut, PageTurns, connectVars, BlockInv, AccountFields, At
  <2> QED
    BY <1>2, <2>1, <2>2, LoginKeeps, BlockKeeps, MarkKeeps, RecountKeeps DEF ConnectNext
<1>3. BlockInv => BlockIsRespected
  BY DEF BlockInv, BlockIsRespected, CanPublish
<1> QED
  BY <1>1, <1>2, <1>3, PTL DEF ConnectSpec

-----------------------------------------------------------------------------
(* Sessions are spaced, for any gaps, phases and number of calls           *)

LifeFields == {"age", "sessions", "uploads", "session", "upload", "cooldown", "anomalies"}

LifeOk(l) ==
  /\ DOMAIN l = LifeFields
  /\ l.age \in Int /\ l.age >= -1
  /\ l.session \in 0 .. Gap /\ l.upload \in 0 .. LongAgo

\* What the process knows of the last session and of the last upload.  After a
\* file too old to be read it knows nothing; then the upload is older than the
\* file, by the time the account has been warming up since.
SessionKnown(l) == "session" \in forgotten \/ l.session = real.session
UploadExact(l) == "upload" \in forgotten \/ l.upload = real.upload
UploadKnown(l) ==
  \/ UploadExact(l)
  \/ /\ l.upload = LongAgo
     /\ real.upload = LongAgo \/ (real.upload > StaleAfter /\ real.upload > StaleAfter + l.age)

PlanOk ==
  /\ DOMAIN plan = Plans
  /\ running \in BOOLEAN
  /\ ~running => \A p \in Plans : plan[p] = "idle"
  /\ LifeOk(life) /\ LifeOk(disk.life)
  /\ disk.age \in 0 .. StaleAfter + 1
  /\ DOMAIN real = {"session", "upload"} /\ real.session \in 0 .. Gap /\ real.upload \in 0 .. LongAgo

\* What is in the file is as old as the file.
FileAges ==
  /\ disk.life.session = Gap \/ disk.life.session >= disk.age
  /\ disk.life.upload = LongAgo \/ disk.life.upload >= disk.age

Knowledge ==
  /\ running => SessionKnown(life) /\ UploadKnown(life)
  /\ ~running => SessionKnown(disk.life) /\ UploadExact(disk.life)

PlanInv == PlanOk /\ FileAges /\ Knowledge

LEMMA Limits ==
  /\ Gap \in Nat /\ WarmUp \in Nat /\ RampUp \in Nat /\ StaleAfter \in Nat /\ LongAgo \in Nat
  /\ Gap <= StaleAfter + 1 /\ LongAgo <= StaleAfter + 1 + WarmUp
  /\ UploadGap["RAMP_UP"] <= LongAgo /\ UploadGap["NORMAL"] <= LongAgo
  BY PlanAssumption DEF LongAgo

LEMMA UndatedOk ==
  ASSUME NEW l, LifeOk(l)
  PROVE  /\ LifeOk(Undated(l)) /\ Undated(l).age = l.age
         /\ Undated(l).session = l.session /\ Undated(l).upload = l.upload
  BY DEF LifeOk, LifeFields, Undated

LEMMA UnknownOk == LifeOk(Unknown) /\ Unknown.age = -1 /\ Unknown.session = Gap /\ Unknown.upload = LongAgo
  BY Limits DEF Unknown, Unregistered, LifeOk, LifeFields

LEMMA RegisteredOk ==
  ASSUME NEW l, LifeOk(l)
  PROVE  /\ LifeOk(Registered(l))
         /\ Registered(l).session = l.session /\ Registered(l).upload = l.upload
         /\ Registered(l).age = l.age \/ (l.age = -1 /\ Registered(l).age = 0)
  BY DEF LifeOk, LifeFields, Registered, Unregistered

LEMMA AgedOk ==
  ASSUME NEW l, LifeOk(l), NEW midnight \in BOOLEAN
  PROVE  /\ LifeOk(Aged(l, midnight))
         /\ Aged(l, midnight).session = Older(l.session, Gap)
         /\ Aged(l, midnight).upload = Older(l.upload, LongAgo)
         /\ Aged(l, midnight).age <= l.age + 1
  BY Limits DEF LifeOk, LifeFields, Aged, Older, Unregistered

LEMMA AnomalyOk ==
  ASSUME NEW l, LifeOk(l), NEW o
  PROVE  /\ LifeOk(WithAnomaly(l, o)) /\ WithAnomaly(l, o).age = l.age
         /\ WithAnomaly(l, o).session = l.session /\ WithAnomaly(l, o).upload = l.upload
  BY DEF LifeOk, LifeFields, WithAnomaly, Cooled

LEMMA UploadOk ==
  ASSUME NEW l, LifeOk(l)
  PROVE  /\ LifeOk(WithUpload(l)) /\ WithUpload(l).age = l.age /\ WithUpload(l).session = l.session
         /\ WithUpload(l).upload = IF Counted(l) THEN 0 ELSE l.upload
  BY Limits DEF LifeOk, LifeFields, WithUpload

LEMMA PlanStarts == PlanInit => PlanInv
<1> SUFFICES ASSUME PlanInit PROVE PlanInv
  OBVIOUS
<1>1. PICK a \in Unregistered .. RampUp : life = [Unknown EXCEPT !.age = a]
  BY DEF PlanInit
<1>2. LifeOk(life) /\ life.session = Gap /\ life.upload = LongAgo
  BY <1>1, Limits DEF LifeOk, LifeFields, Unknown, Unregistered
<1>3. disk.life = Unknown /\ disk.age = StaleAfter + 1
  BY DEF PlanInit, NoSnapshot
<1>4. real = [session |-> Gap, upload |-> LongAgo] /\ running = TRUE
  BY DEF PlanInit
<1>5. PlanOk
  BY <1>2, <1>3, <1>4, UnknownOk, Limits DEF PlanInit, PlanOk
<1>6. FileAges
  BY <1>3, UnknownOk DEF FileAges
<1>7. Knowledge
  BY <1>2, <1>4 DEF Knowledge, SessionKnown, UploadKnown, UploadExact
<1> QED
  BY <1>5, <1>6, <1>7 DEF PlanInv

\* A step that keeps the records and the file, and what is known of them.
LEMMA SameAges ==
  ASSUME PlanInv, DOMAIN plan' = Plans, running' = TRUE, running = TRUE, disk' = disk,
         real' = real, forgotten' = forgotten,
         life' = life \/ (\E l : LifeOk(l) /\ life' = l /\ l.session = life.session
                                 /\ l.upload = life.upload
                                 /\ (l.age = life.age \/ (life.age = -1 /\ l.age = 0)))
  PROVE  PlanInv'
<1>1. /\ LifeOk(life') /\ life'.session = life.session /\ life'.upload = life.upload
      /\ life'.age = life.age \/ (life.age = -1 /\ life'.age = 0)
  BY DEF PlanInv, PlanOk
<1>2. PlanOk'
  BY <1>1 DEF PlanInv, PlanOk, LifeOk
<1>3. FileAges'
  BY DEF PlanInv, FileAges
<1>4. Knowledge'
  BY <1>1, Limits DEF PlanInv, PlanOk, LifeOk, Knowledge, SessionKnown, UploadKnown, UploadExact
<1> QED
  BY <1>2, <1>3, <1>4 DEF PlanInv

LEMMA CallKeeps ==
  ASSUME PlanInv, NEW p \in Plans, Ask(p) \/ GateSkips(p)
  PROVE  PlanInv'
<1>1. running = TRUE
  BY DEF Ask, GateSkips, PlanInv, PlanOk
<1>2. CASE Ask(p)
  BY <1>1, <1>2, SameAges DEF Ask, PlanInv, PlanOk
<1>3. CASE GateSkips(p)
  BY <1>1, <1>3, SameAges, RegisteredOk DEF GateSkips, PlanInv, PlanOk
<1> QED
  BY <1>2, <1>3

LEMMA OperatorKeepsPlan ==
  ASSUME PlanInv, OperatorActs
  PROVE  PlanInv'
<1> DEFINE l == Registered(life)
<1>1. LifeOk(l) /\ l.session = life.session /\ l.upload = life.upload
      /\ (l.age = life.age \/ (life.age = -1 /\ l.age = 0))
  BY RegisteredOk DEF PlanInv, PlanOk
<1>2. \/ \E c : life' = [l EXCEPT !.cooldown = c]
      \/ life' = [l EXCEPT !.cooldown = 0, !.anomalies = 0]
      \/ life' = life
  BY DEF OperatorActs, Cooled
<1>3. life' = life \/ (LifeOk(life') /\ life'.session = l.session /\ life'.upload = l.upload
                       /\ life'.age = l.age)
  <2> HIDE DEF l
  <2> QED
    BY <1>1, <1>2 DEF LifeOk, LifeFields
<1> HIDE DEF l
<1> QED
  BY <1>1, <1>3, SameAges DEF OperatorActs, PlanInv, PlanOk

LEMMA AdmitKeeps ==
  ASSUME PlanInv, NEW p \in Plans, GateAdmits(p)
  PROVE  PlanInv'
<1> DEFINE l == Registered(life)
<1>1. LifeOk(l) /\ l.upload = life.upload /\ (l.age = life.age \/ (life.age = -1 /\ l.age = 0))
  BY RegisteredOk DEF PlanInv, PlanOk
<1>2. life' = [l EXCEPT !.sessions = @ + 1, !.session = 0]
  BY DEF GateAdmits
<1> HIDE DEF l
<1>3. LifeOk(life') /\ life'.session = 0 /\ life'.upload = l.upload /\ life'.age = l.age
  BY <1>1, <1>2, Limits DEF LifeOk, LifeFields
<1>4. running /\ running' = running /\ disk' = disk /\ DOMAIN plan' = Plans
  BY DEF GateAdmits, PlanInv, PlanOk
<1>5. /\ DOMAIN real' = {"session", "upload"} /\ real'.session = 0 /\ real'.upload = real.upload
      /\ "upload" \in forgotten' <=> "upload" \in forgotten
  BY DEF GateAdmits, PlanInv, PlanOk
<1>6. PlanOk'
  BY <1>3, <1>4, <1>5, Limits DEF PlanInv, PlanOk, LifeOk
<1>7. FileAges'
  BY <1>4 DEF PlanInv, FileAges
<1>8. Knowledge'
  BY <1>1, <1>3, <1>4, <1>5, Limits
  DEF PlanInv, PlanOk, LifeOk, Knowledge, SessionKnown, UploadKnown, UploadExact
<1> QED
  BY <1>6, <1>7, <1>8 DEF PlanInv

LEMMA EndKeeps ==
  ASSUME PlanInv, NEW p \in Plans, NEW u \in BOOLEAN, NEW o, SessionEnds(p, u, o)
  PROVE  PlanInv'
<1> DEFINE l == IF u THEN WithUpload(life) ELSE life
<1>1. LifeOk(l) /\ l.age = life.age /\ l.session = life.session
      /\ l.upload = IF u /\ Counted(life) THEN 0 ELSE life.upload
  BY UploadOk DEF PlanInv, PlanOk
<1>2. life' = WithAnomaly(l, o)
  BY DEF SessionEnds
<1> HIDE DEF l
<1>3. LifeOk(life') /\ life'.age = life.age /\ life'.session = life.session
      /\ life'.upload = IF u /\ Counted(life) THEN 0 ELSE life.upload
  BY <1>1, <1>2, AnomalyOk
<1>4. running /\ running' = running /\ DOMAIN plan' = Plans
  BY DEF SessionEnds, InSession, Intents, PlanInv, PlanOk
<1>5. \/ disk' = disk
      \/ /\ disk'.age = 0 /\ LifeOk(disk'.life) /\ disk'.life.age = life'.age
         /\ disk'.life.session = life'.session /\ disk'.life.upload = life'.upload
  BY <1>3, UndatedOk DEF SessionEnds, Saves
<1>6. /\ DOMAIN real' = {"session", "upload"} /\ real'.session = real.session
      /\ real'.upload = IF u THEN 0 ELSE real.upload
  BY DEF SessionEnds, PlanInv, PlanOk
<1>7. /\ "session" \in forgotten' <=> "session" \in forgotten
      /\ ~u => ("upload" \in forgotten' <=> "upload" \in forgotten)
      /\ u /\ ~Counted(life) => "upload" \in forgotten'
  BY DEF SessionEnds
<1>8. PlanOk'
  BY <1>3, <1>4, <1>5, <1>6, Limits DEF PlanInv, PlanOk, LifeOk
<1>9. FileAges'
  BY <1>3, <1>5, Limits DEF PlanInv, PlanOk, FileAges, LifeOk
<1>10. Knowledge'
  BY <1>3, <1>4, <1>6, <1>7 DEF PlanInv, PlanOk, Knowledge, SessionKnown, UploadKnown, UploadExact
<1> QED
  BY <1>8, <1>9, <1>10 DEF PlanInv

LEMMA TickKeeps ==
  ASSUME PlanInv, Tick
  PROVE  PlanInv'
<1> DEFINE midnight == hour + 1 = Day
<1>1. midnight \in BOOLEAN
  OBVIOUS
<1>2. life' = Aged(life, midnight) /\ disk'.life = Aged(disk.life, midnight)
      /\ disk'.age = Older(disk.age, StaleAfter + 1)
      /\ real' = [session |-> Older(real.session, Gap), upload |-> Older(real.upload, LongAgo)]
      /\ plan' = plan /\ running' = running /\ forgotten' = forgotten
  BY DEF Tick
<1> HIDE DEF midnight
<1>3. /\ LifeOk(life') /\ life'.session = Older(life.session, Gap)
      /\ life'.upload = Older(life.upload, LongAgo) /\ life'.age <= life.age + 1
  BY <1>1, <1>2, AgedOk DEF PlanInv, PlanOk
<1>4. /\ LifeOk(disk'.life) /\ disk'.life.session = Older(disk.life.session, Gap)
      /\ disk'.life.upload = Older(disk.life.upload, LongAgo)
  BY <1>1, <1>2, AgedOk DEF PlanInv, PlanOk
<1>5. PlanOk'
  BY <1>2, <1>3, <1>4, Limits DEF PlanInv, PlanOk, Older
<1>6. FileAges'
  BY <1>2, <1>4, Limits DEF PlanInv, PlanOk, LifeOk, FileAges, Older
<1>7. Knowledge'
  BY <1>2, <1>3, <1>4, Limits
  DEF PlanInv, PlanOk, LifeOk, Knowledge, SessionKnown, UploadKnown, UploadExact, Older
<1> QED
  BY <1>5, <1>6, <1>7 DEF PlanInv

LEMMA StopKeeps ==
  ASSUME PlanInv, ProcessStops
  PROVE  PlanInv'
<1>1. running' = FALSE /\ life' = Unknown /\ disk' = disk /\ real' = real
      /\ plan' = [p \in Plans |-> "idle"]
  BY DEF ProcessStops
<1>2. /\ "session" \in forgotten' \/ disk.life.session = real.session
      /\ "upload" \in forgotten' \/ disk.life.upload = real.upload
  BY DEF ProcessStops
<1>3. PlanOk'
  BY <1>1, UnknownOk DEF PlanInv, PlanOk, LifeOk
<1>4. FileAges'
  BY <1>1 DEF PlanInv, FileAges
<1>5. Knowledge'
  BY <1>1, <1>2 DEF Knowledge, SessionKnown, UploadExact
<1> QED
  BY <1>3, <1>4, <1>5 DEF PlanInv

LEMMA StartKeeps ==
  ASSUME PlanInv, ProcessStarts
  PROVE  PlanInv'
<1>1. ~running /\ running' = TRUE /\ disk' = disk /\ plan' = plan /\ real' = real
      /\ forgotten' = forgotten
  BY DEF ProcessStarts
<1>2. life' = IF disk.age <= StaleAfter THEN disk.life ELSE Unknown
  BY DEF ProcessStarts, Restored
<1>3. PlanOk'
  BY <1>1, <1>2, UnknownOk DEF PlanInv, PlanOk, LifeOk
<1>4. FileAges'
  BY <1>1 DEF PlanInv, FileAges
<1>5. CASE disk.age <= StaleAfter
  BY <1>1, <1>2, <1>3, <1>4, <1>5
  DEF PlanInv, Knowledge, SessionKnown, UploadKnown, UploadExact
<1>6. CASE ~(disk.age <= StaleAfter)
  <2>1. disk.age = StaleAfter + 1
    BY <1>6, Limits DEF PlanInv, PlanOk
  <2>2. disk.life.session = Gap
    BY <2>1, Limits DEF PlanInv, PlanOk, LifeOk, FileAges
  <2>3. disk.life.upload = LongAgo \/ disk.life.upload > StaleAfter
    BY <2>1, Limits DEF PlanInv, PlanOk, LifeOk, FileAges
  <2>4. Knowledge'
    BY <1>1, <1>2, <1>6, <2>2, <2>3, UnknownOk, Limits
    DEF PlanInv, PlanOk, LifeOk, Knowledge, SessionKnown, UploadKnown, UploadExact
  <2> QED
    BY <1>3, <1>4, <2>4 DEF PlanInv
<1> QED
  BY <1>5, <1>6

LEMMA StutterKeepsPlan ==
  ASSUME PlanInv, UNCHANGED planVars
  PROVE  PlanInv'
  BY DEF planVars, PlanInv, PlanOk, LifeOk, FileAges, Knowledge, SessionKnown, UploadKnown, UploadExact

LEMMA PlanStepKeeps ==
  ASSUME PlanInv, [PlanNext]_planVars
  PROVE  PlanInv'
  BY CallKeeps, AdmitKeeps, EndKeeps, OperatorKeepsPlan, TickKeeps, StopKeeps, StartKeeps,
     StutterKeepsPlan
  DEF PlanNext

\* A session starts by being admitted.
LEMMA StartsAreAdmitted ==
  ASSUME PlanInv, [PlanNext]_planVars, NEW p \in Plans, Starts(p)
  PROVE  GateAdmits(p)
<1>1. ASSUME NEW q \in Plans, NEW v, plan' = [plan EXCEPT ![q] = v], v \notin Intents
      PROVE  FALSE
  BY <1>1 DEF Starts, InSession, PlanInv, PlanOk
<1>2. "idle" \notin Intents /\ "delayed" \notin Intents
  BY DEF Intents
<1>3. ASSUME NEW q \in Plans, Ask(q) \/ GateSkips(q) PROVE FALSE
  BY <1>1, <1>2, <1>3 DEF Ask, GateSkips
<1>4. ASSUME NEW q \in Plans, NEW u \in BOOLEAN, NEW o, SessionEnds(q, u, o) PROVE FALSE
  BY <1>1, <1>2, <1>4 DEF SessionEnds
<1>5. ASSUME plan' = plan \/ plan' = [r \in Plans |-> "idle"] PROVE FALSE
  BY <1>2, <1>5 DEF Starts, InSession
<1>6. ~(OperatorActs \/ Tick \/ ProcessStops \/ ProcessStarts \/ UNCHANGED planVars)
  BY <1>5 DEF OperatorActs, Tick, ProcessStops, ProcessStarts, planVars
<1>7. PICK q \in Plans : GateAdmits(q)
  BY <1>3, <1>4, <1>6 DEF PlanNext
<1>8. q = p
  BY <1>7 DEF GateAdmits, Starts, InSession, PlanInv, PlanOk
<1> QED
  BY <1>7, <1>8

\* However many calls of plan_session wait out their delay at once, and however
\* often the process dies and finds its file, or finds it too old: sessions and
\* uploads of an account keep their distance (lifecycle_manager.py:224-300).
THEOREM SessionsKeepDistance == PlanSpec => SessionsSpaced
<1>1. ASSUME PlanInv, [PlanNext]_planVars, NEW p \in Plans, Starts(p)
      PROVE  /\ real.session >= Gap \/ "session" \in forgotten
             /\ plan'[p] = "UPLOAD" =>
                  real.upload >= UploadGap[Phase(life)] \/ "upload" \in forgotten
  <2>1. GateAdmits(p)
    BY <1>1, StartsAreAdmitted
  <2>2. running /\ life.session >= Gap
    BY <1>1, <2>1 DEF GateAdmits, SessionDue, PlanInv, PlanOk
  <2>3. real.session >= Gap \/ "session" \in forgotten
    BY <1>1, <2>2 DEF PlanInv, Knowledge, SessionKnown
  <2>4. ASSUME plan'[p] = "UPLOAD"
        PROVE  real.upload >= UploadGap[Phase(life)] \/ "upload" \in forgotten
    <3>1. PICK raw \in RawIntents : \E intent \in Allowed(raw) : plan' = [plan EXCEPT ![p] = intent]
      BY <2>1 DEF GateAdmits
    <3>2. "UPLOAD" \in Allowed(raw)
      BY <1>1, <2>4, <3>1 DEF PlanInv, PlanOk
    <3>3. UploadDue(life)
      BY <3>2 DEF Allowed
    <3>4. Phase(life) \in {"RAMP_UP", "NORMAL"} /\ life.upload >= UploadGap[Phase(life)]
      BY <3>3 DEF UploadDue
    <3>5. UploadGap[Phase(life)] <= LongAgo
      BY <3>4, Limits
    <3>6. life.age >= WarmUp
      BY <1>1, <3>4, Limits DEF Phase, PlanInv, PlanOk, LifeOk
    <3>7. UploadGap[Phase(life)] \in Nat
      BY <3>4, PlanAssumption
    <3> QED
      BY <1>1, <2>2, <3>4, <3>5, <3>6, <3>7, Limits
      DEF PlanInv, PlanOk, LifeOk, Knowledge, UploadKnown, UploadExact
  <2> QED
    BY <2>3, <2>4
<1>2. PlanInv /\ [PlanNext]_planVars => [\A p \in Plans : Starts(p) =>
       /\ real.session >= Gap \/ "session" \in forgotten
       /\ plan'[p] = "UPLOAD" =>
         real.upload >= UploadGap[Phase(life)] \/ "upload" \in forgotten]_planVars
  BY <1>1
<1> QED
  BY <1>2, PlanStarts, PlanStepKeeps, PTL DEF PlanSpec, SessionsSpaced

-----------------------------------------------------------------------------
(* The review decides, for any items, jobs and mishaps                     *)

CycleFields == {"at", "items", "rows", "job", "tried"}

QueueType ==
  /\ review \in [Items -> Reviews]
  /\ DOMAIN row = Jobs
  /\ \A j \in Jobs : DOMAIN row[j] = {"item", "page", "status", "due"}
                     /\ (row[j].status = "absent" => row[j].item = NoItem)
  /\ DOMAIN cycle = CycleFields
  /\ mishaps \in Nat

Dispatching(i) == cycle.at = "dispatching" /\ i \in cycle.items

\* What the cycle is about to queue or to mark is approved.
BatchIsApproved ==
  /\ cycle.at = "enqueueing" =>
       cycle.items \subseteq Items /\ \A i \in cycle.items : review[i] = "approved"
  /\ cycle.at = "dispatching" =>
       /\ cycle.rows \subseteq Items /\ \A i \in cycle.items \cup cycle.rows : review[i] = "approved"
       /\ \E i \in Items : cycle.items = {i} /\ i \notin cycle.rows

\* The rows of an item are paid for by mishaps, but for the one it is given.
Paid(i) ==
  /\ review[i] \in {"absent", "pending", "rejected"} => RowsOf(i) = {}
  /\ review[i] = "approved" /\ ~Dispatching(i) => Cardinality(RowsOf(i)) <= mishaps
  /\ Cardinality(RowsOf(i)) <= 1 + mishaps

QueueInv == QueueType /\ BatchIsApproved /\ \A i \in Items : Paid(i)

LEMMA RowsAreFinite ==
  ASSUME NEW i
  PROVE  IsFiniteSet(RowsOf(i)) /\ Cardinality(RowsOf(i)) \in Nat
<1>1. RowsOf(i) \subseteq Jobs
  BY DEF RowsOf
<1> QED
  BY <1>1, PostAssumption, FS_Subset, FS_CardinalityType

\* Rows keep their items in every step but that of the queueing.
SameRows ==
  /\ DOMAIN row' = Jobs
  /\ \A j \in Jobs : DOMAIN row'[j] = {"item", "page", "status", "due"} /\ row'[j].item = row[j].item
                     /\ (row'[j].status = "absent" => row[j].status = "absent")

LEMMA SameRowsOf ==
  ASSUME SameRows
  PROVE  \A i : RowsOf(i)' = RowsOf(i)
  BY DEF SameRows, RowsOf

LEMMA RowUpdateKeeps ==
  ASSUME QueueInv, NEW j, NEW v,
         \/ row' = row
         \/ row' = [row EXCEPT ![j].due = v]
         \/ v # "absent" /\ row' = [row EXCEPT ![j].status = v]
  PROVE  SameRows
  BY DEF QueueInv, QueueType, SameRows

\* A step that queues nothing and reviews nothing.
LEMMA QuietKeeps ==
  ASSUME QueueInv, SameRows, review' = review, mishaps' \in Nat, mishaps' >= mishaps,
         DOMAIN cycle' = CycleFields, cycle'.at \notin {"enqueueing", "dispatching"},
         cycle.at = "dispatching" => mishaps' > mishaps
  PROVE  QueueInv'
<1>1. QueueType'
  BY DEF QueueInv, QueueType, SameRows
<1>2. BatchIsApproved'
  BY DEF BatchIsApproved
<1>3. ASSUME NEW i \in Items PROVE Paid(i)'
  <2>1. RowsOf(i)' = RowsOf(i) /\ Cardinality(RowsOf(i)) \in Nat
    BY SameRowsOf, RowsAreFinite
  <2> QED
    BY <2>1 DEF QueueInv, QueueType, Paid, Dispatching
<1> QED
  BY <1>1, <1>2, <1>3 DEF QueueInv

\* A step that keeps the cycle as well.
LEMMA OutsideKeeps ==
  ASSUME QueueInv, SameRows, review' = review, mishaps' = mishaps,
         DOMAIN cycle' = CycleFields, cycle'.at = cycle.at, cycle'.items = cycle.items,
         cycle'.rows = cycle.rows
  PROVE  QueueInv'
<1>1. QueueType' /\ BatchIsApproved'
  BY DEF QueueInv, QueueType, SameRows, BatchIsApproved
<1>2. ASSUME NEW i \in Items PROVE Paid(i)'
  BY <1>2, SameRowsOf DEF QueueInv, Paid, Dispatching
<1> QED
  BY <1>1, <1>2 DEF QueueInv

LEMMA QueueStarts ==
  ASSUME NEW left \in Leftovers, PostInit(left)
  PROVE  QueueInv
<1>1. /\ row = left /\ cycle = AtRest /\ mishaps = 0
      /\ review = [i \in Items |-> IF i \in {left[j].item : j \in Jobs} \ {NoItem}
                                   THEN "dispatched" ELSE "absent"]
  BY DEF PostInit, ReviewInit
<1>2. \A j \in Jobs : left[j] \in QueuedRow \/ left[j] = Unused
  BY DEF Leftovers
<1>3. QueueType
  BY <1>1, <1>2 DEF QueueType, Leftovers, QueuedRow, Unused, AtRest, CycleFields, Reviews
<1>4. BatchIsApproved
  BY <1>1 DEF BatchIsApproved, AtRest
<1>5. ASSUME NEW i \in Items PROVE Paid(i)
  <2>1. i # NoItem
    BY PostAssumption
  <2>2. review[i] = "absent" => RowsOf(i) = {}
    BY <1>1, <2>1 DEF RowsOf
  <2>3. RowsOf(i) = {} \/ \E j \in Jobs : RowsOf(i) = {j}
    BY <1>1, <2>1 DEF RowsOf, Leftovers, Unused
  <2>4. Cardinality(RowsOf(i)) <= 1
    BY <2>3, FS_EmptySet, FS_Singleton
  <2> QED
    BY <1>1, <2>2, <2>4 DEF Paid
<1> QED
  BY <1>3, <1>4, <1>5 DEF QueueInv

\* A review of an item that has no rows.
LEMMA ReviewKeeps ==
  ASSUME QueueInv, NEW i \in Items, review[i] \in {"absent", "pending"},
         NEW v \in Reviews, review' = [review EXCEPT ![i] = v],
         row' = row, mishaps' = mishaps, DOMAIN cycle' = CycleFields,
         \/ cycle' = cycle
         \/ cycle'.at \notin {"enqueueing", "dispatching"} /\ cycle.at # "dispatching"
  PROVE  QueueInv'
<1>1. RowsOf(i) = {} /\ Cardinality(RowsOf(i)) = 0
  BY FS_EmptySet DEF QueueInv, Paid
<1>2. QueueType'
  BY DEF QueueInv, QueueType
<1>3. BatchIsApproved'
  BY DEF QueueInv, QueueType, BatchIsApproved
<1>4. \A k : RowsOf(k)' = RowsOf(k)
  BY DEF RowsOf
<1>5. Paid(i)'
  <2>1. RowsOf(i)' = {} /\ Cardinality(RowsOf(i)') = 0
    BY <1>1, <1>4
  <2>2. mishaps' \in Nat /\ Cardinality(RowsOf(i)') <= mishaps' /\ Cardinality(RowsOf(i)') <= 1 + mishaps'
    BY <2>1 DEF QueueInv, QueueType
  <2> QED
    BY <2>1, <2>2 DEF Paid
<1>6. ASSUME NEW k \in Items, k # i PROVE Paid(k)'
  BY <1>4, <1>6 DEF QueueInv, QueueType, Paid, Dispatching
<1> QED
  BY <1>2, <1>3, <1>5, <1>6 DEF QueueInv

LEMMA CycleBeginsKeeps ==
  ASSUME QueueInv, CycleBegins
  PROVE  QueueInv'
<1>1. /\ row' = row /\ mishaps' = mishaps /\ DOMAIN cycle' = CycleFields /\ cycle'.at = "submitted"
      /\ cycle.at = "resting"
  BY DEF CycleBegins, Goes, QueueInv, QueueType, postVars, AtRest
<1>2. CASE review' = review
  <2>1. SameRows
    BY <1>1, RowUpdateKeeps
  <2> QED
    BY <1>1, <1>2, <2>1, QuietKeeps DEF QueueInv, QueueType
<1>3. ASSUME NEW i \in Items, Submit(i) PROVE QueueInv'
  <2>1. PICK v \in Reviews : review' = [review EXCEPT ![i] = v]
    BY <1>3 DEF Submit, Reviews
  <2>2. review[i] \in {"absent", "pending"}
    BY <1>3 DEF Submit
  <2> QED
    BY <1>1, <2>1, <2>2, ReviewKeeps
<1> QED
  BY <1>2, <1>3 DEF CycleBegins

LEMMA JudgeKeeps ==
  ASSUME QueueInv, OperatorReviews
  PROVE  QueueInv'
<1>1. PICK i \in Items : Approve(i) \/ Reject(i)
  BY DEF OperatorReviews
<1>2. review[i] = "pending" /\ \E v \in Reviews : review' = [review EXCEPT ![i] = v]
  BY <1>1 DEF Approve, Reject, Moves, Reviews
<1>3. row' = row /\ mishaps' = mishaps /\ cycle' = cycle /\ DOMAIN cycle' = CycleFields
  BY DEF OperatorReviews, postVars, QueueInv, QueueType
<1> QED
  BY <1>2, <1>3, ReviewKeeps

LEMMA ReadKeeps ==
  ASSUME QueueInv, ReadApproved
  PROVE  QueueInv'
<1>1. PICK T \in SUBSET {i \in Items : review[i] = "approved"} :
        cycle' = [cycle EXCEPT !.at = "enqueueing", !.items = T]
  BY DEF ReadApproved, Approved
<1>2. cycle.at = "submitted" /\ row' = row /\ review' = review /\ mishaps' = mishaps
  BY DEF ReadApproved, postVars
<1>3. QueueType'
  BY <1>1, <1>2 DEF QueueInv, QueueType, CycleFields
<1>4. cycle'.at = "enqueueing" /\ cycle'.items = T
  BY <1>1 DEF QueueInv, QueueType, CycleFields
<1>5. BatchIsApproved'
  BY <1>2, <1>4 DEF BatchIsApproved
<1>6. ASSUME NEW i \in Items PROVE Paid(i)'
  BY <1>2, <1>4, <1>6 DEF QueueInv, Paid, Dispatching, RowsOf
<1> QED
  BY <1>3, <1>5, <1>6 DEF QueueInv

LEMMA EnqueueKeeps ==
  ASSUME QueueInv, NEW i \in Items, Enqueue(i)
  PROVE  QueueInv'
<1>1. /\ cycle.at = "enqueueing" /\ i \in cycle.items /\ review' = review
      /\ cycle' = [cycle EXCEPT !.at = "dispatching", !.items = {i}, !.rows = cycle.items \ {i}]
  BY DEF Enqueue
<1>2. /\ DOMAIN cycle' = CycleFields /\ cycle'.at = "dispatching" /\ cycle'.items = {i}
      /\ cycle'.rows = cycle.items \ {i}
  BY <1>1 DEF QueueInv, QueueType, CycleFields
<1>3. BatchIsApproved'
  BY <1>1, <1>2 DEF QueueInv, BatchIsApproved
<1>4. Cardinality(RowsOf(i)) <= mishaps /\ Cardinality(RowsOf(i)) \in Nat /\ mishaps \in Nat
  BY <1>1, RowsAreFinite DEF QueueInv, QueueType, BatchIsApproved, Paid, Dispatching
<1>5. CASE row' = row /\ mishaps' = mishaps + 1
  <2>1. QueueType'
    BY <1>1, <1>2, <1>5 DEF QueueInv, QueueType
  <2>2. ASSUME NEW k \in Items PROVE Paid(k)'
    <3>1. RowsOf(k)' = RowsOf(k) /\ Cardinality(RowsOf(k)) \in Nat
      BY <1>5, RowsAreFinite DEF RowsOf
    <3> QED
      BY <1>1, <1>2, <1>4, <1>5, <2>2, <3>1 DEF QueueInv, Paid, Dispatching
  <2> QED
    BY <1>3, <2>1, <2>2 DEF QueueInv
<1>6. CASE QueueJob(i) /\ mishaps' = mishaps
  <2>1. PICK j \in Jobs : /\ row[j].status = "absent"
                          /\ \E due \in BOOLEAN, p \in PostPages \cup {NoPage} :
                               row' = [row EXCEPT ![j] = [item |-> i, page |-> p,
                                                          status |-> "queued", due |-> due]]
    BY <1>6 DEF QueueJob
  <2>2. QueueType'
    BY <1>1, <1>2, <1>6, <2>1 DEF QueueInv, QueueType
  <2>3. row[j].item = NoItem
    BY <2>1 DEF QueueInv, QueueType
  <2>4. \A k \in Items \ {i} : RowsOf(k)' = RowsOf(k)
    BY <2>1, <2>3, PostAssumption DEF RowsOf, QueueInv, QueueType
  <2>5. RowsOf(i)' = RowsOf(i) \cup {j} /\ j \notin RowsOf(i)
    BY <2>1, <2>3, PostAssumption DEF RowsOf, QueueInv, QueueType
  <2>6. Cardinality(RowsOf(i)') = Cardinality(RowsOf(i)) + 1
    BY <2>5, RowsAreFinite, FS_AddElement
  <2>7. Paid(i)'
    BY <1>1, <1>2, <1>4, <1>6, <2>6 DEF QueueInv, BatchIsApproved, Paid, Dispatching
  <2>8. ASSUME NEW k \in Items, k # i PROVE Paid(k)'
    BY <1>1, <1>2, <1>6, <2>4, <2>8 DEF QueueInv, Paid, Dispatching
  <2> QED
    BY <1>3, <2>2, <2>7, <2>8 DEF QueueInv
<1> QED
  BY <1>5, <1>6 DEF Enqueue, WriteIsLost

LEMMA DispatchKeeps ==
  ASSUME QueueInv, NEW i \in Items, Dispatch(i)
  PROVE  QueueInv'
<1>1. /\ cycle.at = "dispatching" /\ i \in cycle.items /\ row' = row
      /\ cycle' = [cycle EXCEPT !.at = "enqueueing", !.items = cycle.rows, !.rows = {}]
  BY DEF Dispatch
<1>2. /\ DOMAIN cycle' = CycleFields /\ cycle'.at = "enqueueing" /\ cycle'.items = cycle.rows
  BY <1>1 DEF QueueInv, QueueType, CycleFields
<1>3. cycle.items = {i} /\ i \notin cycle.rows /\ review[i] = "approved"
  BY <1>1 DEF QueueInv, BatchIsApproved
<1>4. \A k : RowsOf(k)' = RowsOf(k) /\ Cardinality(RowsOf(k)) \in Nat
  BY <1>1, RowsAreFinite DEF RowsOf
<1>5. \/ review' = [review EXCEPT ![i] = "dispatched"] /\ mishaps' = mishaps
      \/ review' = review /\ mishaps' = mishaps + 1
  BY <1>3 DEF Dispatch, Dispatched, MarkDispatched, Moves, WriteIsLost
<1>6. QueueType'
  BY <1>1, <1>2, <1>5 DEF QueueInv, QueueType, Reviews
<1>7. BatchIsApproved'
  BY <1>1, <1>2, <1>3, <1>5 DEF QueueInv, QueueType, BatchIsApproved
<1>8. Paid(i)'
  BY <1>2, <1>3, <1>4, <1>5 DEF QueueInv, QueueType, Paid
<1>9. ASSUME NEW k \in Items, k # i PROVE Paid(k)'
  BY <1>2, <1>3, <1>4, <1>5, <1>9 DEF QueueInv, QueueType, Paid, Dispatching
<1> QED
  BY <1>6, <1>7, <1>8, <1>9 DEF QueueInv

\* The tick and what happens in it.
TickStep ==
  \/ TickBegins \/ CycleEnds \/ Prepare \/ SessionBlocked \/ AttemptFails \/ Click
  \/ RecordPost \/ LogPost \/ JobEnds \/ \E j \in Jobs : Postpone(j) \/ Start(j)

LEMMA TickStepKeeps ==
  ASSUME QueueInv, TickStep
  PROVE  QueueInv'
<1> USE DEF QueueInv, QueueType, CycleFields
<1>1. review' = review /\ mishaps' = mishaps /\ cycle.at # "dispatching"
  BY DEF TickStep, TickBegins, CycleEnds, Prepare, SessionBlocked, AttemptFails, Click, RecordPost,
         LogPost, JobEnds, Postpone, Start, Goes, postVars
<1>2. DOMAIN cycle' = CycleFields /\ cycle'.at \notin {"enqueueing", "dispatching"}
  <2>1. CASE \E j \in Jobs : Postpone(j)
    BY <2>1 DEF Postpone
  <2>2. CASE \E j \in Jobs : Start(j)
    BY <2>2 DEF Start
  <2>3. CASE TickBegins
    BY <2>3 DEF TickBegins
  <2>4. CASE CycleEnds \/ Prepare \/ SessionBlocked \/ Click \/ RecordPost \/ LogPost
    BY <2>4 DEF CycleEnds, Prepare, SessionBlocked, Click, RecordPost, LogPost, Goes, AtRest
  <2>5. CASE AttemptFails
    BY <2>5 DEF AttemptFails
  <2>6. CASE JobEnds
    BY <2>6 DEF JobEnds
  <2> QED
    BY <2>1, <2>2, <2>3, <2>4, <2>5, <2>6 DEF TickStep
<1>3. \/ row' = row
      \/ \E j, v : row' = [row EXCEPT ![j].due = v]
      \/ \E j, v : v # "absent" /\ row' = [row EXCEPT ![j].status = v]
  BY DEF TickStep, TickBegins, CycleEnds, Prepare, SessionBlocked, AttemptFails, Click, RecordPost,
         LogPost, JobEnds, Postpone, Start
<1>4. SameRows
  BY <1>3, RowUpdateKeeps
<1> QED
  BY <1>1, <1>2, <1>4, QuietKeeps

LEMMA RestKeeps ==
  ASSUME QueueInv, \/ TimeOutside \/ ProcessDies \/ UNCHANGED <<review, postVars>>
                   \/ \E j \in Jobs : CancelJob(j)
  PROVE  QueueInv'
<1>1. CASE ProcessDies
  <2>1. SameRows
    BY <1>1, RowUpdateKeeps DEF ProcessDies
  <2>2. DOMAIN AtRest = CycleFields /\ AtRest.at = "resting"
    BY DEF AtRest, CycleFields
  <2> QED
    BY <1>1, <2>1, <2>2, QuietKeeps DEF ProcessDies, QueueInv, QueueType
<1>2. CASE TimeOutside
  <2>1. row' = row \/ \E j : row' = [row EXCEPT ![j].due = TRUE]
    BY <1>2 DEF TimeOutside, TimePasses
  <2>2. SameRows
    BY <2>1, RowUpdateKeeps
  <2> QED
    BY <1>2, <2>2, OutsideKeeps DEF TimeOutside, QueueInv, QueueType
<1>3. ASSUME NEW j \in Jobs, CancelJob(j) PROVE QueueInv'
  <2>1. SameRows
    BY <1>3, RowUpdateKeeps DEF CancelJob
  <2> QED
    BY <1>3, <2>1, OutsideKeeps DEF CancelJob, QueueInv, QueueType
<1>4. CASE UNCHANGED <<review, postVars>>
  <2>1. SameRows
    BY <1>4, RowUpdateKeeps DEF postVars
  <2> QED
    BY <1>4, <2>1, OutsideKeeps DEF postVars, QueueInv, QueueType
<1> QED
  BY <1>1, <1>2, <1>3, <1>4

LEMMA PostStepKeeps ==
  ASSUME QueueInv, [PostNext]_<<review, postVars>>
  PROVE  QueueInv'
  BY CycleBeginsKeeps, ReadKeeps, EnqueueKeeps, DispatchKeeps, TickStepKeeps, JudgeKeeps, RestKeeps
  DEF PostNext, CycleStep, TickStep

\* What was not approved is not queued, and what was approved is queued once, but
\* for the mishaps, however many items and jobs there are and whatever the
\* operator, the clock and the platform do (approval_queue.py, scheduler.py).
THEOREM ReviewAlwaysDecides == PostSpec => []ReviewDecides
<1>1. QueueInv => ReviewDecides
  BY DEF QueueInv, Paid, ReviewDecides
<1>2. (\E left \in Leftovers : PostInit(left)) => QueueInv
  BY QueueStarts
<1> QED
  BY <1>1, <1>2, PostStepKeeps, PTL DEF PostSpec

-----------------------------------------------------------------------------
(* The pause of a niche: it outlives every other override                  *)

Rulings == [target : Niches \cup Graded, word : OperatorWords \cup {"freeze", "boost", "restrict"},
            left : Int, on : BOOLEAN]

\* Loss i of the niche is the third of its week, and the pause it began lasts.
Third(n, i) ==
  /\ losses[n][i] < PauseTime
  /\ Cardinality({j \in 1 .. i - 1 : losses[n][j] - losses[n][i] < Week}) >= 2

\* The last row about the niche restricts it, for t more ticks at least.
Restricts(rows, n, t) ==
  \E k \in DOMAIN rows :
    /\ rows[k].target = n /\ rows[k].word = "restrict" /\ rows[k].on /\ rows[k].left >= t
    /\ \A m \in DOMAIN rows : m > k => rows[m].target # n

\* While the operator is silent on a niche, the pause of each third loss is
\* in the last row about the niche for as long as it has to last.
PauseInv ==
  /\ rulings \in Seq(Rulings)
  /\ losses \in [Niches -> Seq(Nat)]
  /\ ruled \in [Niches -> BOOLEAN]
  /\ \A n \in Niches : ~ruled[n] =>
       \A i \in DOMAIN losses[n] : Third(n, i) => Restricts(rulings, n, PauseTime - losses[n][i])

\* What CeoBrain's times and names are.
PauseFacts ==
  /\ Week \in Nat /\ PauseTime \in Nat /\ FreezeTime \in Int /\ BoostTime \in Int
  /\ Niches \cap Graded = {}

\* A row that is written anew comes last, the others keep their order.
LEMMA InsertedRows ==
  ASSUME NEW rows \in Seq(Rulings), NEW target \in Niches \cup Graded,
         NEW word \in OperatorWords \cup {"freeze", "boost", "restrict"}, NEW left \in Int
  PROVE  LET after == Inserted(rows, target, word, left)
         IN  /\ after \in Seq(Rulings)
             /\ Restricts(after, target, left) \/ word # "restrict"
             /\ \A n : n # target => \A t : Restricts(rows, n, t) => Restricts(after, n, t)
<1> DEFINE old == {i \in DOMAIN rows : rows[i].target = target /\ rows[i].word = word}
           at == Max(old)
           rest == IF old = {} THEN rows ELSE RemoveAt(rows, at)
           fresh == Row(target, word, left)
           after == Inserted(rows, target, word, left)
<1>1. fresh \in Rulings /\ fresh.target = target /\ fresh.word = word /\ fresh.on /\ fresh.left = left
  BY DEF Row, Rulings
<1>2. after = Append(rest, fresh)
  BY DEF Inserted
<1>3. old # {} => at \in DOMAIN rows /\ rows[at].target = target
  <2>1. SUFFICES ASSUME old # {} PROVE at \in old
    OBVIOUS
  <2>2. IsFiniteSet(old)
    <3>1. IsFiniteSet(1..Len(rows))
      <4>1. Len(rows) \in Int
        OBVIOUS
      <4> QED BY <4>1, FS_Interval
    <3> QED BY <3>1, FS_Subset
  <2>3. old \subseteq Int
    OBVIOUS
  <2> HIDE DEF old
  <2> QED BY <2>1, <2>2, <2>3, MaxIn
<1> HIDE DEF old, at, fresh, after
<1>4. /\ rest \in Seq(Rulings)
      /\ \A k \in DOMAIN rows : rows[k].target # target =>
           \E k2 \in DOMAIN rest : /\ rest[k2] = rows[k]
                                   /\ \A m2 \in DOMAIN rest : m2 > k2 =>
                                        \E m \in DOMAIN rows : m > k /\ rest[m2] = rows[m]
  <2>1. CASE old = {}
    BY <2>1
  <2>2. CASE old # {}
    <3> DEFINE low == SubSeq(rows, 1, at - 1)
               high == SubSeq(rows, at + 1, Len(rows))
    <3>1. at \in 1..Len(rows) /\ Len(rows) \in Nat /\ DOMAIN rows = 1..Len(rows)
      BY <1>3, <2>2
    <3>2. low \in Seq(Rulings) /\ Len(low) = at - 1 /\ \A i \in 1..(at - 1) : low[i] = rows[i]
      <4>1. 1 \in Int /\ at - 1 \in Int /\ \A i \in 1..(at - 1) : rows[i] \in Rulings
        BY <3>1
      <4>2. /\ low \in Seq(Rulings)
            /\ Len(low) = IF 1 <= at - 1 THEN at - 1 - 1 + 1 ELSE 0
            /\ \A i \in 1..(at - 1 - 1 + 1) : low[i] = rows[1 + i - 1]
        BY <4>1, SubSeqProperties
      <4> HIDE DEF low
      <4>3. at \in Int /\ at >= 1
        BY <3>1
      <4>4. Len(low) = at - 1
        BY <4>2, <4>3
      <4>5. \A i \in 1..(at - 1) : i \in 1..(at - 1 - 1 + 1) /\ 1 + i - 1 = i
        BY <4>3
      <4> QED BY <4>2, <4>4, <4>5
    <3>3. /\ high \in Seq(Rulings) /\ Len(high) = Len(rows) - at
          /\ \A i \in 1..(Len(rows) - at) : high[i] = rows[at + i]
      <4>1. at + 1 \in Int /\ Len(rows) \in Int /\ \A i \in (at + 1)..Len(rows) : rows[i] \in Rulings
        BY <3>1
      <4>2. /\ high \in Seq(Rulings)
            /\ Len(high) = IF at + 1 <= Len(rows) THEN Len(rows) - (at + 1) + 1 ELSE 0
            /\ \A i \in 1..(Len(rows) - (at + 1) + 1) : high[i] = rows[at + 1 + i - 1]
        BY <4>1, SubSeqProperties
      <4> HIDE DEF high
      <4>3. Len(high) = Len(rows) - at
        <5>1. CASE at + 1 <= Len(rows)
          BY <3>1, <4>2, <5>1
        <5>2. CASE ~(at + 1 <= Len(rows))
          <6>1. Len(high) = 0
            BY <4>2, <5>2
          <6>2. at \in Int /\ Len(rows) \in Int /\ at <= Len(rows)
            BY <3>1
          <6>3. at >= Len(rows)
            BY <5>2, <6>2
          <6>4. Len(rows) - at = 0
            BY <6>2, <6>3
          <6> QED BY <6>1, <6>4
        <5> QED BY <5>1, <5>2
      <4>4. ASSUME NEW i \in 1..(Len(rows) - at) PROVE high[i] = rows[at + i]
        <5>1. i \in 1..(Len(rows) - (at + 1) + 1) /\ at + 1 + i - 1 = at + i
          BY <3>1
        <5> QED BY <4>2, <5>1
      <4> QED BY <4>2, <4>3, <4>4
    <3>4. rest = low \o high
      BY <2>2 DEF RemoveAt
    <3> HIDE DEF low, high, rest
    <3>5. /\ rest \in Seq(Rulings) /\ Len(rest) = Len(rows) - 1
          /\ \A i \in 1..(Len(rows) - 1) : rest[i] = IF i < at THEN rows[i] ELSE rows[i + 1]
      <4>1. /\ rest \in Seq(Rulings)
            /\ Len(rest) = Len(low) + Len(high)
            /\ \A i \in 1..(Len(low) + Len(high)) :
                 rest[i] = IF i <= Len(low) THEN low[i] ELSE high[i - Len(low)]
        BY <3>2, <3>3, <3>4, ConcatProperties
      <4>2. Len(low) + Len(high) = Len(rows) - 1
        BY <3>1, <3>2, <3>3
      <4>3. ASSUME NEW i \in 1..(Len(rows) - 1)
            PROVE  rest[i] = IF i < at THEN rows[i] ELSE rows[i + 1]
        <5>1. CASE i < at
          BY <3>1, <3>2, <4>1, <4>2, <5>1
        <5>2. CASE ~(i < at)
          <6>1. i - (at - 1) \in 1..(Len(rows) - at) /\ at + (i - (at - 1)) = i + 1
            BY <3>1, <5>2
          <6>2. rest[i] = high[i - (at - 1)]
            BY <3>1, <3>2, <4>1, <4>2, <5>2
          <6>3. high[i - (at - 1)] = rows[at + (i - (at - 1))]
            BY <3>3, <6>1
          <6> QED BY <5>2, <6>1, <6>2, <6>3
        <5> QED BY <5>1, <5>2
      <4> QED BY <4>1, <4>2, <4>3
    <3>6. ASSUME NEW k \in DOMAIN rows, rows[k].target # target
          PROVE  \E k2 \in DOMAIN rest : /\ rest[k2] = rows[k]
                                         /\ \A m2 \in DOMAIN rest : m2 > k2 =>
                                              \E m \in DOMAIN rows : m > k /\ rest[m2] = rows[m]
      <4> DEFINE k2 == IF k < at THEN k ELSE k - 1
      <4>1. k # at /\ k \in 1..Len(rows)
        BY <1>3, <2>2, <3>1, <3>6
      <4>2. k2 \in 1..(Len(rows) - 1) /\ rest[k2] = rows[k]
        BY <3>1, <3>5, <4>1
      <4>3. DOMAIN rest = 1..(Len(rows) - 1)
        BY <3>5
      <4>4. ASSUME NEW m2 \in DOMAIN rest, m2 > k2
            PROVE  \E m \in DOMAIN rows : m > k /\ rest[m2] = rows[m]
        <5> DEFINE m == IF m2 < at THEN m2 ELSE m2 + 1
        <5>1. m \in 1..Len(rows) /\ m > k /\ rest[m2] = rows[m]
          BY <3>1, <3>5, <4>1, <4>3, <4>4
        <5> QED BY <3>1, <5>1
      <4> QED BY <4>2, <4>3, <4>4
    <3> QED BY <3>5, <3>6
  <2> QED BY <2>1, <2>2
<1> HIDE DEF rest
<1>5. /\ after \in Seq(Rulings) /\ Len(after) = Len(rest) + 1 /\ after[Len(after)] = fresh
      /\ \A i \in DOMAIN rest : i \in DOMAIN after /\ after[i] = rest[i]
      /\ \A i \in DOMAIN after : i \in DOMAIN rest \/ i = Len(after)
      /\ Len(after) \in DOMAIN after /\ DOMAIN after \subseteq 1..Len(after) /\ Len(rest) \in Nat
  BY <1>1, <1>2, <1>4
<1>6. word = "restrict" => Restricts(after, target, left)
  <2>1. \A m \in DOMAIN after : ~(m > Len(after))
    BY <1>5
  <2>2. left >= left
    OBVIOUS
  <2> QED BY <1>1, <1>5, <2>1, <2>2 DEF Restricts
<1>7. ASSUME NEW n, n # target, NEW t, Restricts(rows, n, t) PROVE Restricts(after, n, t)
  <2>1. PICK k \in DOMAIN rows :
          /\ rows[k].target = n /\ rows[k].word = "restrict" /\ rows[k].on /\ rows[k].left >= t
          /\ \A m \in DOMAIN rows : m > k => rows[m].target # n
    BY <1>7 DEF Restricts
  <2>2. PICK k2 \in DOMAIN rest :
          /\ rest[k2] = rows[k]
          /\ \A m2 \in DOMAIN rest : m2 > k2 => \E m \in DOMAIN rows : m > k /\ rest[m2] = rows[m]
    BY <1>4, <1>7, <2>1
  <2>3. \A m \in DOMAIN after : m > k2 => after[m].target # n
    BY <1>1, <1>5, <1>7, <2>1, <2>2
  <2> QED BY <1>5, <2>1, <2>2, <2>3 DEF Restricts
<1> QED BY <1>5, <1>6, <1>7 DEF after

\* A niche whose losses, rows and silence are as before is paused as before.
LEMMA SameNicheKeeps ==
  ASSUME PauseInv, NEW n \in Niches, losses'[n] = losses[n], ruled'[n] \/ ~ruled[n],
         \A t : Restricts(rulings, n, t) => Restricts(rulings', n, t)
  PROVE  ~ruled'[n] => \A i \in DOMAIN losses'[n] :
           Third(n, i)' => Restricts(rulings', n, PauseTime - losses'[n][i])
<1>1. \A i : Third(n, i)' <=> Third(n, i)
  BY DEF Third
<1> QED BY <1>1 DEF PauseInv

LEMMA PauseStarts == CeoInit => PauseInv
<1>1. CeoInit => rulings \in Seq(Rulings) /\ losses \in [Niches -> Seq(Nat)]
  BY DEF CeoInit
<1>2. CeoInit => \A n \in Niches : DOMAIN losses[n] = {}
  BY DEF CeoInit
<1> QED BY <1>1, <1>2 DEF CeoInit, PauseInv

\* The operator may speak on any target: a niche it speaks on is ruled.
LEMMA OperatorKeepsPause ==
  ASSUME PauseFacts, PauseInv, OperatorOverrides PROVE PauseInv'
<1>1. PICK target \in Niches \cup Graded, word \in OperatorWords :
        /\ \/ rulings' = Inserted(rulings, target, word, FreezeTime)
           \/ rulings' = [i \in DOMAIN rulings |->
                IF rulings[i].target = target /\ rulings[i].word = word
                THEN [rulings[i] EXCEPT !.on = FALSE] ELSE rulings[i]]
        /\ ruled' = [n \in Niches |-> ruled[n] \/ n = target]
  BY DEF OperatorOverrides
<1>2. losses' = losses
  BY DEF OperatorOverrides
<1>3. /\ rulings' \in Seq(Rulings)
      /\ \A n : n # target => \A t : Restricts(rulings, n, t) => Restricts(rulings', n, t)
  <2>1. CASE rulings' = Inserted(rulings, target, word, FreezeTime)
    BY <2>1, InsertedRows DEF PauseFacts, PauseInv
  <2>2. CASE rulings' = [i \in DOMAIN rulings |->
               IF rulings[i].target = target /\ rulings[i].word = word
               THEN [rulings[i] EXCEPT !.on = FALSE] ELSE rulings[i]]
    <3>1. rulings \in Seq(Rulings) /\ DOMAIN rulings = 1..Len(rulings) /\ Len(rulings) \in Nat
      BY DEF PauseInv
    <3>2. ASSUME NEW i \in DOMAIN rulings
          PROVE  rulings'[i] \in Rulings /\ rulings'[i].target = rulings[i].target
      <4>1. rulings[i] \in Rulings
        BY <3>1
      <4> QED BY <2>2, <4>1 DEF Rulings
    <3>3. rulings' \in Seq(Rulings) /\ DOMAIN rulings' = DOMAIN rulings
      BY <2>2, <3>1, <3>2
    <3>4. ASSUME NEW i \in DOMAIN rulings, rulings[i].target # target PROVE rulings'[i] = rulings[i]
      BY <2>2, <3>4
    <3> QED BY <3>2, <3>3, <3>4 DEF Restricts
  <2> QED BY <1>1, <2>1, <2>2
<1>4. ruled' \in [Niches -> BOOLEAN]
  BY <1>1 DEF PauseInv
<1>5. ASSUME NEW n \in Niches, ~ruled'[n]
      PROVE  \A i \in DOMAIN losses'[n] : Third(n, i)' => Restricts(rulings', n, PauseTime - losses'[n][i])
  <2>1. n # target /\ ~ruled[n]
    BY <1>1, <1>5
  <2> QED BY <1>2, <1>3, <1>5, <2>1, SameNicheKeeps
<1> QED BY <1>2, <1>3, <1>4, <1>5 DEF PauseInv

\* A grade writes rows about accounts.
LEMMA GradeKeepsPause ==
  ASSUME PauseFacts, PauseInv, UNCHANGED <<losses, ruled>>, NEW a \in Graded, NEW g, Grade(a, g)
  PROVE  PauseInv'
<1>1. \/ rulings' = Inserted(rulings, a, "freeze", FreezeTime)
      \/ rulings' = Inserted(rulings, a, "boost", BoostTime)
      \/ rulings' = rulings
  BY DEF Grade
<1>2. /\ rulings' \in Seq(Rulings)
      /\ \A n : n # a => \A t : Restricts(rulings, n, t) => Restricts(rulings', n, t)
  <2>1. /\ rulings \in Seq(Rulings) /\ a \in Niches \cup Graded
        /\ "freeze" \in OperatorWords \cup {"freeze", "boost", "restrict"}
        /\ "boost" \in OperatorWords \cup {"freeze", "boost", "restrict"}
    BY DEF PauseInv
  <2>2. CASE rulings' = Inserted(rulings, a, "freeze", FreezeTime)
    BY <2>1, <2>2, InsertedRows DEF PauseFacts
  <2>3. CASE rulings' = Inserted(rulings, a, "boost", BoostTime)
    BY <2>1, <2>3, InsertedRows DEF PauseFacts
  <2>4. CASE rulings' = rulings
    BY <2>1, <2>4
  <2> QED BY <1>1, <2>2, <2>3, <2>4
<1>3. \A n \in Niches : n # a
  BY DEF PauseFacts
<1>4. ASSUME NEW n \in Niches
      PROVE  ~ruled'[n] => \A i \in DOMAIN losses'[n] :
               Third(n, i)' => Restricts(rulings', n, PauseTime - losses'[n][i])
  BY <1>2, <1>3, SameNicheKeeps
<1> QED BY <1>2, <1>4 DEF PauseInv

\* The third loss of a week begins a pause, and an earlier one goes on.
LEMMA ReportKeepsPause ==
  ASSUME PauseFacts, PauseInv, NEW n \in Niches, NEW lost \in BOOLEAN, NicheReport(n, lost)
  PROVE  PauseInv'
<1> DEFINE paused == lost /\ Recent(n) >= 2
           here == losses[n]
<1>1. /\ losses' = IF lost THEN [losses EXCEPT ![n] = Append(@, 0)] ELSE losses
      /\ rulings' = IF paused THEN Inserted(rulings, n, "restrict", PauseTime) ELSE rulings
      /\ ruled' = IF paused THEN [ruled EXCEPT ![n] = FALSE] ELSE ruled
  BY DEF NicheReport
<1>2. /\ here \in Seq(Nat) /\ DOMAIN here = 1..Len(here) /\ Len(here) \in Nat
      /\ rulings \in Seq(Rulings) /\ ruled \in [Niches -> BOOLEAN] /\ losses \in [Niches -> Seq(Nat)]
  BY DEF PauseInv
<1>3. /\ rulings' \in Seq(Rulings)
      /\ paused => Restricts(rulings', n, PauseTime)
      /\ \A o : o # n => \A t : Restricts(rulings, o, t) => Restricts(rulings', o, t)
  <2>1. CASE paused
    <3>1. rulings' = Inserted(rulings, n, "restrict", PauseTime)
      BY <1>1, <2>1
    <3>2. n \in Niches \cup Graded /\ "restrict" \in OperatorWords \cup {"freeze", "boost", "restrict"}
          /\ PauseTime \in Int
      BY DEF PauseFacts
    <3> HIDE DEF paused
    <3> QED BY <1>2, <3>1, <3>2, InsertedRows
  <2>2. CASE ~paused
    BY <1>1, <1>2, <2>2
  <2> QED BY <2>1, <2>2
<1>4. losses' \in [Niches -> Seq(Nat)] /\ ruled' \in [Niches -> BOOLEAN]
  <2>1. Append(here, 0) \in Seq(Nat)
    BY <1>2
  <2> QED BY <1>1, <1>2, <2>1
<1>5. ASSUME NEW o \in Niches, o # n
      PROVE  ~ruled'[o] => \A i \in DOMAIN losses'[o] :
               Third(o, i)' => Restricts(rulings', o, PauseTime - losses'[o][i])
  <2>1. losses'[o] = losses[o] /\ ruled'[o] = ruled[o]
    BY <1>1, <1>2, <1>5
  <2> QED BY <1>3, <1>5, <2>1, SameNicheKeeps
<1>6. ASSUME ~ruled'[n], NEW i \in DOMAIN losses'[n], Third(n, i)'
      PROVE  Restricts(rulings', n, PauseTime - losses'[n][i])
  <2>1. CASE paused
    <3>1. losses'[n][i] \in Nat
      BY <1>4
    <3>2. PauseTime >= PauseTime - losses'[n][i] /\ PauseTime \in Int
      BY <3>1 DEF PauseFacts
    <3>3. PICK k \in DOMAIN rulings' :
            /\ rulings'[k].target = n /\ rulings'[k].word = "restrict" /\ rulings'[k].on
            /\ rulings'[k].left >= PauseTime
            /\ \A m \in DOMAIN rulings' : m > k => rulings'[m].target # n
      BY <1>3, <2>1 DEF Restricts
    <3>4. rulings'[k].left \in Int
      <4>1. rulings'[k] \in Rulings
        BY <1>3, <3>3
      <4> QED BY <4>1 DEF Rulings
    <3>5. rulings'[k].left >= PauseTime - losses'[n][i]
      BY <3>1, <3>2, <3>3, <3>4
    <3> QED BY <3>3, <3>5 DEF Restricts
  <2>2. CASE ~paused /\ lost
    <3>1. losses'[n] = Append(here, 0)
      BY <1>1, <1>2, <2>2
    <3>2. \A j \in 1..Len(here) : losses'[n][j] = here[j]
      BY <1>2, <3>1
    <3>3. i \in 1..(Len(here) + 1) /\ losses'[n][Len(here) + 1] = 0
      BY <1>2, <3>1
    <3>4. i # Len(here) + 1
      <4>1. SUFFICES ASSUME i = Len(here) + 1 PROVE FALSE
        OBVIOUS
      <4>2. 1 .. i - 1 = 1..Len(here)
        BY <1>2, <4>1
      <4>3. {j \in 1 .. i - 1 : losses'[n][j] - losses'[n][i] < Week} = {j \in DOMAIN here : here[j] < Week}
        <5>1. \A j \in 1..Len(here) : losses'[n][j] - losses'[n][i] = here[j]
          BY <1>2, <3>2, <3>3, <4>1
        <5>2. DOMAIN here = 1 .. i - 1
          BY <1>2, <4>2
        <5>3. \A j \in 1 .. i - 1 : losses'[n][j] - losses'[n][i] < Week <=> here[j] < Week
          BY <4>2, <5>1
        <5> HIDE DEF here
        <5> QED BY <5>2, <5>3
      <4> QED BY <1>6, <2>2, <4>3 DEF Third, Recent
    <3>5. i \in DOMAIN here
      BY <1>2, <3>3, <3>4
    <3>6. {j \in 1 .. i - 1 : losses'[n][j] - losses'[n][i] < Week} = {j \in 1 .. i - 1 : here[j] - here[i] < Week}
      BY <1>2, <3>2, <3>5
    <3>7. Third(n, i) /\ losses'[n][i] = here[i]
      BY <1>2, <1>6, <3>2, <3>5, <3>6 DEF Third
    <3>8. rulings' = rulings /\ ruled' = ruled
      BY <1>1, <2>2
    <3> QED BY <1>6, <3>5, <3>7, <3>8 DEF PauseInv
  <2>3. CASE ~lost
    <3>1. UNCHANGED <<rulings, ruled, losses>>
      BY <1>1, <2>3
    <3>2. Third(n, i)
      BY <1>6, <3>1 DEF Third
    <3> QED BY <1>6, <3>1, <3>2 DEF PauseInv
  <2> QED BY <2>1, <2>2, <2>3
<1> HIDE DEF paused
<1> QED BY <1>3, <1>4, <1>5, <1>6 DEF PauseInv

\* Rows and losses grow old together.
LEMMA TickKeepsPause ==
  ASSUME PauseFacts, PauseInv, CeoTick PROVE PauseInv'
<1>1. /\ rulings' = [i \in DOMAIN rulings |-> [rulings[i] EXCEPT !.left = Max({@ - 1, 0})]]
      /\ losses' = [n \in Niches |-> [i \in DOMAIN losses[n] |-> Min({losses[n][i] + 1, Forgotten})]]
      /\ ruled' = ruled
  BY DEF CeoTick
<1>2. /\ rulings \in Seq(Rulings) /\ DOMAIN rulings = 1..Len(rulings) /\ Len(rulings) \in Nat
      /\ \A n \in Niches : losses[n] \in Seq(Nat) /\ DOMAIN losses[n] = 1..Len(losses[n]) /\ Len(losses[n]) \in Nat
  BY DEF PauseInv
<1>3. Forgotten \in Nat /\ Forgotten = Week + PauseTime
  BY DEF PauseFacts, Forgotten
<1>4. ASSUME NEW i \in DOMAIN rulings
      PROVE  /\ rulings'[i] \in Rulings /\ rulings'[i].target = rulings[i].target
             /\ rulings'[i].word = rulings[i].word /\ rulings'[i].on = rulings[i].on
             /\ rulings[i].left \in Int /\ rulings'[i].left >= rulings[i].left - 1
  <2>1. rulings[i] \in Rulings
    BY <1>2
  <2>2. rulings[i].left - 1 \in Int /\ 0 \in Int
    BY <2>1 DEF Rulings
  <2> DEFINE left == Max({rulings[i].left - 1, 0})
  <2>3. left \in Int /\ left >= rulings[i].left - 1
    <3>1. left \in {rulings[i].left - 1, 0} /\ left >= rulings[i].left - 1
      BY <2>2, OfTwo
    <3> QED BY <2>2, <3>1
  <2>4. rulings'[i] = [rulings[i] EXCEPT !.left = left]
    BY <1>1
  <2> HIDE DEF left
  <2> QED BY <2>1, <2>3, <2>4 DEF Rulings
<1>5. rulings' \in Seq(Rulings) /\ DOMAIN rulings' = DOMAIN rulings
  <2>1. rulings' = [i \in 1..Len(rulings) |-> rulings'[i]] /\ DOMAIN rulings' = 1..Len(rulings)
    BY <1>1, <1>2
  <2>2. \A i \in 1..Len(rulings) : rulings'[i] \in Rulings
    BY <1>2, <1>4
  <2> QED BY <1>2, <2>1, <2>2
<1>6. ASSUME NEW n \in Niches, NEW i \in DOMAIN losses[n]
      PROVE  /\ losses'[n][i] \in Nat /\ losses[n][i] \in Nat
             /\ losses'[n][i] <= losses[n][i] + 1
             /\ losses'[n][i] < Forgotten => losses'[n][i] = losses[n][i] + 1
  <2>1. losses[n][i] \in Nat
    BY <1>2
  <2>2. losses'[n][i] = Min({losses[n][i] + 1, Forgotten})
    BY <1>1
  <2>3. Min({losses[n][i] + 1, Forgotten}) \in {losses[n][i] + 1, Forgotten}
        /\ Min({losses[n][i] + 1, Forgotten}) <= losses[n][i] + 1
    <3>1. losses[n][i] + 1 \in Int /\ Forgotten \in Int
      BY <1>3, <2>1
    <3> QED BY <3>1, OfTwo
  <2> QED BY <1>3, <2>1, <2>2, <2>3
<1>7. losses' \in [Niches -> Seq(Nat)] /\ \A n \in Niches : DOMAIN losses'[n] = DOMAIN losses[n]
  <2>1. ASSUME NEW n \in Niches PROVE losses'[n] \in Seq(Nat) /\ DOMAIN losses'[n] = DOMAIN losses[n]
    <3> DEFINE len == Len(losses[n])
               new == losses'[n]
    <3>1. new = [i \in 1..len |-> new[i]] /\ len \in Nat /\ DOMAIN losses[n] = 1..len
      <4>1. DOMAIN losses[n] = 1..len /\ len \in Nat
        BY <1>2
      <4>2. new = [i \in DOMAIN losses[n] |-> Min({losses[n][i] + 1, Forgotten})]
        BY <1>1
      <4> HIDE DEF len, new
      <4> QED BY <4>1, <4>2
    <3>2. \A i \in 1..len : new[i] \in Nat
      BY <1>2, <1>6
    <3> HIDE DEF len, new
    <3>3. new \in Seq(Nat) /\ DOMAIN new = 1..len
      BY <3>1, <3>2
    <3> QED BY <3>1, <3>3 DEF new
  <2> QED BY <1>1, <2>1
<1>8. ASSUME NEW n \in Niches, ~ruled'[n], NEW i \in DOMAIN losses'[n], Third(n, i)'
      PROVE  Restricts(rulings', n, PauseTime - losses'[n][i])
  <2>1. i \in DOMAIN losses[n] /\ i \in 1..Len(losses[n])
    BY <1>2, <1>7, <1>8
  <2>2. losses'[n][i] < PauseTime
    BY <1>8 DEF Third
  <2>3. losses'[n][i] = losses[n][i] + 1 /\ losses[n][i] \in Nat /\ losses[n][i] < PauseTime
    BY <1>3, <1>6, <2>1, <2>2 DEF PauseFacts
  <2> DEFINE before == {j \in 1 .. i - 1 : losses[n][j] - losses[n][i] < Week}
             now == {j \in 1 .. i - 1 : losses'[n][j] - losses'[n][i] < Week}
  <2>4. now \subseteq before
    <3>1. ASSUME NEW j \in now PROVE losses[n][j] - losses[n][i] < Week
      <4>1. j \in DOMAIN losses[n]
        BY <1>2, <2>1
      <4>2. losses'[n][j] - losses'[n][i] < Week
        OBVIOUS
      <4>3. losses'[n][j] < Forgotten
        BY <1>3, <1>6, <2>2, <2>3, <4>1, <4>2 DEF PauseFacts
      <4>4. losses'[n][j] = losses[n][j] + 1 /\ losses[n][j] \in Nat
        BY <1>6, <4>1, <4>3
      <4> QED BY <2>3, <4>2, <4>4 DEF PauseFacts
    <3> QED BY <3>1
  <2>5. IsFiniteSet(before)
    <3>1. IsFiniteSet(1 .. i - 1)
      <4>1. 1 \in Int /\ i - 1 \in Int
        BY <2>1
      <4> QED BY <4>1, FS_Interval
    <3> QED BY <3>1, FS_Subset
  <2>6. Cardinality(now) <= Cardinality(before) /\ Cardinality(now) \in Nat /\ Cardinality(before) \in Nat
    <3> HIDE DEF now, before
    <3> QED BY <2>4, <2>5, FS_Subset, FS_CardinalityType
  <2>7. Third(n, i)
    <3>1. Cardinality(now) >= 2
      BY <1>8 DEF Third
    <3>2. Cardinality(before) >= 2
      <4> HIDE DEF now, before
      <4> QED BY <2>6, <3>1
    <3> QED BY <2>3, <3>2 DEF Third
  <2>8. PICK k \in DOMAIN rulings :
          /\ rulings[k].target = n /\ rulings[k].word = "restrict" /\ rulings[k].on
          /\ rulings[k].left >= PauseTime - losses[n][i]
          /\ \A m \in DOMAIN rulings : m > k => rulings[m].target # n
    <3>1. Restricts(rulings, n, PauseTime - losses[n][i])
      BY <1>1, <1>8, <2>1, <2>7 DEF PauseInv
    <3> QED BY <3>1 DEF Restricts
  <2>9. rulings'[k].left >= PauseTime - losses'[n][i]
    <3>1. rulings'[k].left \in Int /\ rulings'[k].left >= rulings[k].left - 1 /\ rulings[k].left \in Int
      BY <1>4 DEF Rulings
    <3> QED BY <2>3, <2>8, <3>1 DEF PauseFacts
  <2> QED BY <1>4, <1>5, <2>8, <2>9 DEF Restricts
<1> QED BY <1>1, <1>5, <1>7, <1>8 DEF PauseInv

LEMMA PauseStep ==
  ASSUME PauseFacts, PauseInv, [CeoNext]_ceoVars PROVE PauseInv'
<1>1. ASSUME UNCHANGED <<rulings, losses, ruled>> PROVE PauseInv'
  BY <1>1 DEF PauseInv, Third
<1>2. CASE OperatorOverrides
  BY <1>2, OperatorKeepsPause
<1>3. CASE OperatorSetsMode
  BY <1>1, <1>3 DEF OperatorSetsMode
<1>4. CASE ReadDirective
  BY <1>1, <1>4 DEF ReadDirective
<1>5. CASE ScoreAccount
  BY <1>5, GradeKeepsPause DEF ScoreAccount
<1>6. CASE UpdateFromMetrics
  BY <1>6, GradeKeepsPause, ReportKeepsPause DEF UpdateFromMetrics
<1>7. CASE CeoTick
  BY <1>7, TickKeepsPause
<1>8. CASE UNCHANGED ceoVars
  BY <1>1, <1>8 DEF ceoVars
<1> QED BY <1>2, <1>3, <1>4, <1>5, <1>6, <1>7, <1>8 DEF CeoNext

\* The last row in force is the one that restricts.
LEMMA PauseIsRead == ASSUME PauseFacts, PauseInv PROVE PauseHolds
<1>1. SUFFICES ASSUME NEW n \in Niches, ThirdLoss(n), ~ruled[n] PROVE Word(n) = "restrict"
  BY DEF PauseHolds
<1>2. PICK i \in DOMAIN losses[n] : Third(n, i)
  BY <1>1 DEF ThirdLoss, Third
<1>3. losses[n][i] \in Nat /\ losses[n][i] < PauseTime
  BY <1>2 DEF PauseInv, Third
<1>4. PICK k \in DOMAIN rulings :
        /\ rulings[k].target = n /\ rulings[k].word = "restrict" /\ rulings[k].on
        /\ rulings[k].left >= PauseTime - losses[n][i]
        /\ \A m \in DOMAIN rulings : m > k => rulings[m].target # n
  BY <1>1, <1>2 DEF PauseInv, Restricts
<1>5. rulings \in Seq(Rulings) /\ DOMAIN rulings = 1..Len(rulings) /\ Len(rulings) \in Nat
  BY DEF PauseInv
<1>6. rulings[k].left > 0
  <2>1. rulings[k] \in Rulings
    BY <1>4, <1>5
  <2>2. rulings[k].left \in Int
    BY <2>1 DEF Rulings
  <2> QED BY <1>3, <1>4, <2>2 DEF PauseFacts
<1> DEFINE now == {m \in DOMAIN rulings : rulings[m].target = n /\ rulings[m].on /\ rulings[m].left > 0}
<1>7. k \in now /\ now \subseteq Int
  BY <1>4, <1>5, <1>6
<1>8. IsFiniteSet(now)
  <2>1. IsFiniteSet(1..Len(rulings))
    <3>1. 1 \in Int /\ Len(rulings) \in Int
      BY <1>5
    <3> QED BY <3>1, FS_Interval
  <2> QED BY <1>5, <2>1, FS_Subset
<1>9. Max(now) \in now /\ Max(now) >= k
  <2> HIDE DEF now
  <2> QED BY <1>7, <1>8, MaxIn
<1>10. Max(now) = k
  <2>1. Max(now) \in DOMAIN rulings /\ rulings[Max(now)].target = n
    BY <1>9
  <2> HIDE DEF now
  <2> QED BY <1>4, <1>5, <1>9, <2>1
<1> QED BY <1>4, <1>7, <1>10 DEF Word

\* For any niches, accounts, words and times: whatever the operator, the grades
\* and the reports write over it, the pause of a third loss holds until it is
\* over or the operator speaks, where no account has the name of a niche (the
\* table's key is the name and the word).
THEOREM PausesLast == ASSUME PauseFacts PROVE CeoSpec => []PauseHolds
<1>1. CeoInit => PauseInv
  BY PauseStarts
<1>2. PauseInv /\ [CeoNext]_ceoVars => PauseInv'
  BY PauseStep
<1>3. PauseInv => PauseHolds
  BY PauseIsRead
<1> QED BY <1>1, <1>2, <1>3, PTL DEF CeoSpec
-----------------------------------------------------------------------------
(* The plan of a day, for any contents, accounts, budgets and stage lengths *)

PortfolioNext == (\E c \in ToSet(Contents) : Advance(c)) \/ WarmUpActs \/ AllocateActs
PortfolioSpec(rows) == PortfolioInit(rows) /\ [][PortfolioNext]_portfolioVars

\* The days that the stages before this one take.
Behind(stage) ==
  (IF stage > 0 THEN StageDays[0] ELSE 0) + (IF stage > 1 THEN StageDays[1] ELSE 0)
    + (IF stage > 2 THEN StageDays[2] ELSE 0)

\* An account has been known for as long as its stage and its days in it say.
WarmInv ==
  /\ warm \in [PostAccounts -> [stage : -1..PostStage, days : Nat]]
  /\ acquainted \in [PostAccounts -> Nat]
  /\ \A a \in PostAccounts :
       acquainted[a] >= Behind(warm[a].stage)
                          + (IF warm[a].stage \in 0..PostStage - 1 THEN warm[a].days ELSE 0)

LEMMA WarmUpKeeps ==
  ASSUME WarmInv, WarmUpActs PROVE WarmInv'
<1>0. StageDays[0] \in Nat /\ StageDays[1] \in Nat /\ StageDays[2] \in Nat
  BY PortfolioAssumption
<1>1. ASSUME NEW a \in PostAccounts, WarmupSession(a) PROVE WarmInv'
  <2> DEFINE w == Promoted(Known(warm[a]))
  <2>1. warm[a].stage \in -1..3 /\ warm[a].days \in Nat /\ warm[a] \in [stage : -1..3, days : Nat]
    BY DEF WarmInv, PostStage
  <2>2. /\ w \in [stage : -1..3, days : Nat]
        /\ acquainted[a] >= Behind(w.stage) + (IF w.stage \in 0..2 THEN w.days ELSE 0)
    <3>1. CASE warm[a].stage = -1
      <4> DEFINE k == [stage |-> 0, days |-> 0]
      <4>1. w = IF 0 >= StageDays[0] THEN [stage |-> 1, days |-> 0] ELSE k
        BY <3>1 DEF Promoted, Known, PostStage
      <4>2. acquainted[a] >= 0
        BY DEF WarmInv
      <4> QED BY <1>0, <4>1, <4>2 DEF Behind
    <3>2. CASE warm[a].stage # -1
      <4>1. Known(warm[a]) = warm[a]
        BY <3>2 DEF Known
      <4>2. acquainted[a] >= Behind(warm[a].stage) + (IF warm[a].stage \in 0..2 THEN warm[a].days ELSE 0)
        BY DEF WarmInv, PostStage
      <4>3. CASE warm[a].stage < 3 /\ warm[a].days >= StageDays[warm[a].stage]
        <5>1. w = [stage |-> warm[a].stage + 1, days |-> 0]
          BY <4>1, <4>3 DEF Promoted, PostStage
        <5>2. warm[a].stage \in 0..2
          BY <2>1, <3>2, <4>3
        <5>3. acquainted[a] \in Nat
          BY DEF WarmInv
        <5> QED BY <1>0, <2>1, <4>2, <4>3, <5>1, <5>2, <5>3 DEF Behind
      <4>4. CASE ~(warm[a].stage < 3 /\ warm[a].days >= StageDays[warm[a].stage])
        BY <2>1, <4>1, <4>2, <4>4 DEF Promoted, PostStage
      <4> QED BY <4>3, <4>4
    <3> QED BY <3>1, <3>2
  <2>3. warm' = [warm EXCEPT ![a] = w] /\ acquainted' = acquainted
    BY <1>1 DEF WarmupSession
  <2> HIDE DEF w
  <2> QED BY <2>2, <2>3 DEF WarmInv, PostStage
<1>2. CASE WarmupDay
  <2>1. warm' \in [PostAccounts -> [stage : -1..3, days : Nat]] /\ acquainted' \in [PostAccounts -> Nat]
    <3> SUFFICES ASSUME NEW a \in PostAccounts
                 PROVE  warm'[a] \in [stage : -1..3, days : Nat] /\ acquainted'[a] \in Nat
      BY <1>2 DEF WarmupDay
    <3>1. warm[a] \in [stage : -1..3, days : Nat] /\ acquainted[a] \in Nat
      BY DEF WarmInv, PostStage
    <3>2. /\ warm'[a] = IF warm[a].stage = -1 \/ warm[a].stage = 3 THEN warm[a]
                        ELSE [warm[a] EXCEPT !.days = IF @ < StageDays[warm[a].stage] THEN @ + 1 ELSE @]
          /\ acquainted'[a] \in {acquainted[a], acquainted[a] + 1}
      BY <1>2 DEF WarmupDay, PostStage
    <3> QED BY <3>1, <3>2
  <2>2. ASSUME NEW a \in PostAccounts
        PROVE  acquainted'[a] >= Behind(warm'[a].stage) + (IF warm'[a].stage \in 0..2 THEN warm'[a].days ELSE 0)
    <3>1. /\ warm[a] \in [stage : -1..3, days : Nat] /\ acquainted[a] \in Nat
          /\ acquainted[a] >= Behind(warm[a].stage) + (IF warm[a].stage \in 0..2 THEN warm[a].days ELSE 0)
      BY DEF WarmInv, PostStage
    <3>2. CASE warm[a].stage = -1 \/ warm[a].stage = 3
      BY <1>2, <3>1, <3>2 DEF WarmupDay, PostStage
    <3>3. CASE warm[a].stage \in 0..2
      <4>1. /\ acquainted'[a] = acquainted[a] + 1 /\ warm'[a].stage = warm[a].stage
            /\ warm'[a].days \in {warm[a].days, warm[a].days + 1}
        BY <1>2, <3>1, <3>3 DEF WarmupDay, PostStage
      <4>2. Behind(warm[a].stage) \in Nat
        BY <1>0 DEF Behind
      <4> QED BY <3>1, <3>3, <4>1, <4>2
    <3> QED BY <3>1, <3>2, <3>3
  <2> QED BY <2>1, <2>2 DEF WarmInv, PostStage
<1> QED BY <1>1, <1>2 DEF WarmUpActs

LEMMA PortfolioKeepsWarm ==
  ASSUME WarmInv, [PortfolioNext]_portfolioVars PROVE WarmInv'
<1>1. CASE WarmUpActs
  BY <1>1, WarmUpKeeps
<1>2. ASSUME NEW b, NEW free, NEW locked, Allocate(b, free, locked) PROVE WarmInv'
  <2>1. PICK seen : /\ warm' = [a \in PostAccounts |-> IF a \in seen THEN Known(warm[a]) ELSE warm[a]]
                    /\ acquainted' = acquainted
    BY <1>2 DEF Allocate
  <2>2. ASSUME NEW a \in PostAccounts
        PROVE  /\ warm'[a] \in [stage : -1..3, days : Nat]
               /\ acquainted'[a] >= Behind(warm'[a].stage) + (IF warm'[a].stage \in 0..2 THEN warm'[a].days ELSE 0)
    <3>1. /\ warm[a] \in [stage : -1..3, days : Nat] /\ acquainted[a] \in Nat
          /\ acquainted[a] >= Behind(warm[a].stage) + (IF warm[a].stage \in 0..2 THEN warm[a].days ELSE 0)
      BY DEF WarmInv, PostStage
    <3>2. CASE warm'[a] = warm[a]
      BY <2>1, <3>1, <3>2
    <3>3. CASE warm'[a] = [stage |-> 0, days |-> 0]
      BY <2>1, <3>1, <3>3 DEF Behind
    <3> QED BY <2>1, <3>2, <3>3 DEF Known
  <2> HIDE DEF Behind
  <2>3. warm' \in [PostAccounts -> [stage : -1..3, days : Nat]]
    <3>1. warm' = [a \in PostAccounts |-> warm'[a]]
      BY <2>1
    <3> QED BY <2>2, <3>1
  <2> QED BY <2>1, <2>2, <2>3 DEF WarmInv, PostStage
<1>3. ASSUME NEW c, Advance(c) PROVE WarmInv'
  BY <1>3 DEF Advance, WarmInv
<1>4. CASE UNCHANGED portfolioVars
  BY <1>4 DEF portfolioVars, WarmInv
<1> QED BY <1>1, <1>2, <1>3, <1>4 DEF PortfolioNext, AllocateActs

LEMMA RankedFacts ==
  ASSUME NEW b
  PROVE  /\ Ranked(b) \in Seq(ToSet(Contents))
         /\ \A i, j \in 1..Len(Ranked(b)) : Ranked(b)[i] = Ranked(b)[j] => i = j
         /\ \A i \in 1..Len(Ranked(b)) : Bucket[content[Ranked(b)[i]].state] = b
         /\ \A c \in ToSet(Contents) : Bucket[content[c].state] = b => \E i \in 1..Len(Ranked(b)) : Ranked(b)[i] = c
<1> DEFINE A == {i \in DOMAIN Contents : Bucket[content[Contents[i]].state] = b}
           p == [n \in 1..Cardinality(A) |-> CHOOSE i \in A : Rank(A, i) = n]
<1>1. /\ Contents \in Seq(ToSet(Contents)) /\ Len(Contents) \in Nat /\ DOMAIN Contents = 1..Len(Contents)
      /\ \A i, j \in DOMAIN Contents : Contents[i] = Contents[j] => i = j
  BY PortfolioAssumption DEF IsInjective
<1>2. IsFiniteSet(A) /\ A \subseteq Nat \ {0} /\ Cardinality(A) \in Nat
  <2>1. IsFiniteSet(1..Len(Contents)) /\ A \subseteq 1..Len(Contents)
    BY <1>1, FS_Interval
  <2> QED BY <2>1, FS_Subset, FS_CardinalityType
<1>3. p \in Bijection(1..Cardinality(A), A)
  <2> HIDE DEF A
  <2> QED BY <1>2, PlacesInOrder
<1>4. /\ \A n \in 1..Cardinality(A) : p[n] \in A
      /\ \A n, m \in 1..Cardinality(A) : p[n] = p[m] => n = m
      /\ \A i \in A : \E n \in 1..Cardinality(A) : p[n] = i
  BY <1>3 DEF Bijection, Injection, Surjection, IsInjective
<1>5. Ranked(b) = [n \in 1..Cardinality(A) |-> Contents[p[n]]]
  BY DEF Ranked, Sifted, Rank
<1>6. \A i \in A : Contents[i] \in ToSet(Contents) /\ Bucket[content[Contents[i]].state] = b
  BY <1>1
<1>7. \A c \in ToSet(Contents) : Bucket[content[c].state] = b => \E i \in A : Contents[i] = c
  BY DEF ToSet
<1> HIDE DEF A, p
<1>8. Ranked(b) \in Seq(ToSet(Contents)) /\ Len(Ranked(b)) = Cardinality(A)
  <2>1. \A n \in 1..Cardinality(A) : Contents[p[n]] \in ToSet(Contents)
    BY <1>4, <1>6
  <2> HIDE DEF Ranked
  <2> QED BY <1>2, <1>5, <2>1
<1>9. A \subseteq DOMAIN Contents
  BY DEF A
<1>10. \A i, j \in 1..Cardinality(A) : Contents[p[i]] = Contents[p[j]] => i = j
  BY <1>1, <1>4, <1>9
<1>11. \A i \in A : \E n \in 1..Cardinality(A) : Ranked(b)[n] = Contents[i]
  BY <1>4, <1>5
<1>12. \A i \in 1..Cardinality(A) : Bucket[content[Contents[p[i]]].state] = b
  BY <1>4, <1>6
<1>13. \A i \in 1..Cardinality(A) : Ranked(b)[i] = Contents[p[i]]
  BY <1>5
<1> QED BY <1>7, <1>8, <1>10, <1>11, <1>12, <1>13

LEMMA Slices ==
  ASSUME NEW C, NEW s \in Seq(C), NEW n \in Nat
  PROVE  /\ UpTo(s, n) \in Seq(C) /\ Len(UpTo(s, n)) = (IF n < Len(s) THEN n ELSE Len(s))
         /\ \A i \in 1..Len(UpTo(s, n)) : UpTo(s, n)[i] = s[i]
         /\ Beyond(s, n) \in Seq(C) /\ Len(Beyond(s, n)) = (IF n < Len(s) THEN Len(s) - n ELSE 0)
         /\ \A i \in 1..Len(Beyond(s, n)) : Beyond(s, n)[i] = s[n + i]
<1>1. Len(s) \in Nat /\ \A i \in 1..Len(s) : s[i] \in C
  OBVIOUS
<1> DEFINE m == IF n < Len(s) THEN n ELSE Len(s)
<1>2. m \in Nat /\ m <= Len(s)
  BY <1>1
<1>3. UpTo(s, n) = SubSeq(s, 1, m)
  BY DEF UpTo
<1> HIDE DEF m
<1>4. /\ SubSeq(s, 1, m) \in Seq(C) /\ Len(SubSeq(s, 1, m)) = m
      /\ \A i \in 1..m : SubSeq(s, 1, m)[i] = s[i]
  <2>1. \A i \in 1..m : s[i] \in C
    BY <1>1, <1>2
  <2>2. /\ SubSeq(s, 1, m) \in Seq(C) /\ Len(SubSeq(s, 1, m)) = (IF 1 <= m THEN m - 1 + 1 ELSE 0)
        /\ \A i \in 1..m - 1 + 1 : SubSeq(s, 1, m)[i] = s[1 + i - 1]
    BY <1>2, <2>1, SubSeqProperties
  <2> QED BY <1>2, <2>2
<1>5. /\ Beyond(s, n) \in Seq(C) /\ Len(Beyond(s, n)) = (IF n < Len(s) THEN Len(s) - n ELSE 0)
      /\ \A i \in 1..Len(Beyond(s, n)) : Beyond(s, n)[i] = s[n + i]
  <2>1. \A i \in n + 1..Len(s) : s[i] \in C
    BY <1>1
  <2>2. /\ SubSeq(s, n + 1, Len(s)) \in Seq(C)
        /\ Len(SubSeq(s, n + 1, Len(s))) = (IF n + 1 <= Len(s) THEN Len(s) - (n + 1) + 1 ELSE 0)
        /\ \A i \in 1..Len(s) - (n + 1) + 1 : SubSeq(s, n + 1, Len(s))[i] = s[n + 1 + i - 1]
    BY <1>1, <2>1, SubSeqProperties
  <2> QED BY <1>1, <2>2 DEF Beyond
<1> QED BY <1>3, <1>4, <1>5 DEF m

\* Every budget is split up without a rest, and exploration gets a slot.
LEMMA SharesAddUp ==
  ASSUME NEW b \in Nat, b # 0
  PROVE  /\ Shares(b).winner \in Nat /\ Shares(b).normal \in Nat /\ Shares(b).explore \in Nat
         /\ Shares(b).explore >= 1
         /\ Shares(b).winner + Shares(b).normal + Shares(b).explore <= b
<1> DEFINE w == Round(60 * b, 100)
           n == Round(25 * b, 100)
<1>1. w \in Int /\ n \in Int /\ 100 * w <= 60 * b + 50 /\ 100 * w >= 60 * b - 50
      /\ 100 * n <= 25 * b + 50 /\ 100 * n >= 25 * b - 50
  BY DEF Round
<1>2. w >= 0 /\ n >= 0 /\ (b = 1 => n = 0)
  BY <1>1
<1> HIDE DEF w, n
<1> DEFINE e == IF b - w - n < 1 THEN 1 ELSE b - w - n
           over == w + n + e - b
<1>3. Shares(b) = [winner |-> IF over > 0 THEN w - over ELSE w, normal |-> n, explore |-> e]
  BY DEF Shares, w, n
<1>4. e \in Nat /\ e >= 1 /\ over \in Int /\ (over > 0 => w - over = b - n - 1)
  BY <1>1
<1>5. b - n - 1 >= 0
  BY <1>1, <1>2
<1> QED BY <1>1, <1>2, <1>3, <1>4, <1>5

\* A plan of the winners, the padding, the normals and what explores: where each
\* of its slots comes from.
LEMMA ChosenIsSound ==
  ASSUME NEW b \in Nat, b # 0
  PROVE  /\ Chosen(b) \in Seq([content : ToSet(Contents), bucket : {"winner", "normal", "explore"}])
         /\ Len(Chosen(b)) <= b
         /\ \A i, j \in 1..Len(Chosen(b)) : Chosen(b)[i].content = Chosen(b)[j].content => i = j
         /\ \A c \in ToSet(Contents) :
              /\ Bucket[content[c].state] \in {"normal", "explore"}
              /\ \A i \in 1..Len(Chosen(b)) : Chosen(b)[i].bucket # "explore" => Chosen(b)[i].content # c
              => \E i \in 1..Len(Chosen(b)) : Chosen(b)[i].bucket = "explore"
<1> DEFINE C == ToSet(Contents)
           W == Ranked("winner")
           N == Ranked("normal")
           E == Ranked("explore")
           sw == Shares(b).winner
           sn == Shares(b).normal
           se == Shares(b).explore
           pad == IF Len(W) < sw THEN UpTo(N, sw - Len(W)) ELSE <<>>
           rest == Beyond(N, Len(pad))
           more == Beyond(rest, sn)
           won == UpTo(W \o pad, sw)
           usual == UpTo(rest, sn)
           novel == UpTo(E \o more, se)
<1>1. Chosen(b) = InBucket(won, "winner") \o InBucket(usual, "normal") \o InBucket(novel, "explore")
  BY DEF Chosen
<1>2. sw \in Nat /\ sn \in Nat /\ se \in Nat /\ se >= 1 /\ sw + sn + se <= b
  BY SharesAddUp
<1>3. /\ W \in Seq(C) /\ N \in Seq(C) /\ E \in Seq(C)
      /\ Len(W) \in Nat /\ Len(N) \in Nat /\ Len(E) \in Nat
      /\ \A i, j \in 1..Len(W) : W[i] = W[j] => i = j
      /\ \A i, j \in 1..Len(N) : N[i] = N[j] => i = j
      /\ \A i, j \in 1..Len(E) : E[i] = E[j] => i = j
      /\ \A i \in 1..Len(W), j \in 1..Len(N) : W[i] # N[j]
      /\ \A i \in 1..Len(W), j \in 1..Len(E) : W[i] # E[j]
      /\ \A i \in 1..Len(N), j \in 1..Len(E) : N[i] # E[j]
  <2>1. /\ \A i \in 1..Len(W) : Bucket[content[W[i]].state] = "winner"
        /\ \A i \in 1..Len(N) : Bucket[content[N[i]].state] = "normal"
        /\ \A i \in 1..Len(E) : Bucket[content[E[i]].state] = "explore"
    BY RankedFacts
  <2>2. W \in Seq(C) /\ N \in Seq(C) /\ E \in Seq(C)
    BY RankedFacts
  <2>3. /\ \A i, j \in 1..Len(W) : W[i] = W[j] => i = j
        /\ \A i, j \in 1..Len(N) : N[i] = N[j] => i = j
        /\ \A i, j \in 1..Len(E) : E[i] = E[j] => i = j
    BY RankedFacts
  <2> HIDE DEF W, N, E, C
  <2>4. /\ \A i \in 1..Len(W), j \in 1..Len(N) : W[i] # N[j]
        /\ \A i \in 1..Len(W), j \in 1..Len(E) : W[i] # E[j]
        /\ \A i \in 1..Len(N), j \in 1..Len(E) : N[i] # E[j]
    BY <2>1
  <2>5. Len(W) \in Nat /\ Len(N) \in Nat /\ Len(E) \in Nat
    BY <2>2
  <2> QED BY <2>2, <2>3, <2>4, <2>5
<1>4. \A c \in C : /\ Bucket[content[c].state] = "explore" => \E i \in 1..Len(E) : E[i] = c
                   /\ Bucket[content[c].state] = "normal" => \E i \in 1..Len(N) : N[i] = c
  BY RankedFacts
<1> HIDE DEF W, N, E, sw, sn, se, C
<1>20. Len(W) \in Nat /\ Len(N) \in Nat /\ Len(E) \in Nat
  BY <1>3
<1>5. /\ pad \in Seq(C) /\ Len(pad) \in Nat /\ Len(pad) <= Len(N)
      /\ Len(W) < sw => Len(pad) <= sw - Len(W)
      /\ ~(Len(W) < sw) => Len(pad) = 0
      /\ \A i \in 1..Len(pad) : pad[i] = N[i]
  <2>1. CASE Len(W) < sw
    <3>1. sw - Len(W) \in Nat /\ pad = UpTo(N, sw - Len(W))
      BY <1>2, <1>3, <2>1
    <3>2. /\ UpTo(N, sw - Len(W)) \in Seq(C)
          /\ Len(UpTo(N, sw - Len(W))) = (IF sw - Len(W) < Len(N) THEN sw - Len(W) ELSE Len(N))
          /\ \A i \in 1..Len(UpTo(N, sw - Len(W))) : UpTo(N, sw - Len(W))[i] = N[i]
      BY <1>3, <3>1, Slices
    <3> QED BY <1>2, <1>3, <2>1, <3>1, <3>2
  <2>2. CASE ~(Len(W) < sw)
    <3>1. pad = <<>>
      BY <2>2
    <3> HIDE DEF pad
    <3> QED BY <1>3, <2>2, <3>1
  <2> QED BY <2>1, <2>2
<1> HIDE DEF pad
<1>21. /\ Len(pad) \in Nat /\ Len(pad) <= Len(N)
       /\ Len(W) < sw => Len(pad) <= sw - Len(W)
       /\ ~(Len(W) < sw) => Len(pad) = 0
  BY <1>5
<1>6. /\ rest \in Seq(C) /\ Len(rest) = Len(N) - Len(pad) /\ Len(rest) \in Nat
      /\ \A i \in 1..Len(rest) : rest[i] = N[Len(pad) + i]
  <2>1. /\ rest \in Seq(C) /\ Len(rest) = (IF Len(pad) < Len(N) THEN Len(N) - Len(pad) ELSE 0)
        /\ \A i \in 1..Len(rest) : rest[i] = N[Len(pad) + i]
    BY <1>3, <1>5, Slices
  <2> HIDE DEF rest
  <2>2. Len(rest) = Len(N) - Len(pad) /\ Len(rest) \in Nat
    BY <1>20, <1>21, <2>1
  <2> QED BY <2>1, <2>2
<1> HIDE DEF rest
<1>22. Len(rest) = Len(N) - Len(pad) /\ Len(rest) \in Nat
  BY <1>6
<1>7. /\ more \in Seq(C) /\ Len(more) = (IF sn < Len(rest) THEN Len(rest) - sn ELSE 0) /\ Len(more) \in Nat
      /\ \A i \in 1..Len(more) : more[i] = N[Len(pad) + sn + i]
  <2>1. /\ more \in Seq(C) /\ Len(more) = (IF sn < Len(rest) THEN Len(rest) - sn ELSE 0)
        /\ \A i \in 1..Len(more) : more[i] = rest[sn + i]
    BY <1>2, <1>6, Slices
  <2> HIDE DEF more
  <2>2. \A i \in 1..Len(more) : more[i] = N[Len(pad) + sn + i]
    <3> SUFFICES ASSUME NEW i \in 1..Len(more) PROVE more[i] = N[Len(pad) + sn + i]
      OBVIOUS
    <3>1. sn + i \in 1..Len(rest)
      BY <1>2, <1>6, <2>1
    <3>2. Len(pad) + (sn + i) = Len(pad) + sn + i
      BY <1>2, <1>5, <2>1
    <3> QED BY <1>6, <2>1, <3>1, <3>2
  <2> QED BY <1>2, <1>6, <2>1, <2>2
<1> HIDE DEF more
<1>23. Len(more) = (IF sn < Len(rest) THEN Len(rest) - sn ELSE 0) /\ Len(more) \in Nat
  BY <1>7
<1>8. /\ usual \in Seq(C) /\ Len(usual) \in Nat /\ Len(usual) <= sn /\ Len(usual) <= Len(rest)
      /\ Len(rest) <= sn => Len(usual) = Len(rest)
      /\ Len(rest) > sn => Len(usual) = sn
      /\ \A i \in 1..Len(usual) : usual[i] = N[Len(pad) + i]
  <2>1. /\ usual \in Seq(C) /\ Len(usual) = (IF sn < Len(rest) THEN sn ELSE Len(rest))
        /\ \A i \in 1..Len(usual) : usual[i] = rest[i]
    BY <1>2, <1>6, Slices
  <2> HIDE DEF usual
  <2> QED BY <1>2, <1>6, <2>1
<1> HIDE DEF usual
<1>24. /\ Len(usual) \in Nat /\ Len(usual) <= sn /\ Len(usual) <= Len(rest)
       /\ Len(rest) <= sn => Len(usual) = Len(rest)
       /\ Len(rest) > sn => Len(usual) = sn
  BY <1>8
<1>9. /\ won \in Seq(C) /\ Len(won) \in Nat /\ Len(won) <= sw /\ Len(won) <= Len(W) + Len(pad)
      /\ Len(W) < sw => Len(won) = Len(W) + Len(pad)
      /\ \A i \in 1..Len(won) : won[i] = IF i <= Len(W) THEN W[i] ELSE N[i - Len(W)]
  <2>1. /\ W \o pad \in Seq(C) /\ Len(W \o pad) = Len(W) + Len(pad)
        /\ \A i \in 1..Len(W) + Len(pad) : (W \o pad)[i] = IF i <= Len(W) THEN W[i] ELSE pad[i - Len(W)]
    BY <1>3, <1>5
  <2>2. /\ won \in Seq(C) /\ Len(won) = (IF sw < Len(W) + Len(pad) THEN sw ELSE Len(W) + Len(pad))
        /\ \A i \in 1..Len(won) : won[i] = (W \o pad)[i]
    BY <1>2, <2>1, Slices
  <2> HIDE DEF won
  <2>3. ASSUME NEW i \in 1..Len(won) PROVE won[i] = IF i <= Len(W) THEN W[i] ELSE N[i - Len(W)]
    <3>1. i \in 1..Len(W) + Len(pad)
      BY <1>2, <1>3, <1>5, <2>2
    <3>2. ~(i <= Len(W)) => i - Len(W) \in 1..Len(pad)
      BY <1>3, <1>5, <3>1
    <3> QED BY <1>5, <2>1, <2>2, <3>1, <3>2
  <2> QED BY <1>2, <1>3, <1>5, <2>2, <2>3
<1> HIDE DEF won
<1>25. /\ Len(won) \in Nat /\ Len(won) <= sw /\ Len(won) <= Len(W) + Len(pad)
       /\ Len(W) < sw => Len(won) = Len(W) + Len(pad)
  BY <1>9
<1>10. /\ novel \in Seq(C) /\ Len(novel) \in Nat /\ Len(novel) <= se /\ Len(novel) <= Len(E) + Len(more)
       /\ Len(E) + Len(more) >= 1 => Len(novel) >= 1
       /\ \A i \in 1..Len(novel) : novel[i] = IF i <= Len(E) THEN E[i] ELSE N[Len(pad) + sn + (i - Len(E))]
  <2>1. /\ E \o more \in Seq(C) /\ Len(E \o more) = Len(E) + Len(more)
        /\ \A i \in 1..Len(E) + Len(more) : (E \o more)[i] = IF i <= Len(E) THEN E[i] ELSE more[i - Len(E)]
    BY <1>3, <1>7
  <2>2. /\ novel \in Seq(C) /\ Len(novel) = (IF se < Len(E) + Len(more) THEN se ELSE Len(E) + Len(more))
        /\ \A i \in 1..Len(novel) : novel[i] = (E \o more)[i]
    BY <1>2, <2>1, Slices
  <2> HIDE DEF novel
  <2>3. ASSUME NEW i \in 1..Len(novel)
        PROVE  novel[i] = IF i <= Len(E) THEN E[i] ELSE N[Len(pad) + sn + (i - Len(E))]
    <3>1. i \in 1..Len(E) + Len(more)
      BY <1>2, <1>3, <1>7, <2>2
    <3>2. ~(i <= Len(E)) => i - Len(E) \in 1..Len(more)
      BY <1>3, <1>7, <3>1
    <3> QED BY <1>7, <2>1, <2>2, <3>1, <3>2
  <2> QED BY <1>2, <1>3, <1>7, <2>2, <2>3
<1> HIDE DEF novel
<1>26. /\ Len(novel) \in Nat /\ Len(novel) <= se /\ Len(novel) <= Len(E) + Len(more)
       /\ Len(E) + Len(more) >= 1 => Len(novel) >= 1
  BY <1>10
<1> DEFINE l == Len(won)
           m == Len(won) + Len(usual)
           k == Len(won) + Len(usual) + Len(novel)
           all == Chosen(b)
<1>11. /\ Len(all) = k /\ l \in Nat /\ m \in Nat /\ k \in Nat
       /\ \A i \in 1..k : all[i] = IF i <= l THEN [content |-> won[i], bucket |-> "winner"]
                                   ELSE IF i <= m THEN [content |-> usual[i - l], bucket |-> "normal"]
                                   ELSE [content |-> novel[i - m], bucket |-> "explore"]
       /\ all \in Seq([content : C, bucket : {"winner", "normal", "explore"}])
  <2> DEFINE R == [content : C, bucket : {"winner", "normal", "explore"}]
  <2>1. ASSUME NEW s \in Seq(C), NEW q \in {"winner", "normal", "explore"}
        PROVE  /\ InBucket(s, q) \in Seq(R) /\ Len(InBucket(s, q)) = Len(s)
               /\ \A i \in 1..Len(s) : InBucket(s, q)[i] = [content |-> s[i], bucket |-> q]
    <3>1. InBucket(s, q) = [i \in 1..Len(s) |-> [content |-> s[i], bucket |-> q]]
      BY DEF InBucket
    <3>2. \A i \in 1..Len(s) : [content |-> s[i], bucket |-> q] \in R
      OBVIOUS
    <3> HIDE DEF R
    <3> QED BY <3>1, <3>2
  <2> DEFINE x == InBucket(won, "winner")
             y == InBucket(usual, "normal")
             z == InBucket(novel, "explore")
  <2>2. /\ x \in Seq(R) /\ Len(x) = Len(won) /\ \A i \in 1..Len(won) : x[i] = [content |-> won[i], bucket |-> "winner"]
        /\ y \in Seq(R) /\ Len(y) = Len(usual) /\ \A i \in 1..Len(usual) : y[i] = [content |-> usual[i], bucket |-> "normal"]
        /\ z \in Seq(R) /\ Len(z) = Len(novel) /\ \A i \in 1..Len(novel) : z[i] = [content |-> novel[i], bucket |-> "explore"]
    <3> HIDE DEF R
    <3> QED BY <1>8, <1>9, <1>10, <2>1
  <2>3. all = x \o y \o z
    BY <1>1
  <2> HIDE DEF R, x, y, z, all
  <2>7. x \in Seq(R) /\ y \in Seq(R) /\ z \in Seq(R) /\ Len(x) = Len(won) /\ Len(y) = Len(usual) /\ Len(z) = Len(novel)
    BY <2>2
  <2> DEFINE xy == x \o y
  <2>4. /\ xy \in Seq(R) /\ Len(xy) = m
        /\ \A i \in 1..m : xy[i] = IF i <= l THEN x[i] ELSE y[i - l]
    <3>1. /\ x \o y \in Seq(R) /\ Len(x \o y) = Len(x) + Len(y)
          /\ \A i \in 1..Len(x) + Len(y) : (x \o y)[i] = IF i <= Len(x) THEN x[i] ELSE y[i - Len(x)]
      BY <2>7, ConcatProperties
    <3> QED BY <2>7, <3>1
  <2> HIDE DEF xy
  <2>5. /\ all \in Seq(R) /\ Len(all) = k
        /\ \A i \in 1..k : all[i] = IF i <= m THEN xy[i] ELSE z[i - m]
    <3>1. all = xy \o z
      BY <2>3 DEF xy
    <3>2. /\ xy \o z \in Seq(R) /\ Len(xy \o z) = Len(xy) + Len(z)
          /\ \A i \in 1..Len(xy) + Len(z) : (xy \o z)[i] = IF i <= Len(xy) THEN xy[i] ELSE z[i - Len(xy)]
      <4>1. xy \in Seq(R) /\ z \in Seq(R)
        BY <2>4, <2>7
      <4> QED BY <4>1, ConcatProperties
    <3> QED BY <2>4, <2>7, <3>1, <3>2
  <2>6. ASSUME NEW i \in 1..k
        PROVE  all[i] = IF i <= l THEN [content |-> won[i], bucket |-> "winner"]
                        ELSE IF i <= m THEN [content |-> usual[i - l], bucket |-> "normal"]
                        ELSE [content |-> novel[i - m], bucket |-> "explore"]
    <3>1. CASE i <= l
      <4>1. i \in 1..Len(won) /\ i \in 1..m /\ i <= m
        BY <1>24, <1>25, <1>26, <3>1
      <4> QED BY <2>2, <2>4, <2>5, <3>1, <4>1
    <3>2. CASE ~(i <= l) /\ i <= m
      <4>1. i - l \in 1..Len(usual) /\ i \in 1..m
        BY <1>24, <1>25, <3>2
      <4> QED BY <2>2, <2>4, <2>5, <3>2, <4>1
    <3>3. CASE ~(i <= m)
      <4>1. i - m \in 1..Len(novel) /\ ~(i <= l)
        BY <1>24, <1>25, <1>26, <3>3
      <4> QED BY <2>2, <2>5, <3>3, <4>1
    <3> QED BY <3>1, <3>2, <3>3
  <2> QED BY <1>24, <1>25, <1>26, <2>5, <2>6 DEF R
<1>12. k <= b
  BY <1>2, <1>24, <1>25, <1>26
<1> DEFINE FromW(i) == i <= l /\ i <= Len(W)
           FromE(i) == i > m /\ i - m <= Len(E)
           place(i) == IF i <= l THEN i - Len(W) ELSE IF i <= m THEN Len(pad) + (i - l)
                       ELSE Len(pad) + sn + ((i - m) - Len(E))
<1> HIDE DEF all
<1>13. ASSUME NEW i \in 1..k
       PROVE  /\ all[i].bucket = IF i <= l THEN "winner" ELSE IF i <= m THEN "normal" ELSE "explore"
              /\ FromW(i) => i \in 1..Len(W) /\ all[i].content = W[i]
              /\ FromE(i) => i - m \in 1..Len(E) /\ all[i].content = E[i - m]
              /\ ~FromW(i) /\ ~FromE(i) => place(i) \in 1..Len(N) /\ all[i].content = N[place(i)]
  <2>1. CASE i <= l
    <3>1. all[i] = [content |-> won[i], bucket |-> "winner"] /\ i \in 1..Len(won) /\ ~FromE(i)
      BY <1>24, <1>25, <1>26, <1>11, <2>1
    <3>2. won[i] = IF i <= Len(W) THEN W[i] ELSE N[i - Len(W)]
      BY <1>9, <3>1
    <3>3. i <= Len(W) => i \in 1..Len(W)
      BY <1>20, <3>1
    <3>4. ~(i <= Len(W)) => i - Len(W) \in 1..Len(N)
      BY <1>2, <1>20, <1>21, <1>25, <3>1
    <3> QED BY <2>1, <3>1, <3>2, <3>3, <3>4
  <2>2. CASE ~(i <= l) /\ i <= m
    <3>1. all[i] = [content |-> usual[i - l], bucket |-> "normal"] /\ i - l \in 1..Len(usual) /\ ~FromE(i) /\ ~FromW(i)
      BY <1>24, <1>25, <1>26, <1>11, <2>2
    <3>2. usual[i - l] = N[Len(pad) + (i - l)]
      BY <1>8, <3>1
    <3>3. Len(pad) + (i - l) \in 1..Len(N)
      BY <1>20, <1>21, <1>22, <1>24, <3>1
    <3> QED BY <2>2, <3>1, <3>2, <3>3
  <2>3. CASE ~(i <= m)
    <3>1. all[i] = [content |-> novel[i - m], bucket |-> "explore"] /\ i - m \in 1..Len(novel) /\ ~(i <= l) /\ ~FromW(i)
      BY <1>24, <1>25, <1>26, <1>11, <2>3
    <3>2. novel[i - m] = IF i - m <= Len(E) THEN E[i - m] ELSE N[Len(pad) + sn + ((i - m) - Len(E))]
      BY <1>10, <3>1
    <3>3. i - m <= Len(E) => i - m \in 1..Len(E)
      BY <1>20, <3>1
    <3>4. ~(i - m <= Len(E)) => Len(pad) + sn + ((i - m) - Len(E)) \in 1..Len(N)
      <4>1. ASSUME NEW o \in 1..Len(novel), ~(o <= Len(E)) PROVE Len(pad) + sn + (o - Len(E)) \in 1..Len(N)
        <5>1. o - Len(E) >= 1 /\ o - Len(E) <= Len(more)
          BY <1>20, <1>23, <1>26, <4>1
        <5>2. Len(more) = Len(rest) - sn
          BY <1>2, <1>20, <1>22, <1>23, <5>1
        <5> QED BY <1>2, <1>20, <1>21, <1>22, <5>1, <5>2
      <4> QED BY <3>1, <4>1
    <3>5. i > m
      BY <1>11, <2>3
    <3> QED BY <2>3, <3>1, <3>2, <3>3, <3>4, <3>5
  <2> QED BY <2>1, <2>2, <2>3
<1>14. ASSUME NEW i \in 1..k, NEW j \in 1..k, ~FromW(i), ~FromE(i), ~FromW(j), ~FromE(j), place(i) = place(j)
       PROVE  i = j
  <2>1. ASSUME NEW x \in 1..k, ~FromW(x), ~FromE(x)
        PROVE  /\ x <= l => place(x) = x - Len(W) /\ place(x) <= Len(pad)
               /\ x > l /\ x <= m => place(x) = Len(pad) + (x - l) /\ place(x) > Len(pad) /\ place(x) <= Len(pad) + sn
               /\ x > m => place(x) = Len(pad) + sn + ((x - m) - Len(E)) /\ place(x) > Len(pad) + sn
    <3>1. x \in Nat /\ m - l \in Nat /\ m - l <= sn /\ l \in Nat /\ m \in Nat /\ (x <= l => x <= m)
      BY <1>2, <1>24, <1>25, <1>26, <2>1
    <3>2. x <= l => place(x) = x - Len(W) /\ place(x) <= Len(pad)
      BY <1>20, <1>21, <1>25, <2>1, <3>1
    <3>3. x > l /\ x <= m => place(x) = Len(pad) + (x - l) /\ place(x) > Len(pad) /\ place(x) <= Len(pad) + sn
      BY <1>2, <1>21, <3>1
    <3>4. x > m => place(x) = Len(pad) + sn + ((x - m) - Len(E)) /\ place(x) > Len(pad) + sn
      BY <1>2, <1>20, <1>21, <2>1, <3>1
    <3> QED BY <3>2, <3>3, <3>4
  <2>2. /\ i \in Nat /\ j \in Nat /\ l \in Nat /\ m \in Nat /\ l <= m /\ Len(W) \in Nat /\ Len(pad) \in Nat
        /\ sn \in Nat /\ Len(E) \in Nat
    BY <1>2, <1>20, <1>21, <1>24, <1>25, <1>26
  <2>3. /\ i <= l => place(i) = i - Len(W) /\ place(i) <= Len(pad)
        /\ i > l /\ i <= m => place(i) = Len(pad) + (i - l) /\ place(i) > Len(pad) /\ place(i) <= Len(pad) + sn
        /\ i > m => place(i) = Len(pad) + sn + ((i - m) - Len(E)) /\ place(i) > Len(pad) + sn
    BY <1>14, <2>1
  <2>4. /\ j <= l => place(j) = j - Len(W) /\ place(j) <= Len(pad)
        /\ j > l /\ j <= m => place(j) = Len(pad) + (j - l) /\ place(j) > Len(pad) /\ place(j) <= Len(pad) + sn
        /\ j > m => place(j) = Len(pad) + sn + ((j - m) - Len(E)) /\ place(j) > Len(pad) + sn
    BY <1>14, <2>1
  <2>5. place(i) = place(j)
    BY <1>14
  <2> DEFINE pi == place(i)
             pj == place(j)
             w == Len(W)
             d == Len(pad)
             x == Len(E)
  <2>6. /\ i \in Nat /\ j \in Nat /\ l \in Nat /\ m \in Nat /\ l <= m /\ w \in Nat /\ d \in Nat /\ sn \in Nat /\ x \in Nat
        /\ i <= l => pi = i - w /\ pi <= d
        /\ i > l /\ i <= m => pi = d + (i - l) /\ pi > d /\ pi <= d + sn
        /\ i > m => pi = d + sn + ((i - m) - x) /\ pi > d + sn
        /\ j <= l => pj = j - w /\ pj <= d
        /\ j > l /\ j <= m => pj = d + (j - l) /\ pj > d /\ pj <= d + sn
        /\ j > m => pj = d + sn + ((j - m) - x) /\ pj > d + sn
        /\ pi = pj
    BY <2>2, <2>3, <2>4, <2>5
  <2> HIDE DEF place, pi, pj, w, d, x
  <2>7. CASE i <= l
    BY <2>6, <2>7
  <2>8. CASE i > l /\ i <= m
    BY <2>6, <2>8
  <2>9. CASE i > m
    BY <2>6, <2>9
  <2> QED BY <2>6, <2>7, <2>8, <2>9
<1>15. \A i, j \in 1..k : all[i].content = all[j].content => i = j
  <2> SUFFICES ASSUME NEW i \in 1..k, NEW j \in 1..k, all[i].content = all[j].content PROVE i = j
    OBVIOUS
  <2>1. i \in Nat /\ j \in Nat /\ m \in Nat
    BY <1>11
  <2>2. /\ FromW(i) => i \in 1..Len(W) /\ all[i].content = W[i]
        /\ FromE(i) => i - m \in 1..Len(E) /\ all[i].content = E[i - m]
        /\ ~FromW(i) /\ ~FromE(i) => place(i) \in 1..Len(N) /\ all[i].content = N[place(i)]
    BY <1>13
  <2>3. /\ FromW(j) => j \in 1..Len(W) /\ all[j].content = W[j]
        /\ FromE(j) => j - m \in 1..Len(E) /\ all[j].content = E[j - m]
        /\ ~FromW(j) /\ ~FromE(j) => place(j) \in 1..Len(N) /\ all[j].content = N[place(j)]
    BY <1>13
  <2>4. ~FromW(i) /\ ~FromE(i) /\ ~FromW(j) /\ ~FromE(j) /\ place(i) = place(j) => i = j
    BY <1>14
  <2> HIDE DEF place, FromW, FromE, m
  <2>5. CASE FromW(i)
    BY <1>3, <2>2, <2>3, <2>5
  <2>6. CASE FromE(i) /\ ~FromW(i)
    <3>1. FromE(j) /\ i - m = j - m
      BY <1>3, <2>2, <2>3, <2>6
    <3> QED BY <2>1, <3>1
  <2>7. CASE ~FromW(i) /\ ~FromE(i)
    <3>1. ~FromW(j) /\ ~FromE(j) /\ place(i) = place(j)
      BY <1>3, <2>2, <2>3, <2>7
    <3> QED BY <2>4, <2>7, <3>1
  <2> QED BY <2>5, <2>6, <2>7
<1>16. ASSUME NEW c \in C, Bucket[content[c].state] \in {"normal", "explore"},
              \A i \in 1..k : all[i].bucket # "explore" => all[i].content # c
       PROVE  \E i \in 1..k : all[i].bucket = "explore"
  <2>1. Len(E) + Len(more) >= 1
    <3>1. CASE Bucket[content[c].state] = "explore"
      BY <1>4, <1>16, <1>20, <1>23, <3>1
    <3>2. CASE Bucket[content[c].state] = "normal"
      <4>1. PICK n \in 1..Len(N) : N[n] = c
        BY <1>4, <1>16, <3>2
      <4>2. ~(n <= Len(pad))
        <5> SUFFICES ASSUME n <= Len(pad) PROVE FALSE
          OBVIOUS
        <5>1. Len(W) + n \in 1..l /\ Len(W) + n \in 1..k /\ ~(Len(W) + n <= Len(W))
          BY <1>2, <1>20, <1>21, <1>24, <1>25, <1>26
        <5>2. all[Len(W) + n] = [content |-> won[Len(W) + n], bucket |-> "winner"]
          BY <1>11, <5>1
        <5>3. won[Len(W) + n] = N[(Len(W) + n) - Len(W)] /\ (Len(W) + n) - Len(W) = n
          BY <1>9, <1>20, <5>1
        <5> QED BY <1>16, <4>1, <5>1, <5>2, <5>3
      <4>3. ~(n - Len(pad) <= Len(usual))
        <5> SUFFICES ASSUME n - Len(pad) <= Len(usual) PROVE FALSE
          OBVIOUS
        <5> DEFINE x == l + (n - Len(pad))
        <5>1. x \in 1..k /\ ~(x <= l) /\ x <= m /\ x - l = n - Len(pad) /\ n - Len(pad) \in 1..Len(usual)
          BY <1>20, <1>21, <1>24, <1>25, <1>26, <4>2
        <5> HIDE DEF x
        <5>2. all[x] = [content |-> usual[x - l], bucket |-> "normal"]
          BY <1>11, <5>1
        <5>3. usual[x - l] = N[Len(pad) + (n - Len(pad))] /\ Len(pad) + (n - Len(pad)) = n
          <6>1. usual[n - Len(pad)] = N[Len(pad) + (n - Len(pad))]
            BY <1>8, <5>1
          <6>2. Len(pad) + (n - Len(pad)) = n
            BY <1>20, <1>21
          <6> QED BY <5>1, <6>1, <6>2
        <5> QED BY <1>16, <4>1, <5>1, <5>2, <5>3
      <4> QED BY <1>2, <1>20, <1>21, <1>22, <1>23, <1>24, <4>2, <4>3
    <3> QED BY <1>16, <3>1, <3>2
  <2>2. m + 1 \in 1..k /\ ~(m + 1 <= l) /\ ~(m + 1 <= m)
    BY <1>24, <1>25, <1>26, <2>1
  <2>3. all[m + 1].bucket = "explore"
    BY <1>11, <2>2
  <2> QED BY <2>2, <2>3
<1> QED BY <1>11, <1>12, <1>15, <1>16 DEF C, all

LEMMA AllocateIsSound ==
  ASSUME WarmInv, NEW b \in Nat, NEW free \in SUBSET PostAccounts, NEW locked \in SUBSET free,
         Allocate(b, free, locked)
  PROVE  SoundPlan'
<1> DEFINE A == RankAccounts(free, locked)
           U == Unchecked(free, locked)
           ready == SetToSeq(A)
           picks == IF b = 0 \/ ready = <<>> THEN <<>> ELSE Chosen(b)
           slots == [i \in DOMAIN picks |->
                       [content |-> picks[i].content, bucket |-> picks[i].bucket,
                        account |-> ready[((i - 1) % Len(ready)) + 1]]]
<1>1. /\ allotment' = [budget |-> b, unchecked |-> U, slots |-> slots]
      /\ content' = content /\ acquainted' = acquainted
  BY DEF Allocate
<1>2. IsFiniteSet(A) /\ A \subseteq PostAccounts /\ Cardinality(A) \in Nat
  BY PortfolioAssumption, FS_Subset, FS_CardinalityType DEF RankAccounts, Unchecked
<1>3. ready \in [1..Cardinality(A) -> A]
  <2>1. ExistsBijection(1..Cardinality(A), A)
    BY <1>2, FS_CardinalityType
  <2>2. \E f \in [1..Cardinality(A) -> A] : IsInjective(f)
    BY <2>1 DEF ExistsBijection, Bijection, Injection
  <2> QED BY <2>2 DEF SetToSeq
<1>4. /\ Len(ready) = Cardinality(A) /\ Len(ready) \in Nat /\ \A i \in 1..Len(ready) : ready[i] \in A
      /\ Len(ready) = 0 => ready = <<>>
  <2> HIDE DEF A
  <2> QED BY <1>2, <1>3
<1>5. ASSUME NEW a \in A, a \notin U PROVE acquainted[a] >= StageDays[0] + StageDays[1] + StageDays[2]
  <2>1. a \in PostAccounts /\ Known(warm[a]).stage >= 3
    BY <1>2, <1>5 DEF RankAccounts, PostStage
  <2>2. warm[a].stage = 3
    BY <2>1 DEF Known, WarmInv, PostStage
  <2>3. acquainted[a] >= Behind(3)
    BY <2>1, <2>2, PortfolioAssumption DEF WarmInv, PostStage, Behind
  <2> QED BY <2>3 DEF Behind
<1> HIDE DEF A, U, ready
<1>6. CASE b = 0 \/ ready = <<>>
  <2>1. picks = <<>>
    BY <1>6
  <2>2. slots = <<>> /\ Len(slots) = 0 /\ DOMAIN slots = {}
    BY <2>1
  <2> HIDE DEF picks, slots
  <2>3. allotment'.slots = <<>> /\ allotment'.budget = b
    BY <1>1, <2>2
  <2>4. (ContentOf(DOMAIN allotment.slots))' = {}
    BY <2>2, <2>3 DEF ContentOf
  <2>5. Cardinality((ContentOf(DOMAIN allotment.slots))') = 0 /\ Len(allotment'.slots) = 0
    BY <2>2, <2>3, <2>4, FS_EmptySet
  <2>6. Len(allotment'.slots) <= allotment'.budget /\ DOMAIN allotment'.slots = {}
    BY <2>2, <2>3, <2>5
  <2> QED BY <2>3, <2>5, <2>6 DEF SoundPlan
<1>7. CASE b # 0 /\ ready # <<>>
  <2>1. /\ picks \in Seq([content : ToSet(Contents), bucket : {"winner", "normal", "explore"}])
        /\ Len(picks) <= b
        /\ \A i, j \in 1..Len(picks) : picks[i].content = picks[j].content => i = j
        /\ \A c \in ToSet(Contents) :
             /\ Bucket[content[c].state] \in {"normal", "explore"}
             /\ \A i \in 1..Len(picks) : picks[i].bucket # "explore" => picks[i].content # c
             => \E i \in 1..Len(picks) : picks[i].bucket = "explore"
    <3>1. picks = Chosen(b)
      BY <1>7
    <3> HIDE DEF picks
    <3> QED BY <1>7, <3>1, ChosenIsSound
  <2> HIDE DEF picks
  <2>2. Len(picks) \in Nat /\ DOMAIN picks = 1..Len(picks)
    BY <2>1
  <2>3. \A i \in 1..Len(picks) : /\ slots[i].content = picks[i].content /\ slots[i].bucket = picks[i].bucket
                                 /\ slots[i].account = ready[((i - 1) % Len(ready)) + 1]
    BY <2>2
  <2>4. DOMAIN slots = 1..Len(picks) /\ Len(slots) = Len(picks)
    BY <2>2
  <2> HIDE DEF slots
  <2>5. allotment'.slots = slots /\ allotment'.budget = b /\ allotment'.unchecked = U
    BY <1>1
  <2> DEFINE T == {slots[i].content : i \in 1..Len(picks)}
  <2>6. (ContentOf(DOMAIN allotment.slots))' = T
    BY <2>4, <2>5 DEF ContentOf
  <2>7. Cardinality(T) = Len(picks)
    <3> DEFINE f == [i \in 1..Len(picks) |-> slots[i].content]
    <3>1. f \in Bijection(1..Len(picks), T)
      <4>1. f \in [1..Len(picks) -> T] /\ \A x \in T : \E i \in 1..Len(picks) : f[i] = x
        OBVIOUS
      <4>2. \A i, j \in 1..Len(picks) : f[i] = f[j] => i = j
        BY <2>1, <2>3
      <4> QED BY <4>1, <4>2 DEF Bijection, Injection, Surjection, IsInjective
    <3> HIDE DEF f, T
    <3> QED BY <2>2, <3>1, FS_CountingElements DEF ExistsBijection
  <2>8. \A i \in DOMAIN slots :
          slots[i].account \in U \/ acquainted[slots[i].account] >= StageDays[0] + StageDays[1] + StageDays[2]
    <3> SUFFICES ASSUME NEW i \in 1..Len(picks), slots[i].account \notin U
                 PROVE  acquainted[slots[i].account] >= StageDays[0] + StageDays[1] + StageDays[2]
      BY <2>4
    <3>1. Len(ready) > 0
      BY <1>4, <1>7
    <3>2. (i - 1) % Len(ready) \in 0..Len(ready) - 1
      BY <1>4, <2>2, <3>1
    <3>3. ((i - 1) % Len(ready)) + 1 \in 1..Len(ready)
      BY <1>4, <3>2
    <3> QED BY <1>4, <1>5, <2>3, <3>3
  <2>9. ASSUME NEW c \in Explorable' PROVE (SlotsOf("explore"))' # {}
    <3>1. /\ c \in ToSet(Contents) /\ Bucket[content[c].state] \in {"normal", "explore"}
          /\ \A i \in DOMAIN slots : slots[i].bucket \in {"winner", "normal"} => slots[i].content # c
      BY <1>1, <2>5, <2>9 DEF Explorable, ContentOf, SlotsOf
    <3>2. \A i \in 1..Len(picks) : picks[i].bucket \in {"winner", "normal", "explore"}
      <4>1. \A i \in 1..Len(picks) : picks[i] \in [content : ToSet(Contents), bucket : {"winner", "normal", "explore"}]
        BY <2>1, ElementOfSeq
      <4> QED BY <4>1
    <3>3. \A i \in 1..Len(picks) : picks[i].bucket # "explore" => picks[i].content # c
      BY <2>3, <2>4, <3>1, <3>2
    <3>4. \E i \in 1..Len(picks) : picks[i].bucket = "explore"
      BY <2>1, <3>1, <3>3
    <3> QED BY <2>3, <2>4, <2>5, <3>4 DEF SlotsOf
  <2> QED BY <1>1, <2>1, <2>4, <2>5, <2>6, <2>7, <2>8, <2>9 DEF SoundPlan
<1> QED BY <1>6, <1>7

\* For any candidates, budgets and lengths of the stages: a plan keeps to its
\* budget, books no content twice, always leaves exploration its slot, and
\* of the accounts it checked books only those that have been known for the whole
\* of the warm-up, whether or not the warm-up is switched on.
THEOREM PlansAreSound == ASSUME NEW rows PROVE PortfolioSpec(rows) => PlanIsSound
<1>1. PortfolioInit(rows) => WarmInv
  BY DEF PortfolioInit, WarmInv, Behind, PostStage
<1>2. WarmInv /\ [PortfolioNext]_portfolioVars => WarmInv'
  BY PortfolioKeepsWarm
<1>3. WarmInv /\ [PortfolioNext]_portfolioVars => [allotment' # allotment => SoundPlan']_portfolioVars
  <2> SUFFICES ASSUME WarmInv, PortfolioNext, allotment' # allotment PROVE SoundPlan'
    BY DEF portfolioVars
  <2>1. PICK b \in Budgets, free \in SUBSET PostAccounts : \E locked \in SUBSET free : Allocate(b, free, locked)
    BY DEF PortfolioNext, AllocateActs, Advance, WarmUpActs, WarmupDay, WarmupSession
  <2> QED BY <2>1, AllocateIsSound, PortfolioAssumption
<1> QED BY <1>1, <1>2, <1>3, PTL DEF PortfolioSpec, PlanIsSound
=============================================================================
