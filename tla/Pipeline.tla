------------------------------- MODULE Pipeline -------------------------------
(***************************************************************************)
(* One cycle of the simulation after the other (core/pipeline.py,          *)
(* run_cycle): plans and their gates, the ranking of the posts, what each  *)
(* account's post teaches the engines, its revenue and profit, and what    *)
(* becomes of the clusters. Every stage has a try of its own: one that     *)
(* raises leaves nothing and the next one goes on. The feed, the           *)
(* engagement, the optimizer and the learners are data: an outcome, a risk *)
(* picked from RawRisks, the set of learners that know an account.         *)
(***************************************************************************)
EXTENDS Attribution, Scaling, Swarm

CONSTANTS
  Ours,                \* the process that runs the pipeline
  ContentOf,           \* Accounts -> Contents: <account>:<niche>:<intent>, ids with ':' in them
  Roles,               \* of a plan
  RawRisks,            \* what the detector may make of the logs, thousandths
  Restricted, HardStop,\* RISK_RESTRICT, RISK_HARD_STOP
  Breakdowns,          \* the sets of stages that may raise for an account
  ThrottlePosts, PausePosts, PauseLoss,  \* of a page
  MaxRounds            \* bound: cycles

ASSUME OursIsALedger == Ours \in Ledgers /\ \A a \in Accounts : ContentOf[a] \in Contents \cap Scaled

VARIABLES
  inCycle,             \* the locals of run_cycle
  risk,                \* _RISK_MEMORY of the detector
  pageMetrics,         \* table page_metrics
  taught,              \* the learners each account has left something in
  stopped,             \* ghost: accounts at the hard stop when some cycle began
  report               \* the report of the last cycle: how many accounts took part

pipelineVars == <<inCycle, risk, pageMetrics, taught, stopped, report>>
sharedVars == <<ledgerVars, scalingVars, swarmVars>>

NotRated == -1
NoBody == "nobody"
RoundIdle == [step |-> "idle", posts |-> {}, left |-> {}, at |-> NoBody, engaged |-> {}, logs |-> {}]
NewPage == [posts |-> 0, costs |-> 0, earned |-> 0, status |-> "none"]

PipelineInit ==
  /\ inCycle = RoundIdle
  /\ risk = [a \in Accounts |-> NotRated]
  /\ pageMetrics = [a \in Accounts |-> NewPage]
  /\ taught = [a \in Accounts |-> {}] /\ stopped = {}
  /\ report = [cycle |-> 0, active |-> {}]

-----------------------------------------------------------------------------
(* Phase 1 and 2: plans, gates, ranking                                    *)

RiskScore(a) == IF risk[a] = NotRated THEN 0 ELSE risk[a]
AtHardStop == {a \in Accounts : RiskScore(a) >= HardStop}

\* strategy_risk_gate. The caller swallows what it raises, and would go on with
\* the plan; but it reads a dictionary and compares two floats, which never raises.
RiskAllows(a, role) ==
  /\ RiskScore(a) < HardStop
  /\ RiskScore(a) > Restricted => role # "HARVESTER"

\* Mutant: the risk gate is asked of the roles that post only.
PassesUnlessIdle(a, role, dropped) ==
  /\ role = "IDLE" \/ RiskAllows(a, role)
  /\ role # "IDLE" => a \notin dropped
  /\ ~Silenced(clusterOf[a])

\* A plan becomes a post: the risk gate, the content gate (not of an idle
\* role, and open when it raises), the silence of the cluster.
BecomesPost(a, role, dropped) ==
  /\ RiskAllows(a, role)
  /\ role # "IDLE" => a \notin dropped
  /\ ~Silenced(clusterOf[a])

PlanCycle ==
  /\ inCycle.step = "idle" /\ report.cycle < MaxRounds
  /\ \E role \in [Accounts -> Roles \cup {"none"}], dropped \in SUBSET Accounts :
       LET posts == {a \in Accounts : role[a] # "none" /\ BecomesPost(a, role[a], dropped)}
       IN inCycle' = [RoundIdle EXCEPT !.step = IF posts = {} THEN "settle" ELSE "rank", !.posts = posts]
  /\ stopped' = stopped \cup AtHardStop
  /\ UNCHANGED <<risk, pageMetrics, taught, report, sharedVars>>

\* rank_batch ranks all posts or raises, and then every account is skipped.
RankPosts ==
  /\ inCycle.step = "rank"
  /\ \/ inCycle' = [inCycle EXCEPT !.step = "engage", !.left = inCycle.posts]
     \/ inCycle' = [inCycle EXCEPT !.step = "settle"]
  /\ UNCHANGED <<risk, pageMetrics, taught, stopped, report, sharedVars>>

-----------------------------------------------------------------------------
(* Phase 3: an account's post                                              *)

Learners == {"metrics", "policy", "interests", "strategy", "embedding"}

\* evaluate: the first score stands, the later ones are averaged.
Rated(old, raw) == IF old = NotRated THEN raw ELSE (7 * old + 3 * raw) \div 10

\* Stages 3 to 9: simulation (one that fails counts as no success and no ban,
\* and only the metrics know better), observer, detector, learners.
EngageAccount(a) ==
  /\ inCycle.step = "engage" /\ a \in inCycle.left
  /\ \E broken \in Breakdowns, raw \in RawRisks :
       /\ inCycle' = [inCycle EXCEPT !.step = "flush", !.at = a, !.left = @ \ {a}, !.engaged = @ \cup {a},
                                 !.logs = IF "observer" \in broken THEN @ ELSE @ \cup {a}]
       /\ risk' = IF "detector" \in broken THEN risk ELSE [risk EXCEPT ![a] = Rated(@, raw)]
       /\ taught' = [taught EXCEPT ![a] = @ \cup (Learners \ broken)]
  /\ UNCHANGED <<pageMetrics, stopped, report, sharedVars>>

\* Stage 9a: flush_to_profit_engine, in steps of the attribution; the cost map
\* is keyed by an id that no sale carries.
FlushRevenue ==
  /\ inCycle.step = "flush"
  /\ \/ (TakePending(Ours) \/ WriteCredit(Ours, ContentOf[inCycle.at] :> 35)) /\ UNCHANGED inCycle
     \/ /\ MarkAttributed(Ours) \/ (flush[Ours].step = "idle" /\ Pending = {} /\ UNCHANGED ledgerVars)
        /\ inCycle' = [inCycle EXCEPT !.step = "earn"]
  /\ UNCHANGED <<risk, pageMetrics, taught, stopped, report, scalingVars, swarmVars>>

\* The revenue that was attributed to the content, else the simulated one.
FinalRevenue(a) == IF RevenueOf(ContentOf[a]) > 0 THEN {RevenueOf(ContentOf[a])} ELSE {0, 200}

\* update_metrics: paused is for good.
PageAfter(p, earned) ==
  LET loss == p.costs + 35 - p.earned - earned
  IN [posts |-> p.posts + 1, costs |-> p.costs + 35, earned |-> p.earned + earned,
      status |-> IF p.status = "paused" \/ (p.posts + 1 >= PausePosts /\ loss > PauseLoss) THEN "paused"
                 ELSE IF p.posts + 1 >= ThrottlePosts /\ loss > 0 THEN "throttled" ELSE "active"]

\* Stages 10a to 10c: profit, scaling, page (which counts real revenue only).
EarnAccount ==
  /\ inCycle.step = "earn"
  /\ LET a == inCycle.at
     IN /\ \E revenue \in FinalRevenue(a) :
             /\ UpdateProfit(Ours, ContentOf[a], revenue, 35)
             /\ \E v \in ViewLevels, r \in Rates :
                  UpdatePerformance(ContentOf[a], v, r, r, bookSeen'[Ours][ContentOf[a]].score)
        /\ pageMetrics' = [pageMetrics EXCEPT ![a] = PageAfter(@, RevenueOf(ContentOf[a]))]
  /\ inCycle' = [inCycle EXCEPT !.at = NoBody,
                            !.step = IF inCycle.left = {} THEN "settle" ELSE "engage"]
  /\ UNCHANGED <<risk, taught, stopped, report, swarmVars, measures, clock, sent,
                 touches, sales, credit, flush, seen, taken, again, lost, flushes>>

-----------------------------------------------------------------------------
(* Phase 4: the fleet, the clusters, the report                            *)

\* The detector rates every account that took part a second time; the
\* clusters are named anew if it is time, and those of the accounts that took
\* part go through the selection.
SettleCycle ==
  /\ inCycle.step = "settle"
  /\ \E raw \in [inCycle.logs -> RawRisks] :
       risk' = [a \in Accounts |-> IF a \in DOMAIN raw THEN Rated(risk[a], raw[a]) ELSE risk[a]]
  /\ Recluster
  /\ LET active == inCycle.engaged
         named == {clusterOf'[a] : a \in active}
     IN /\ DarwinCycle(Table([n \in named |-> Cardinality({a \in active : clusterOf'[a] = n})]))
        /\ report' = [cycle |-> report.cycle + 1, active |-> active]
  /\ inCycle' = RoundIdle
  /\ UNCHANGED <<pageMetrics, taught, stopped, ledgerVars, scalingVars>>

PipelineNext ==
  \/ PlanCycle \/ RankPosts
  \/ \E a \in Accounts : EngageAccount(a)
  \/ FlushRevenue \/ EarnAccount
  \/ SettleCycle

\* The pipeline, and the processes that share its stores.
PipelineSpec ==
  /\ LedgerInit /\ ScalingInit /\ SwarmInit /\ PipelineInit
  /\ [][\/ PipelineNext
        \/ LedgerNext /\ UNCHANGED <<scalingVars, swarmVars, pipelineVars>>]_<<pipelineVars, sharedVars>>

-----------------------------------------------------------------------------
(* Properties                                                              *)

\* The detector rates an account that takes part only: one that begins a
\* cycle at the hard stop never comes down again, although it is rated twice
\* in a cycle and may fall back between the two.
StoppedForGood == \A a \in stopped : RiskScore(a) >= HardStop
=============================================================================
