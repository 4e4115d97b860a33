---------------------------- MODULE ContentBrain ----------------------------
(***************************************************************************)
(* The content brain of the API server (execution/execution_brain.py and   *)
(* api/routes/content_brain.py): it decides what is published where.  A    *)
(* decision is one handler without an await, so decisions do not overlap;  *)
(* what one of them leaves in the module's dictionaries is read by all     *)
(* later ones.  Scores are classes: what weighs in a score only            *)
(* (amplification, fatigue, the ledger of angles) is a choice among them.  *)
(***************************************************************************)
EXTENDS FiniteSets, Integers, TLAPS

CONSTANTS
  Clips,          \* contents
  Platforms,      \* the origin, the scaling and the harvesting platform ..
  FreePlatforms,  \* max_platforms of _cross_platform_fatigue
  WornPlatforms,  \* more than these, in excess of it, wear a pattern out
  Ration,         \* the share of decisions that may be boosted, of 100
  MaxDecisions    \* bound: scored decisions

VARIABLES
  standing,          \* _content_state
  marks,          \* _xp_performance: the last score on each platform
  killed,         \* _xp_killed
  seenOn,         \* platforms of _cross_platform_usage, for the clip's pattern
  boosts,         \* _pattern_boost_budget: boosted decisions, scored decisions
  queue,          \* rows of brain_queue
  config,         \* _CONFIG: EXECUTION_ENABLED, AUTO_APPROVE
  routes,         \* where the last decision on a clip would take it
  proven          \* what has happened: "top" scored once, "twice" liked at a time, "failed" twice at a time

brainVars == <<standing, marks, killed, seenOn, boosts, queue, config, routes, proven>>

\* Failure, between, success, and enough for validation.
Marks == {"low", "fair", "high", "top"}
Worse(m) == CASE m = "low" -> {m} [] m = "fair" -> {"low", m}
                [] m = "high" -> {"fair", m} [] m = "top" -> {"fair", "high", m}
Liked(c) == Cardinality({p \in Platforms : marks[c][p] \in {"high", "top"}})
Failed(c) == Cardinality({p \in Platforms : marks[c][p] = "low"})     \* _xp_failed_count
WornOut(c) == Cardinality(seenOn[c]) - FreePlatforms > WornPlatforms   \* _cross_platform_fatigue > 0.4

DefaultConfig == [enabled |-> TRUE, autoApprove |-> FALSE]

BrainInit ==
  /\ standing = [c \in Clips |-> "test"]
  /\ marks = [c \in Clips |-> [p \in Platforms |-> "none"]]
  /\ killed = {}
  /\ seenOn = [c \in Clips |-> {}]
  /\ boosts = [boosted |-> 0, scored |-> 0]
  /\ queue = [c \in Clips |-> "absent"]
  /\ config = DefaultConfig
  /\ routes = [c \in Clips |-> {}]
  /\ proven = [c \in Clips |-> {}]

-----------------------------------------------------------------------------
(* decide                                                                  *)

\* _update_content_state
NextStanding(c, mark) ==
  CASE standing[c] = "test" /\ mark = "top" -> "validated"
    [] standing[c] = "validated" /\ Liked(c) >= 2 -> "scaled"
    [] standing[c] = "scaled" /\ WornOut(c) -> "saturated"
    [] OTHER -> standing[c]

\* Mutant: a clip that was stopped is free again when a platform scores better.
RouteForgiving(c, valid, next) ==
  IF Failed(c) >= 2 \/ ~valid THEN {}
  ELSE CASE next = "validated" -> {"reels"} [] next = "scaled" -> {"shorts"} [] OTHER -> {}

\* Where the clip goes next; two platforms it failed on stop it, for good.
RouteTo(c, valid, next) ==
  IF c \in killed \/ Failed(c) >= 2 \/ ~valid THEN {}
  ELSE CASE next = "validated" -> {"reels"} [] next = "scaled" -> {"shorts"} [] OTHER -> {}

\* Less than the share of the decisions, this one included, were boosted.
RationLeft(b) == 100 * b.boosted < Ration * b.scored

\* signal: an early trend, which boosts in any case but counts only within the
\* budget, or a match with known patterns, which boosts only within it.
Boosted(signal) ==
  LET b == [boosts EXCEPT !.scored = @ + 1]
  IN  IF signal /\ RationLeft(b) THEN [b EXCEPT !.boosted = @ + 1] ELSE b

\* What the collectors and the engines behind them read off a candidate; each
\* may fail and leave its neutral default.  A spike of views lowers the score
\* that is kept.
Readings == {r \in [mark : Marks, kept : Marks, signal : BOOLEAN] : r.kept \in Worse(r.mark)}

\* The score decides the standing, the spike comes after it.
Scores(c, p, r) ==
  /\ standing' = [standing EXCEPT ![c] = NextStanding(c, r.mark)]
  /\ killed' = IF Failed(c) >= 2 THEN killed \cup {c} ELSE killed
  /\ marks' = [marks EXCEPT ![c][p] = r.kept]
  /\ boosts' = Boosted(r.signal)
  /\ proven' = [proven EXCEPT ![c] = @
       \cup (IF r.mark = "top" THEN {"top"} ELSE {})
       \cup (IF Liked(c) >= 2 THEN {"twice"} ELSE {})
       \cup (IF Failed(c) >= 2 THEN {"failed"} ELSE {})]

\* What the gates on cost, value and score (past which a random one in ten gets)
\* and the hour to post at make of it.
Verdicts == {"reject", "delay", "publish"}

\* A rejected clip is taken nowhere, a published one is remembered.
Concludes(c, p, r, valid, verdict) ==
  /\ seenOn' = [seenOn EXCEPT ![c] = IF verdict = "publish" THEN @ \cup {p} ELSE @]
  /\ routes' = [routes EXCEPT ![c] =
       IF verdict = "reject" THEN {} ELSE RouteTo(c, valid, NextStanding(c, r.mark))]

\* _upsert_queue replaces the row, whatever the operator has made of it; a
\* write that fails is logged.
Upsert(c, verdict) ==
  \/ queue' = [queue EXCEPT ![c] =
       IF verdict = "publish" /\ ~config.autoApprove THEN "pending" ELSE verdict]
  \/ UNCHANGED queue

\* No account below its daily limit, a dead clip or a hard risk ends it early.
RejectedEarly(c, queued) ==
  /\ IF queued THEN Upsert(c, "reject") ELSE UNCHANGED queue
  /\ routes' = [routes EXCEPT ![c] = {}]
  /\ UNCHANGED <<standing, marks, killed, seenOn, boosts, config, proven>>

DecidedInFull(c, p, queued) ==
  /\ boosts.scored < MaxDecisions
  /\ \E r \in Readings, valid \in BOOLEAN, verdict \in Verdicts :
       /\ Scores(c, p, r)
       /\ Concludes(c, p, r, valid, verdict)
       /\ IF queued THEN Upsert(c, verdict) ELSE UNCHANGED queue
  /\ UNCHANGED config

\* POST /brain/decide keeps its decision in the queue, /brain/batch-decide
\* makes many and keeps none.
Decide(c, p, queued) ==
  /\ config.enabled
  /\ RejectedEarly(c, queued) \/ DecidedInFull(c, p, queued)

-----------------------------------------------------------------------------
(* The operator                                                            *)

\* approve, reject and override take any row there is.
OperatorRules(c, word) ==
  /\ queue[c] # "absent"
  /\ queue' = [queue EXCEPT ![c] = word]
  /\ UNCHANGED <<standing, marks, killed, seenOn, boosts, config, routes, proven>>

OperatorConfigures ==
  /\ config' \in [enabled : BOOLEAN, autoApprove : BOOLEAN]
  /\ UNCHANGED <<standing, marks, killed, seenOn, boosts, queue, routes, proven>>

BrainRestarts ==
  /\ standing' = [c \in Clips |-> "test"]
  /\ marks' = [c \in Clips |-> [p \in Platforms |-> "none"]]
  /\ killed' = {} /\ boosts' = [boosted |-> 0, scored |-> 0]
  /\ seenOn' = [c \in Clips |-> {}] /\ config' = DefaultConfig
  /\ routes' = [c \in Clips |-> {}] /\ proven' = [c \in Clips |-> {}]
  /\ UNCHANGED queue

BrainNext ==
  \/ \E c \in Clips, p \in Platforms, queued \in BOOLEAN : Decide(c, p, queued)
  \/ \E c \in Clips, word \in {"approved", "rejected", "force_published"} : OperatorRules(c, word)
  \/ OperatorConfigures
  \/ BrainRestarts

-----------------------------------------------------------------------------
(* Properties                                                              *)

\* A clip is taken to a further platform only on its merits: it has scored
\* enough for validation once, for the harvest two platforms have liked it at
\* one time, and never again after two platforms had rejected it at one time,
\* whatever it scored since.
RoutedOnMerit ==
  \A c \in Clips : routes[c] # {} =>
    /\ "top" \in proven[c] /\ "failed" \notin proven[c]
    /\ "shorts" \in routes[c] => "twice" \in proven[c]

-----------------------------------------------------------------------------
(* Proof: a route is laid on merit, for any clips, platforms and rations    *)

BrainSpec == BrainInit /\ [][BrainNext]_brainVars

\* A clip's standing was earned, it is killed exactly when two platforms had
\* rejected it at one time, and its route was laid on what is proven of it.
MeritInv ==
  /\ standing \in [Clips -> {"test", "validated", "scaled", "saturated"}]
  /\ killed \subseteq Clips
  /\ \A f \in {routes, proven} : DOMAIN f = Clips
  /\ \A c \in Clips :
       /\ standing[c] # "test" => "top" \in proven[c]
       /\ standing[c] \in {"scaled", "saturated"} => "twice" \in proven[c]
       /\ c \in killed <=> "failed" \in proven[c]
  /\ RoutedOnMerit

LEMMA DecisionKeepsMerit ==
  ASSUME MeritInv, NEW c \in Clips, NEW p, NEW queued, DecidedInFull(c, p, queued)
  PROVE  MeritInv'
<1>1. PICK r \in Readings, valid \in BOOLEAN, verdict \in Verdicts :
         Scores(c, p, r) /\ Concludes(c, p, r, valid, verdict)
  BY DEF DecidedInFull
<1> DEFINE next == NextStanding(c, r.mark)
           learnt == (IF r.mark = "top" THEN {"top"} ELSE {}) \cup (IF Liked(c) >= 2 THEN {"twice"} ELSE {})
                     \cup (IF Failed(c) >= 2 THEN {"failed"} ELSE {})
           way == IF verdict = "reject" THEN {} ELSE RouteTo(c, valid, next)
<1>2. /\ standing' = [standing EXCEPT ![c] = next]
      /\ proven' = [proven EXCEPT ![c] = @ \cup learnt]
      /\ killed' = IF Failed(c) >= 2 THEN killed \cup {c} ELSE killed
      /\ routes' = [routes EXCEPT ![c] = way]
  BY <1>1, Zenon DEF Scores, Concludes
<1>3. /\ next \in {"test", "validated", "scaled", "saturated"}
      /\ next # "test" => standing[c] # "test" \/ "top" \in learnt
      /\ next \in {"scaled", "saturated"} => standing[c] \in {"scaled", "saturated"} \/ "twice" \in learnt
      /\ "failed" \in learnt <=> Failed(c) >= 2
  BY DEF NextStanding, MeritInv
<1>4. way # {} => /\ c \notin killed /\ ~(Failed(c) >= 2) /\ next \in {"validated", "scaled"}
                  /\ "shorts" \in way => next = "scaled"
  BY DEF RouteTo
<1> HIDE DEF next, learnt, way
<1>5. /\ standing' \in [Clips -> {"test", "validated", "scaled", "saturated"}] /\ killed' \subseteq Clips
      /\ DOMAIN routes' = Clips /\ DOMAIN proven' = Clips
  BY <1>2, <1>3 DEF MeritInv
<1>6. ASSUME NEW d \in Clips, d # c
      PROVE  /\ standing'[d] = standing[d] /\ proven'[d] = proven[d] /\ routes'[d] = routes[d]
             /\ d \in killed' <=> d \in killed
  BY <1>2, <1>6 DEF MeritInv
<1>7. standing'[c] = next /\ proven'[c] = proven[c] \cup learnt /\ routes'[c] = way
      /\ (c \in killed' <=> c \in killed \/ Failed(c) >= 2)
  BY <1>2 DEF MeritInv
<1>8. /\ next # "test" => "top" \in proven'[c]
      /\ next \in {"scaled", "saturated"} => "twice" \in proven'[c]
      /\ c \in killed' <=> "failed" \in proven'[c]
  BY <1>3, <1>7 DEF MeritInv
<1>9. way # {} => /\ "top" \in proven'[c] /\ "failed" \notin proven'[c]
                  /\ "shorts" \in way => "twice" \in proven'[c]
  BY <1>4, <1>7, <1>8
<1> QED BY <1>5, <1>6, <1>7, <1>8, <1>9 DEF MeritInv, RoutedOnMerit

\* Whatever is decided in whatever order, with the operator's words, settings
\* and restarts in between, a route is laid on merit.
THEOREM RoutesAreEarned == BrainSpec => []RoutedOnMerit
<1>1. BrainInit => MeritInv
  BY DEF BrainInit, MeritInv, RoutedOnMerit
<1>2. MeritInv /\ [BrainNext]_brainVars => MeritInv'
  <2> SUFFICES ASSUME MeritInv, [BrainNext]_brainVars PROVE MeritInv'
    OBVIOUS
  <2>1. ASSUME NEW c \in Clips, NEW p \in Platforms, NEW queued \in BOOLEAN, Decide(c, p, queued) PROVE MeritInv'
    <3>1. CASE RejectedEarly(c, queued)
      BY <3>1 DEF RejectedEarly, MeritInv, RoutedOnMerit
    <3>2. CASE DecidedInFull(c, p, queued)
      BY <3>2, DecisionKeepsMerit
    <3> QED BY <2>1, <3>1, <3>2 DEF Decide
  <2>2. ASSUME NEW c \in Clips, NEW word, OperatorRules(c, word) PROVE MeritInv'
    BY <2>2 DEF OperatorRules, MeritInv, RoutedOnMerit
  <2>3. CASE OperatorConfigures
    BY <2>3 DEF OperatorConfigures, MeritInv, RoutedOnMerit
  <2>4. CASE BrainRestarts
    BY <2>4 DEF BrainRestarts, MeritInv, RoutedOnMerit
  <2>5. CASE UNCHANGED brainVars
    BY <2>5 DEF brainVars, MeritInv, RoutedOnMerit
  <2> QED BY <2>1, <2>2, <2>3, <2>4, <2>5 DEF BrainNext
<1>3. MeritInv => RoutedOnMerit
  BY DEF MeritInv
<1> QED BY <1>1, <1>2, <1>3, PTL DEF BrainSpec
=============================================================================
