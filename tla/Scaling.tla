------------------------------- MODULE Scaling -------------------------------
(***************************************************************************)
(* The scaling engine (core/self_scaling.py): each measured content has a  *)
(* smoothed performance, a tier, a run of falls and a scaling factor; the  *)
(* budget goes to the tiers, the spam guard spaces and spreads the posts   *)
(* of a content. All of it is the memory of one process. Scores and        *)
(* factors are thousandths.                                                *)
(***************************************************************************)
EXTENDS Integers, Sequences, FiniteSets, FiniteSetsExt, SequencesExt

CONSTANTS
  Scaled,              \* contents
  Posters,             \* accounts
  Gain,                \* _PERF_ALPHA, tenths
  ViewLevels, Rates, ProfitLevels,  \* what views (normalised), rates and profit may come to
  Factors,             \* what the jitter of a viral content may come to, within 2000..3000
  DropLimit,           \* DECAY_CONSECUTIVE_DROPS
  DailyPosts,          \* MAX_POSTS_PER_PAGE_PER_DAY
  PostGap,             \* MIN_INTERVAL_BETWEEN_POSTS_S, in ticks
  MaxMeasures, MaxPosts, MaxClock   \* bounds

VARIABLES
  rank,                \* _PERF_STORE
  measures,            \* bound: updates so far
  clock,               \* time, in ticks
  sent                 \* every post so far: content, account, time

scalingVars == <<rank, measures, clock, sent>>

NoRank == [there |-> FALSE, perf |-> 0, falls |-> 0, tier |-> "NORMAL", factor |-> 1000,
           posts |-> <<>>, to |-> {}]

ScalingInit ==
  /\ rank = [c \in Scaled |-> NoRank] /\ measures = 0
  /\ clock = 0 /\ sent = <<>>

-----------------------------------------------------------------------------
(* The performance of a content                                            *)

TierOf(perf) ==
  CASE perf > 800 -> "VIRAL" [] perf > 600 /\ perf <= 800 -> "WINNER"
    [] perf >= 300 /\ perf <= 600 -> "NORMAL" [] OTHER -> "DEAD"
BaseFactor == [DEAD |-> 0, NORMAL |-> 1000, WINNER |-> 1500, VIRAL |-> 2500]

Smooth(old, new) == (Gain * new + (10 - Gain) * old) \div 10
Performance(views, engaged, converted, profit) ==
  (300 * views + 200 * engaged + 200 * converted + 300 * profit) \div 1000

\* The run of falls; the first measure cannot fall.
FallsAfter(r, perf) == IF ~r.there \/ perf >= r.perf THEN 0 ELSE r.falls + 1

\* From the second fall on the factor of the tier decays; below the baseline
\* the content is NORMAL again, a DEAD one too.
Decayed(falls) == CASE falls = 2 -> 700 [] falls = 3 -> 490 [] OTHER -> 343
Standing(perf, falls) ==
  LET tier == TierOf(perf)
      base == IF falls >= DropLimit THEN (BaseFactor[tier] * Decayed(falls)) \div 1000 ELSE BaseFactor[tier]
  IN IF falls >= DropLimit /\ base < BaseFactor["NORMAL"] THEN [tier |-> "NORMAL", factor |-> BaseFactor["NORMAL"]]
     ELSE [tier |-> tier, factor |-> base]

\* A viral factor is drawn anew whatever the decay says.
Drawn(standing) == IF standing.tier = "VIRAL" THEN Factors ELSE {standing.factor}

FakeViral(views, profit) == views >= 700 /\ profit < 350
Capped(factor, views, profit) == IF FakeViral(views, profit) /\ factor > 1200 THEN 1200 ELSE factor

\* update_performance
UpdatePerformance(c, views, engaged, converted, profit) ==
  LET perf == Smooth(rank[c].perf, Performance(views, engaged, converted, profit))
      falls == FallsAfter(rank[c], perf)
      standing == Standing(perf, falls)
  IN \E f \in Drawn(standing) :
       rank' = [rank EXCEPT ![c] = [@ EXCEPT !.there = TRUE, !.perf = perf, !.falls = falls,
                                    !.tier = standing.tier, !.factor = Capped(f, views, profit)]]

Measure(c) ==
  /\ measures < MaxMeasures /\ measures' = measures + 1
  /\ \E v \in ViewLevels, r \in Rates, p \in ProfitLevels : UpdatePerformance(c, v, r, r, p)
  /\ UNCHANGED <<clock, sent>>

-----------------------------------------------------------------------------
(* What the factor and the tier are for                                    *)

ScalingFactor(c) == IF rank[c].there THEN rank[c].factor ELSE 1000

\* _compute_scaling_actions
ActionsOf(r) ==
  CASE r.tier = "DEAD" -> [variant |-> 0, distribution |-> 0, frequency |-> 0, stop |-> TRUE]
    [] r.tier = "NORMAL" -> [variant |-> 0, distribution |-> 0, frequency |-> 1000, stop |-> FALSE]
    [] r.tier = "WINNER" -> [variant |-> 2, distribution |-> 0, frequency |-> 1500, stop |-> FALSE]
    [] OTHER -> [variant |-> 3, distribution |-> Max({1, 5 - Cardinality(r.to)}), frequency |-> 2000, stop |-> FALSE]

-----------------------------------------------------------------------------
(* The spam guard                                                          *)

LastPost(r) == Max(ToSet(r.posts))

\* check_anti_spam: a content the engine has no record of always passes.
MayPost(c, a, today) ==
  /\ today < DailyPosts
  /\ rank[c].there =>
       /\ rank[c].posts # <<>> => clock - LastPost(rank[c]) >= PostGap
       /\ a \notin rank[c].to

PostsToday(a) == Len(SelectSeq(sent, LAMBDA p : p.account = a))

\* The caller asks, posts and records; nothing is recorded of an unknown content.
Post(c, a) ==
  /\ Len(sent) < MaxPosts
  /\ MayPost(c, a, PostsToday(a))
  /\ sent' = Append(sent, [content |-> c, account |-> a, at |-> clock])
  /\ rank' = IF rank[c].there
             THEN [rank EXCEPT ![c] = [@ EXCEPT !.posts = Append(@, clock), !.to = @ \cup {a}]]
             ELSE rank
  /\ UNCHANGED <<measures, clock>>

ScalingTick ==
  /\ clock < MaxClock /\ clock' = clock + 1
  /\ UNCHANGED <<rank, measures, sent>>

ScalingNext ==
  \/ \E c \in Scaled : Measure(c) \/ \E a \in Posters : Post(c, a)
  \/ ScalingTick
=============================================================================
