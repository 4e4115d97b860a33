---------------------------- MODULE PatternMemory ----------------------------
(***************************************************************************)
(* The decisions' memory: what a content's numbers say, what its pattern   *)
(* and its niche have shown, what they lift each other by, and the strategy*)
(* that follows; each decision then writes to the memory it has read       *)
(* (core/portfolio_memory.py, unified_scoring.py, conversion_tracker.py and *)
(* part 10 of decide in execution/execution_brain.py). One content, its    *)
(* pattern, one pattern active beside it. Rates are thousandths; a cycle   *)
(* reports every ratio at its ceiling or at nothing.                       *)
(***************************************************************************)
EXTENDS Integers, Sequences, SequencesExt, FiniteSetsExt

CONSTANTS
  SeriesLength,    \* _TS_WINDOW
  MinSamples,      \* _GRAPH_MIN_SAMPLES
  Fading,          \* exp(-age / 14) by age, in thousandths
  MaxAge, MaxCycles, MaxExposures, MaxLooks   \* bounds

VARIABLES
  luck,            \* the hash of the content's exploration seed
  rate,            \* EWMA of the content's ratios, NoRate without a row
  funnel,          \* EWMA of its funnel's ratios, NoRate without a row
  pattern,         \* pattern_memory: success rate and fatigue
  hits,            \* pattern_hits: the days of its rows
  series,          \* niche_timeseries.epv, newest first
  exposure,        \* causal_lift_stats: successes and exposures with and without the source
  edge,            \* pattern_graph: lift, confidence, day of the last update
  trend,           \* account_memory.trend
  strategy,        \* of the last decision
  cycles, today    \* bounds: cycles reported, days passed

patternVars == <<luck, rate, funnel, pattern, hits, series, exposure, edge, trend, strategy, cycles, today>>

NoRate == -1
NoPattern == [there |-> FALSE, success |-> 500, fatigue |-> 0]
NoEdge == [there |-> FALSE, lift |-> 1000, confidence |-> 0, day |-> 0]

PatternInit ==
  /\ luck \in {0, 150, 500}
  /\ rate = NoRate /\ funnel = NoRate
  /\ pattern = NoPattern
  /\ hits = <<>>
  /\ series = <<>>
  /\ exposure = [with |-> [won |-> 0, n |-> 0], without |-> [won |-> 0, n |-> 0]]
  /\ edge = NoEdge
  /\ trend = NoRate
  /\ strategy = "none"
  /\ cycles = 0 /\ today = 0

Ewma(old, new, alpha) == ((1000 - alpha) * old + alpha * new) \div 1000
Unit(x) == Max({0, Min({1000, x})})
Times(x, y) == (x * y) \div 1000

-----------------------------------------------------------------------------
(* conversion_tracker: what a cycle's numbers make of a content            *)

\* update_performance and update_funnel
Learnt(old, new) == IF old = NoRate THEN new ELSE Ewma(old, new, 200)

LearningCycle(level) ==
  /\ cycles < MaxCycles
  /\ cycles' = cycles + 1
  /\ rate' = Learnt(rate, level)
  /\ funnel' = Learnt(funnel, level)
  /\ UNCHANGED <<luck, pattern, hits, series, exposure, edge, trend, strategy, today>>

\* Ratios of a fifth or more are over the ceilings of CTR and CVR.
Reached == IF rate >= 200 THEN 1000 ELSE 0

PerformanceScore ==
  IF rate = NoRate THEN 500 ELSE (7 * rate) \div 10 + (IF rate > 0 THEN 300 ELSE 0)
\* A row of zeros still has the consistency of its parts.
RevenueScore == IF rate = NoRate THEN 500 ELSE 100 + (9 * Reached) \div 10
FunnelScore ==
  IF funnel = NoRate THEN 500 ELSE (8 * funnel) \div 10 + (IF funnel > 0 THEN 200 ELSE 0)

-----------------------------------------------------------------------------
(* What the memory answers                                                 *)

\* The volume of one post is over the ceiling of its logarithm.
PatternStrength == IF pattern.there THEN Times(pattern.success, 1000 - pattern.fatigue) ELSE 500

\* get_pattern_boost, capped at 1.25
Boost(active) ==
  IF active /\ edge.there /\ edge.lift > 1000 /\ edge.confidence >= 400
  THEN Min({1250, 1000 + Times(Times(edge.lift - 1000, edge.confidence), Fading[today - edge.day])})
  ELSE 1000

\* _recompute_niche_trend: 10 (velocity + acceleration / 2), which the sigmoid
\* takes past 0.6 at 0.405.
MarketPhase(s) ==
  LET n == Len(s)
      velocity == s[1] - s[n]                                   \* sum of n-1 differences
      turn == (s[1] - s[2]) - (s[n - 1] - s[n])                 \* sum of n-2 of the second
      signal == IF n < 2 THEN 0
                ELSE IF n = 2 THEN velocity
                ELSE (2 * (n - 2) * velocity + (n - 1) * turn) \div (2 * (n - 1) * (n - 2))
  IN  CASE signal > 40 -> "rising" [] signal < -40 -> "declining" [] OTHER -> "neutral"

PhaseConfidence(s) == Min({1000, 100 * Len(s)})

\* get_explore_rate_for_pattern
ExploreRate(phase, confidence) ==
  LET base == CASE phase = "rising" -> 50 [] phase = "neutral" -> 100 [] OTHER -> 200
      asked == base + Times(1000 - confidence, 150)
  IN  Min({350, IF confidence < 300 THEN Max({asked, 200}) ELSE asked})

-----------------------------------------------------------------------------
(* The scores, and the strategy                                            *)

Epv == IF rate = NoRate THEN 0 ELSE rate

\* compute_unified_score: its saturation penalty asks portfolio_memory for a
\* function that is not there, and never applies.
UnifiedScore(active) ==
  LET ratio == IF rate = NoRate THEN 0 ELSE Reached
      sum == 250 * RevenueScore + 200 * PerformanceScore + 150 * ratio + 150 * Epv
             + 150 * PatternStrength + 100 * FunnelScore + 50 * ratio
  IN  Unit(Times(sum \div 1000, Boost(active)))

\* apply_portfolio_adjustments: a pattern with a row is among the niche's top five.
Adjusted(score) ==
  LET topped == IF pattern.there THEN Unit((score * 11) \div 10) ELSE score
      tired == IF pattern.fatigue > 700 THEN (topped * 3) \div 4 ELSE topped
  IN  IF trend # NoRate /\ trend < 400 THEN (tired * 85) \div 100 ELSE tired

\* The trend of a decision is a half: the score it compares with is its own.
RawDecision(unified, ev) == (650 * unified + 250 * ev) \div 1000 + 50

\* compute_decision_score: no confidence costs 30 %.
Discounted(raw, confidence) == Times(raw, 700 + (3 * confidence) \div 10)

InPhase(score, phase) ==
  CASE phase = "rising" -> Unit((score * 11) \div 10)
    [] phase = "declining" -> (score * 85) \div 100
    [] OTHER -> score

Strategy(score, explore) ==
  IF luck < explore \/ score < 500 THEN "explore"
  ELSE IF score >= 750 THEN "scale" ELSE "optimize"

-----------------------------------------------------------------------------
(* What a decision leaves in the memory                                    *)

\* update_pattern_performance: slower while scaling, tired by a drop of a tenth.
PatternAfter(success, scaling) ==
  LET now == Ewma(pattern.success, success, IF scaling THEN 160 ELSE 200)
  IN  IF ~pattern.there THEN [there |-> TRUE, success |-> success, fatigue |-> 0]
      ELSE [pattern EXCEPT !.success = now,
              !.fatigue = IF 10 * now < 9 * pattern.success THEN Unit(@ + 120)
                          ELSE Ewma(@, Max({0, @ - 50}), 200)]

Variance(side) == side.won * (side.n - side.won)

\* compute_bayesian_confidence reaches 0.4: three deviations are at most 0.6.
Certain(side) == 25 * Variance(side) <= side.n * side.n * side.n

\* All of it when every exposure went the same way, else the least an edge is
\* written with.
ConfidenceOf(side) == IF Variance(side) = 0 THEN 1000 ELSE 400

\* Context-normalised, smoothed, clamped to [0.5, 1.5]; the context is one.
Lift(e) ==
  Max({500, Min({1500, (1000 * (e.with.won + 1) * (e.without.n + 2))
                        \div ((e.with.n + 2) * (e.without.won + 1))})})

\* record_causal_observation: an edge is written when both sides have their
\* samples, and stays when the lift is gone.
EdgeAfter(e) ==
  IF \/ e.with.n < MinSamples \/ e.without.n < MinSamples
     \/ Lift(e) <= 1050 \/ ~Certain(e.with)
  THEN edge
  ELSE [there |-> TRUE, lift |-> IF edge.there THEN Ewma(edge.lift, Lift(e), 300) ELSE Lift(e),
        confidence |-> ConfidenceOf(e.with), day |-> today]

Observed(side, success) == [won |-> side.won + (IF success THEN 1 ELSE 0), n |-> side.n + 1]

\* update_account_performance: a return of nothing reads as the neutral one.
RoiNorm(roi) == IF roi = 0 THEN 500 ELSE Unit(roi \div 2)

-----------------------------------------------------------------------------
(* Actions                                                                 *)

\* Part 10 of decide, for a content with its active pattern or without
Decides(active) ==
  /\ Len(series) < MaxLooks
  /\ active => exposure.with.n < MaxExposures
  /\ LET phase == MarketPhase(series)
         confidence == (PhaseConfidence(series) + edge.confidence) \div 2
         score == InPhase(Discounted(RawDecision(Adjusted(UnifiedScore(active)), Epv), confidence), phase)
         kind == Strategy(score, ExploreRate(phase, confidence))
     IN  /\ strategy' = kind
         /\ series' = SubSeq(<<Epv>> \o series, 1, Min({SeriesLength, Len(series) + 1}))
         /\ pattern' = PatternAfter(IF rate = NoRate THEN 0 ELSE rate, kind = "scale")
         /\ hits' = Append(SelectSeq(hits, LAMBDA d : d = today), today)
         /\ exposure' = IF active THEN [exposure EXCEPT !.with = Observed(@, rate > 20)] ELSE exposure
         /\ edge' = IF active THEN EdgeAfter(exposure') ELSE edge
         /\ trend' = Learnt(trend, RoiNorm(2 * Epv))
  /\ UNCHANGED <<luck, rate, funnel, cycles, today>>

\* record_causal_observation without the source, which decide never calls
Contrast(success) ==
  /\ exposure.without.n < MaxExposures
  /\ exposure' = [exposure EXCEPT !.without = Observed(@, success)]
  /\ edge' = EdgeAfter(exposure')
  /\ UNCHANGED <<luck, rate, funnel, pattern, hits, series, trend, strategy, cycles, today>>

\* A step of the clock is the fortnight in which a lift fades to a third; the rows
\* of the series live for two.
TimePasses ==
  /\ today < MaxAge
  /\ today' = today + 1
  /\ UNCHANGED <<luck, rate, funnel, pattern, hits, series, exposure, edge, trend, strategy, cycles>>

PatternNext ==
  \/ \E level \in {0, 1000} : LearningCycle(level)
  \/ \E active \in BOOLEAN : Decides(active)
  \/ \E success \in BOOLEAN : Contrast(success)
  \/ TimePasses
=============================================================================
