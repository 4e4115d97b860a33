------------------------------ MODULE AngleBank ------------------------------
(***************************************************************************)
(* The bank of content angles: angles are generated for a niche, the       *)
(* best is merged into each candidate the brain looks at, its uses lower   *)
(* its score, micro tests validate it, reports of its posts move its score,*)
(* its lifecycle and the memory of recent winners (core/angle_engine.py).  *)
(* Scores are thousandths, other rates hundredths.                         *)
(***************************************************************************)
EXTENDS Integers, Sequences, SequencesExt, FiniteSetsExt

CONSTANTS
  Angles,          \* the archetypes and hooks a batch may hold
  RawScores,       \* what _raw_angle_score may come to, the noise included
  Keep,            \* round(|batch| * _TOP_PCT)
  Soft, Hard,      \* uses after which a use costs 20 %, 50 % of the score
  ScaleAfter, SaturateAfter,   \* reports before the lifecycle follows the dominance
  MemorySize,      \* _WINNER_MEMORY_N
  MaxUses, MaxTests, MaxReports   \* bounds

VARIABLES
  bank,            \* table angles, NoAngle without a row
  passes,          \* passed rows of table micro_tests
  tests,           \* bound: micro tests so far
  perf,            \* table angle_performance
  winners,         \* _recent_top_angles, oldest first
  expanded         \* the angles with rows in angle_variations

angleVars == <<bank, passes, tests, perf, winners, expanded>>

NoAngle == [there |-> FALSE, score |-> 0, valid |-> FALSE, life |-> "none", uses |-> 0, dom |-> 0, amp |-> 0, early |-> 0]
NoReports == [n |-> 0, won |-> 0, high |-> 0, streak |-> 0, last |-> <<>>, trend |-> 0]

AngleInit ==
  /\ bank = [a \in Angles |-> NoAngle]
  /\ passes = [a \in Angles |-> 0] /\ tests = 0
  /\ perf = [a \in Angles |-> NoReports]
  /\ winners = <<>>
  /\ expanded = {}

InBank == {a \in Angles : bank[a].there}
Latest(s, n) == SubSeq(s, Max({1, Len(s) - n + 1}), Len(s))

-----------------------------------------------------------------------------
(* Filling the bank, and using it                                          *)

\* The raw scores of a batch: hash() is salted, so each process draws its own.
Batches == [Angles -> RawScores]

\* score_angles keeps the best of them, ties as the sort leaves them.
TopOf(raw) == {top \in kSubset(Keep, Angles) : \A a \in top, b \in Angles \ top : raw[a] >= raw[b]}

\* persist_angles, on conflict: a row that is there stays validated and starts anew.
Upserted(a, score) == [NoAngle EXCEPT !.there = TRUE, !.score = score, !.valid = bank[a].valid, !.life = "new"]

\* get_best_angles and get_angle_bank generate and persist for an empty niche,
\* and for any niche when reading it raises.
FillBank ==
  /\ \E raw \in Batches : \E top \in TopOf(raw) :
       bank' = [a \in Angles |-> IF a \in top THEN Upserted(a, raw[a]) ELSE bank[a]]
  /\ UNCHANGED <<passes, tests, perf, winners, expanded>>

\* ORDER BY is_validated DESC, angle_score DESC
Better(a, b) ==
  \/ bank[a].valid /\ ~bank[b].valid
  \/ bank[a].valid = bank[b].valid /\ bank[a].score > bank[b].score
BestAngles == {a \in InBank : \A b \in InBank : ~Better(b, a)}

\* Mutant: only the hard mode lowers the score.
HardModeOnly(score, use) == IF use > Hard THEN score \div 2 ELSE score

\* _increment_reuse: every use past the limit costs again.
Penalised(score, use) ==
  IF use > Hard THEN score \div 2
  ELSE IF use > Soft THEN (score * 8) \div 10
  ELSE score

\* expand_variations: once, for a validated angle, INSERT OR IGNORE
Expanded(a) == IF bank[a].valid THEN expanded \cup {a} ELSE expanded

\* enrich_candidate for a candidate that carries no validated angle of its own
Enrich ==
  /\ \E a \in BestAngles :
       /\ bank[a].uses < MaxUses
       /\ bank' = [bank EXCEPT ![a].uses = @ + 1, ![a].score = Penalised(@, bank[a].uses + 1)]
       /\ expanded' = Expanded(a)
  /\ UNCHANGED <<passes, tests, perf, winners>>

-----------------------------------------------------------------------------
(* What is learnt of an angle                                              *)

\* Two of three metrics over the gate pass a test, two passed tests validate.
MicroTest(a, passed) ==
  /\ a \in InBank /\ tests < MaxTests
  /\ tests' = tests + 1
  /\ passes' = IF passed THEN [passes EXCEPT ![a] = @ + 1] ELSE passes
  /\ bank' = IF passes'[a] >= 2 THEN [bank EXCEPT ![a].valid = TRUE, ![a].life = "validated"] ELSE bank
  /\ UNCHANGED <<perf, winners, expanded>>

\* record_early_signals: the latest snapshot wins.
EarlySignals(a, score) ==
  /\ a \in InBank
  /\ bank' = [bank EXCEPT ![a].early = score]
  /\ UNCHANGED <<passes, tests, perf, winners, expanded>>

\* A post has many views (over 50000) or few (under 10000); last_5_perf keeps which.
ReportRow(p, won, high) ==
  LET last == IF p.n = 0 THEN <<high>> ELSE Latest(Append(p.last, high), 5)
      rich == Len(SelectSeq(last, LAMBDA h : h))
      total == p.high + (IF high THEN 1 ELSE 0)
      kept == p.n = 0 \/ high \/ total = 0    \* views >= avg_views, not asked of the first post
  IN  [n      |-> p.n + 1,
       won    |-> p.won + (IF won THEN 1 ELSE 0),
       high   |-> total,
       streak |-> IF won /\ kept THEN p.streak + 1 ELSE 0,
       last   |-> last,
       trend  |-> CASE p.n = 0 \/ rich = 0 -> 0
                    [] high -> Min({100, (100 * (Len(last) - rich)) \div rich})
                    [] OTHER -> -100]

Dominance(p) == (40 * p.won + 60 * p.high) \div p.n

\* Amplification: earned by streak, growth and consistency, or decayed by 30 %.
Amplified(p, old, won, high) ==
  IF ~won \/ (~high /\ p.high > 0) THEN (old * 7) \div 10
  ELSE 8 * Min({5, p.streak}) + (30 * Max({0, p.trend})) \div 100 + (30 * p.won) \div p.n

LifeAfter(life, p) ==
  CASE Dominance(p) > 80 /\ p.n > ScaleAfter -> "scaling"
    [] Dominance(p) < 30 /\ p.n > SaturateAfter -> "saturated"
    [] OTHER -> life

ScoreAfter(score, p) ==
  CASE 10 * p.won > 7 * p.n -> Min({1000, score + 50})
    [] 10 * p.won < 3 * p.n -> Max({0, score - 50})
    [] OTHER -> score

\* update_winner_memory: a key that is there keeps its place in the queue.
Remembered(a, amp, trend) ==
  IF amp < 50 /\ trend < 30 THEN winners
  ELSE Latest(IF a \in ToSet(winners) THEN winners ELSE Append(winners, a), MemorySize)

RecordPerformance(a, won, high) ==
  /\ a \in InBank /\ MapThenSumSet(LAMBDA b : perf[b].n, Angles) < MaxReports
  /\ LET p   == ReportRow(perf[a], won, high)
         amp == Amplified(p, bank[a].amp, won, high)
     IN  /\ perf' = [perf EXCEPT ![a] = p]
         /\ bank' = [bank EXCEPT ![a].dom = Dominance(p), ![a].amp = amp,
                                 ![a].life = LifeAfter(@, p), ![a].score = ScoreAfter(@, p)]
         /\ winners' = Remembered(a, amp, p.trend)
  /\ UNCHANGED <<passes, tests, expanded>>

\* The memory of winners is the process's.
AnglesForgotten ==
  /\ winners # <<>>
  /\ winners' = <<>>
  /\ UNCHANGED <<bank, passes, tests, perf, expanded>>

AngleIsLearnt ==
  \E a \in Angles :
    \/ \E passed \in BOOLEAN : MicroTest(a, passed)
    \/ \E score \in {0, 60} : EarlySignals(a, score)
    \/ \E won, high \in BOOLEAN : RecordPerformance(a, won, high)

AngleNext == FillBank \/ Enrich \/ AngleIsLearnt \/ AnglesForgotten

-----------------------------------------------------------------------------
(* Properties                                                              *)

FreshAreUsedFirst ==
  \A a, b \in InBank :
    /\ ~bank[a].valid /\ ~bank[b].valid
    /\ perf[a].n = 0 /\ perf[b].n = 0
    /\ bank'[a].uses > bank[a].uses /\ bank'[a].uses > Hard
    => bank[b].uses > 0

\* No commodity: an angle is not driven past the hard limit while another of the
\* bank, no less tried and with no report against it, has not been used since it
\* was generated (angle_engine.py:686-714 and 927-952).
AnglesRotate == [][FreshAreUsedFirst]_angleVars
=============================================================================
