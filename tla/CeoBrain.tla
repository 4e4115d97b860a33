------------------------------ MODULE CeoBrain ------------------------------
(***************************************************************************)
(* The strategy layer above the content brain (strategy/ceo_brain.py and   *)
(* api/routes/strategy.py): a growth mode with the two gates it sets, and  *)
(* overrides with a time to live, by the operator and by the brain itself. *)
(* Everything is in a database; a handler has no await.  Gates are in      *)
(* percent, time is in ticks, a score or ratio is the class it falls in.   *)
(***************************************************************************)
EXTENDS Integers, SequencesExt

CONSTANTS
  Niches,
  Graded,        \* accounts that are scored
  Week,          \* losses older than this are not counted
  PauseTime, FreezeTime, BoostTime,    \* how long the brain's overrides last
  OperatorWords, \* the overrides the operator uses
  GateSettings,  \* [threshold, explore] the operator may set
  MaxLosses,     \* bound: reports of a loss, by niche
  MaxRulings     \* bound: overrides by the operator

ASSUME FewNiches == Cardinality(Niches) <= 3

VARIABLES
  strategy,      \* the rows of strategy_state that change on their own
  graded,        \* account_scores.status
  rated,         \* niches with a row in niche_performance
  rulings,       \* strategy_overrides, in the order of their rowids
  losses,        \* ages of the niche_loss_cycle rows of strategy_log
  ruled,         \* niches the operator has spoken on since their last pause
  spoken,        \* how often, for the bound
  handed         \* the directive this step has handed out, if any

ceoVars == <<strategy, graded, rated, rulings, losses, ruled, spoken, handed>>

\* performance_ratio: < 0.5, < 0.6, <= 1.2, <= 1.3, beyond
Ratios == {"bad", "low", "fair", "good", "high"}
\* account_score: < 0.25, < 0.5, <= 0.65, < 0.7, beyond
Grades == {"underperforming", "limited", "active", "strong", "winning"}
LowCycles == 5
Forgotten == Week + PauseTime    \* an age nothing distinguishes from older ones
NoDirective == [mode |-> "none", threshold |-> 0, explore |-> 0]

CeoInit ==
  /\ strategy = [mode |-> "balanced", low |-> 0, threshold |-> 100, explore |-> 10]
  /\ graded = [a \in Graded |-> "limited"]
  /\ rated = {}
  /\ rulings = <<>>
  /\ losses = [n \in Niches |-> <<>>]
  /\ ruled = [n \in Niches |-> FALSE]
  /\ spoken = 0
  /\ handed = NoDirective

-----------------------------------------------------------------------------
(* Overrides                                                               *)

Row(target, word, left) == [target |-> target, word |-> word, left |-> left, on |-> TRUE]

\* Mutant: the row is updated where it is.
InsertedInPlace(rows, target, word, left) ==
  IF \E i \in DOMAIN rows : rows[i].target = target /\ rows[i].word = word
  THEN [i \in DOMAIN rows |->
          IF rows[i].target = target /\ rows[i].word = word THEN Row(target, word, left) ELSE rows[i]]
  ELSE Append(rows, Row(target, word, left))

\* INSERT OR REPLACE: the row of a target and a word moves to the end.
Inserted(rows, target, word, left) ==
  LET old == {i \in DOMAIN rows : rows[i].target = target /\ rows[i].word = word}
  IN  Append(IF old = {} THEN rows ELSE RemoveAt(rows, Max(old)), Row(target, word, left))

\* _active_overrides: what the last row in force says.
Word(target) ==
  LET now == {i \in DOMAIN rulings : rulings[i].target = target /\ rulings[i].on /\ rulings[i].left > 0}
  IN  IF now = {} THEN "none" ELSE rulings[Max(now)].word

OperatorOverrides ==
  /\ spoken < MaxRulings
  /\ \E target \in Niches \cup Graded, word \in OperatorWords :
       /\ \/ rulings' = Inserted(rulings, target, word, FreezeTime)
          \/ rulings' = [i \in DOMAIN rulings |->
               IF rulings[i].target = target /\ rulings[i].word = word
               THEN [rulings[i] EXCEPT !.on = FALSE] ELSE rulings[i]]
       /\ ruled' = [n \in Niches |-> ruled[n] \/ n = target]
  /\ spoken' = spoken + 1
  /\ UNCHANGED <<strategy, graded, rated, losses>>

-----------------------------------------------------------------------------
(* The growth mode                                                         *)

\* _apply_growth_mode
Applied(s) ==
  CASE s.mode = "aggressive" ->
         [s EXCEPT !.explore = Max({@, 20}), !.threshold = Max({@, 80})]
    [] s.mode = "conservative" ->
         [s EXCEPT !.explore = Min({@, 5}), !.threshold = Min({@, 120})]
    [] s.mode = "recovery" -> [s EXCEPT !.explore = 25, !.threshold = 85]
    [] s.mode = "domination" ->
         [s EXCEPT !.explore = Max({Min({@, 8}), 5}), !.threshold = Min({Max({@, 105}), 115})]
    [] OTHER -> s

OperatorSetsMode ==
  /\ \/ \E m \in {"balanced", "conservative", "aggressive"} :
          strategy' = Applied([strategy EXCEPT !.mode = m])
     \/ \E g \in GateSettings :
          strategy' = Applied([strategy EXCEPT !.threshold = g.threshold, !.explore = g.explore])
  /\ UNCHANGED <<graded, rated, rulings, losses, ruled, spoken>>

\* _recompute_threshold_modifier
Recomputed(s, ratio) ==
  [s EXCEPT !.threshold = CASE ratio = "bad" -> 80 [] ratio = "high" -> 110 [] OTHER -> 100,
            !.explore = CASE ratio = "bad" -> 20 [] ratio = "high" -> 5 [] OTHER -> 10]

LowStreak(s, ratio) == IF ratio \in {"bad", "low"} THEN Min({s.low + 1, LowCycles}) ELSE 0

\* wide: more than one platform wins, and the budget was spread when it was
\* last computed in this process.
Mode(s, ratio, wide) ==
  CASE LowStreak(s, ratio) = LowCycles -> "recovery"
    [] ratio \in {"good", "high"} /\ wide /\ s.mode # "recovery" -> "domination"
    [] ratio \notin {"good", "high"} /\ LowStreak(s, ratio) < LowCycles /\ s.mode = "domination" -> "balanced"
    [] OTHER -> s.mode

\* Mutant: the ratio has the last word.
SwitchedFirst(s, ratio, wide) ==
  Recomputed(Applied([s EXCEPT !.low = LowStreak(s, ratio), !.mode = Mode(s, ratio, wide)]), ratio)

Switched(s, ratio, wide) ==
  Applied(Recomputed([s EXCEPT !.low = LowStreak(s, ratio), !.mode = Mode(s, ratio, wide)], ratio))

\* _compute_niche_budget hands out the whole budget, so the best three of at
\* most three niches hold it.
Crowded == rated # {}

\* get_directive goes on to change the rate it hands out, without saving it: for
\* each niche of the budget by its angles, strong ones and a lack of them, and at
\* last by early trends and by clusters of winners.
Shifted(rate) ==
  LET fewer == Max({rate - 2, 5}) IN {rate, fewer, Min({rate + 2, 30}), Min({fewer + 2, 30})}

AllShifted(rates) == UNION {Shifted(rate) : rate \in rates}

AfterAngles(rate) ==
  CASE Cardinality(rated) = 0 -> {rate}
    [] Cardinality(rated) = 1 -> Shifted(rate)
    [] Cardinality(rated) = 2 -> AllShifted(Shifted(rate))
    [] OTHER -> AllShifted(AllShifted(Shifted(rate)))

Raises == IF Crowded THEN {2, 3, 5} ELSE {3}
HandedRates(rate) ==
  AfterAngles(rate) \cup UNION {{Min({e + more, 30}) : more \in Raises} : e \in AfterAngles(rate)}

\* Every decision of the content brain calls it.  While the best three niches
\* hold three quarters of the budget, each call opens the saved gates by one
\* step more.
ReadDirective ==
  /\ strategy' = IF Crowded
                 THEN [strategy EXCEPT !.explore = Min({@ + 5, 30}), !.threshold = Max({@ - 5, 70})]
                 ELSE strategy
  /\ \E e \in HandedRates(strategy'.explore) :
       handed' = [mode |-> strategy.mode, threshold |-> strategy'.threshold, explore |-> e]
  /\ UNCHANGED <<graded, rated, rulings, losses, ruled, spoken>>

-----------------------------------------------------------------------------
(* update_from_metrics                                                     *)

Grade(a, g) ==
  /\ graded' = [graded EXCEPT ![a] = g]
  /\ rulings' = CASE g = "underperforming" -> Inserted(rulings, a, "freeze", FreezeTime)
                  [] g \in {"strong", "winning"} -> Inserted(rulings, a, "boost", BoostTime)
                  [] OTHER -> rulings

\* POST /strategy/accounts/score
ScoreAccount ==
  /\ \E a \in Graded, g \in Grades : Grade(a, g)
  /\ UNCHANGED <<strategy, rated, losses, ruled, spoken>>

Recent(n) == Cardinality({i \in DOMAIN losses[n] : losses[n][i] < Week})

\* The kill switch: the third loss within a week pauses the niche.
NicheReport(n, lost) ==
  LET paused == lost /\ Recent(n) >= 2 IN
  /\ losses' = IF lost THEN [losses EXCEPT ![n] = Append(@, 0)] ELSE losses
  /\ rulings' = IF paused THEN Inserted(rulings, n, "restrict", PauseTime) ELSE rulings
  /\ ruled' = IF paused THEN [ruled EXCEPT ![n] = FALSE] ELSE ruled
  /\ rated' = rated \cup {n}

\* The strategy is saved before the tables are updated.
UpdateFromMetrics ==
  /\ \E ratio \in Ratios, wide \in BOOLEAN : strategy' = Switched(strategy, ratio, wide)
  /\ UNCHANGED spoken
  /\ \/ \E n \in Niches, lost \in BOOLEAN :
          /\ lost => Len(losses[n]) < MaxLosses
          /\ NicheReport(n, lost)
          /\ UNCHANGED graded
     \/ \E a \in Graded, g \in Grades : Grade(a, g) /\ UNCHANGED <<rated, losses, ruled>>

CeoTick ==
  /\ \/ \E i \in DOMAIN rulings : rulings[i].left > 0
     \/ \E n \in Niches : \E i \in DOMAIN losses[n] : losses[n][i] < Forgotten
  /\ rulings' = [i \in DOMAIN rulings |-> [rulings[i] EXCEPT !.left = Max({@ - 1, 0})]]
  /\ losses' = [n \in Niches |-> [i \in DOMAIN losses[n] |-> Min({losses[n][i] + 1, Forgotten})]]
  /\ UNCHANGED <<strategy, graded, rated, ruled, spoken>>

CeoNext ==
  \/ ReadDirective
  \/ /\ \/ OperatorOverrides \/ OperatorSetsMode
        \/ ScoreAccount \/ UpdateFromMetrics \/ CeoTick
     /\ handed' = NoDirective

CeoSpec == CeoInit /\ [][CeoNext]_ceoVars

-----------------------------------------------------------------------------
(* Properties                                                              *)

ThirdLoss(n) ==
  \E i \in DOMAIN losses[n] :
    /\ losses[n][i] < PauseTime
    /\ Cardinality({j \in 1 .. i - 1 : losses[n][j] - losses[n][i] < Week}) >= 2

\* In recovery the saved gates stay as open as recovery sets them, whatever the
\* ratio, the operator's settings and the reads of the directive make of them
\* (ceo_brain.py:762 "recovery mode trumps all via _apply_growth_mode").  What is
\* handed out then explores no less either, with at most two niches; a third one
\* may lower it by one point.
RecoveryTrumps ==
  /\ strategy.mode = "recovery" => strategy.explore >= 25 /\ strategy.threshold <= 85
  /\ handed.mode = "recovery" =>
       /\ handed.threshold <= 85
       /\ handed.explore >= IF Cardinality(rated) \in 0 .. 2 THEN 25 ELSE 24

\* For as long as the pause lasts after the third loss of a niche in a week,
\* the directive restricts the niche, whatever overrides there were before,
\* unless the operator has ruled on it since.
PauseHolds == \A n \in Niches : ThirdLoss(n) /\ ~ruled[n] => Word(n) = "restrict"
=============================================================================
