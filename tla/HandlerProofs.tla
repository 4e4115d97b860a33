---------------------------- MODULE HandlerProofs ----------------------------
(***************************************************************************)
(* Theorems of the handlers of TikTok tasks, of the AI keys they use, of   *)
(* the bank of angles, of the fleet's sessions, of the simulation pipeline *)
(* and of the attribution ledger, for every value of their constants.      *)
(***************************************************************************)
EXTENDS VideoDownload, ProductSearch, ProductInfo, ProductWords, AngleBank, FleetSessions, Pipeline,
        FiniteFolds, FiniteSetTheorems, SequenceTheorems, TLAPS

-----------------------------------------------------------------------------
(* The pipeline: an account at the hard stop stays there                   *)

\* The locals of a cycle.
CycleLocals ==
  [step : {"idle", "rank", "engage", "flush", "earn", "settle"}, posts : SUBSET Accounts, left : SUBSET Accounts, at : Accounts \cup {NoBody},
   engaged : SUBSET Accounts, logs : SUBSET Accounts]

\* Whom the steps of a cycle still have in hand.
InHand(r) == r.posts \cup r.left \cup r.engaged \cup r.logs

\* The gate turned those at the hard stop away when the cycle began, and only
\* those in hand are rated: they stay away until the next cycle begins.
StopInv ==
  /\ stopped \subseteq Accounts
  /\ risk \in [Accounts -> Int]
  /\ inCycle \in CycleLocals
  /\ InHand(inCycle) \cap stopped = {}
  /\ StoppedForGood

LEMMA LocalsStay ==
  ASSUME inCycle \in CycleLocals, PipelineNext \/ UNCHANGED pipelineVars
  PROVE  inCycle' \in CycleLocals
<1>0. RoundIdle \in CycleLocals
  BY DEF CycleLocals, RoundIdle
<1>1. CASE PlanCycle
  <2>1. PICK role \in [Accounts -> Roles \cup {"none"}], dropped \in SUBSET Accounts :
          LET posts == {a \in Accounts : role[a] # "none" /\ BecomesPost(a, role[a], dropped)}
          IN inCycle' = [RoundIdle EXCEPT !.step = IF posts = {} THEN "settle" ELSE "rank", !.posts = posts]
    BY <1>1 DEF PlanCycle
  <2> QED BY <2>1 DEF RoundIdle, CycleLocals
<1>2. CASE RankPosts
  BY <1>2 DEF RankPosts, CycleLocals
<1>3. ASSUME NEW a \in Accounts, EngageAccount(a) PROVE inCycle' \in CycleLocals
  <2>1. a \in inCycle.left
    BY <1>3 DEF EngageAccount
  <2>2. PICK broken \in Breakdowns :
          inCycle' = [inCycle EXCEPT !.step = "flush", !.at = a, !.left = @ \ {a}, !.engaged = @ \cup {a},
                                     !.logs = IF "observer" \in broken THEN @ ELSE @ \cup {a}]
    BY <1>3 DEF EngageAccount
  <2> QED BY <2>1, <2>2 DEF CycleLocals
<1>4. CASE FlushRevenue
  BY <1>4 DEF FlushRevenue, CycleLocals
<1>5. CASE EarnAccount
  BY <1>5 DEF EarnAccount, CycleLocals
<1>6. CASE SettleCycle
  BY <1>0, <1>6 DEF SettleCycle
<1>7. CASE UNCHANGED pipelineVars
  BY <1>7 DEF pipelineVars
<1> QED BY <1>1, <1>2, <1>3, <1>4, <1>5, <1>6, <1>7 DEF PipelineNext

LEMMA RatedIsInt == ASSUME NEW old \in Int, NEW score \in Int PROVE Rated(old, score) \in Int
  BY DEF Rated

LEMMA StopStep ==
  ASSUME HardStop \in Int, HardStop > 0, RawRisks \subseteq Int, StopInv,
         PipelineNext \/ UNCHANGED pipelineVars
  PROVE  StopInv'
<1>0. RoundIdle \in CycleLocals /\ InHand(RoundIdle) = {}
  BY DEF CycleLocals, RoundIdle, InHand
<1>20. /\ stopped \subseteq Accounts /\ risk \in [Accounts -> Int] /\ inCycle \in CycleLocals
      /\ InHand(inCycle) \cap stopped = {}
      /\ \A a \in stopped : RiskScore(a) >= HardStop
  BY DEF StopInv, StoppedForGood
<1>21. ASSUME stopped' = stopped, NEW rated \in SUBSET Accounts, rated \cap stopped = {},
             risk' \in [Accounts -> Int], \A b \in Accounts \ rated : risk'[b] = risk[b],
             inCycle' \in CycleLocals, InHand(inCycle') \subseteq InHand(inCycle)
      PROVE  StopInv'
  <2>1. \A a \in stopped : RiskScore(a)' = RiskScore(a)
    BY <1>20, <1>21 DEF RiskScore
  <2> QED BY <1>20, <1>21, <2>1 DEF StopInv, StoppedForGood
<1>1. CASE PlanCycle
  <2>1. PICK role \in [Accounts -> Roles \cup {"none"}], dropped \in SUBSET Accounts :
          LET posts == {a \in Accounts : role[a] # "none" /\ BecomesPost(a, role[a], dropped)}
          IN inCycle' = [RoundIdle EXCEPT !.step = IF posts = {} THEN "settle" ELSE "rank", !.posts = posts]
    BY <1>1 DEF PlanCycle
  <2> DEFINE posts == {a \in Accounts : role[a] # "none" /\ BecomesPost(a, role[a], dropped)}
  <2>2. inCycle' \in CycleLocals /\ InHand(inCycle') = posts
    BY <2>1 DEF RoundIdle, CycleLocals, InHand
  <2>3. stopped' = stopped \cup AtHardStop /\ risk' = risk
    BY <1>1 DEF PlanCycle
  <2>4. \A a \in posts : RiskScore(a) < HardStop
    BY DEF BecomesPost, RiskAllows
  <2>5. \A a \in Accounts : RiskScore(a) \in Int /\ RiskScore(a)' = RiskScore(a)
    BY <1>20, <2>3 DEF RiskScore
  <2>6. \A a \in stopped' : a \in Accounts /\ RiskScore(a) >= HardStop
    BY <1>20, <2>3 DEF AtHardStop
  <2>7. posts \cap stopped' = {}
    BY <2>4, <2>5, <2>6
  <2> HIDE DEF posts
  <2> QED BY <1>20, <2>2, <2>3, <2>5, <2>6, <2>7 DEF StopInv, StoppedForGood
<1>2. CASE RankPosts
  <2>1. inCycle' \in CycleLocals /\ InHand(inCycle') \subseteq InHand(inCycle)
    BY <1>20, <1>2 DEF RankPosts, CycleLocals, InHand
  <2> QED BY <1>2, <1>20, <1>21, <2>1 DEF RankPosts
<1>3. ASSUME NEW a \in Accounts, EngageAccount(a) PROVE StopInv'
  <2>1. a \in inCycle.left /\ UNCHANGED stopped
    BY <1>3 DEF EngageAccount
  <2>2. PICK broken \in Breakdowns, score \in RawRisks :
          /\ inCycle' = [inCycle EXCEPT !.step = "flush", !.at = a, !.left = @ \ {a}, !.engaged = @ \cup {a},
                                    !.logs = IF "observer" \in broken THEN @ ELSE @ \cup {a}]
          /\ risk' = IF "detector" \in broken THEN risk ELSE [risk EXCEPT ![a] = Rated(@, score)]
    BY <1>3 DEF EngageAccount
  <2>3. risk' \in [Accounts -> Int] /\ \A b \in Accounts \ {a} : risk'[b] = risk[b]
    BY <1>20, <2>2, RatedIsInt
  <2>4. inCycle' \in CycleLocals /\ InHand(inCycle') \subseteq InHand(inCycle)
    BY <1>20, <2>1, <2>2 DEF CycleLocals, InHand
  <2>5. {a} \cap stopped = {}
    BY <1>20, <2>1 DEF InHand
  <2> QED BY <1>21, <2>1, <2>3, <2>4, <2>5
<1>4. CASE FlushRevenue
  <2>1. inCycle' \in CycleLocals /\ InHand(inCycle') \subseteq InHand(inCycle)
    BY <1>20, <1>4 DEF FlushRevenue, CycleLocals, InHand
  <2> QED BY <1>4, <1>20, <1>21, <2>1 DEF FlushRevenue
<1>5. CASE EarnAccount
  <2>1. inCycle' \in CycleLocals /\ InHand(inCycle') \subseteq InHand(inCycle)
    BY <1>20, <1>5 DEF EarnAccount, CycleLocals, InHand
  <2> QED BY <1>5, <1>20, <1>21, <2>1 DEF EarnAccount
<1>6. CASE SettleCycle
  <2>1. inCycle' = RoundIdle /\ UNCHANGED stopped
    BY <1>6 DEF SettleCycle
  <2>2. PICK score \in [inCycle.logs -> RawRisks] :
          risk' = [a \in Accounts |-> IF a \in DOMAIN score THEN Rated(risk[a], score[a]) ELSE risk[a]]
    BY <1>6 DEF SettleCycle
  <2>3. \A a \in inCycle.logs : score[a] \in Int
    BY <2>2
  <2>4. risk' \in [Accounts -> Int] /\ \A b \in Accounts \ inCycle.logs : risk'[b] = risk[b]
    BY <1>20, <2>2, <2>3, RatedIsInt
  <2>5. inCycle.logs \in SUBSET Accounts /\ inCycle.logs \cap stopped = {}
    BY <1>20 DEF InHand, CycleLocals
  <2> QED BY <1>0, <1>21, <2>1, <2>4, <2>5
<1>7. CASE UNCHANGED pipelineVars
  BY <1>7, <1>20, <1>21 DEF pipelineVars
<1> QED BY <1>1, <1>2, <1>3, <1>4, <1>5, <1>6, <1>7 DEF PipelineNext

\* An account whose risk is at the hard stop when some cycle begins is at the
\* hard stop ever after, whatever the detector makes of the logs of the others,
\* whichever stages break down and however the clusters are named anew.
THEOREM StopsAreForGood ==
  ASSUME HardStop \in Int, HardStop > 0, RawRisks \subseteq Int
  PROVE  PipelineSpec => []StoppedForGood
<1>1. PipelineInit => StopInv
  BY DEF PipelineInit, RoundIdle, StopInv, InHand, CycleLocals, StoppedForGood, NotRated
<1>2. StopInv /\ [\/ PipelineNext
                  \/ LedgerNext /\ UNCHANGED <<scalingVars, swarmVars, pipelineVars>>]_<<pipelineVars, sharedVars>>
      => StopInv'
  BY StopStep
<1>3. StopInv => StoppedForGood
  BY DEF StopInv
<1> QED BY <1>1, <1>2, <1>3, PTL DEF PipelineSpec

-----------------------------------------------------------------------------
(* The selection: shares that are spread                                   *)

LEMMA TableIs == ASSUME NEW f PROVE Table(f) = f
  BY DEF Table

LEMMA TotalIs == ASSUME NEW S, NEW f \in [S -> Int] PROVE Total(f) = SumOver(f, S)
  BY DEF Total, MapThenSumSet, FoldFunctionOnSet, SumOver

LEMMA LevelAtIsLevel == ASSUME NEW x PROVE LevelAt(x) \in Levels
<1>1. Min(Levels) \in Levels
  <2>1. Levels \subseteq Int
    BY SwarmAssumption
  <2> QED BY <2>1, SwarmAssumption, MinIn
<1> DEFINE S == {Min(Levels)} \cup {l \in Levels : l <= x}
<1>2. S \subseteq Levels /\ S # {}
  BY <1>1
<1> HIDE DEF S
<1>3. S \in SUBSET Levels /\ IsFiniteSet(Levels) /\ Levels \subseteq Int
  BY <1>2, SwarmAssumption
<1>5. IsFiniteSet(S) /\ S \subseteq Int
  <2>1. IsFiniteSet(S)
    BY <1>3, FS_Subset
  <2> QED BY <1>3, <2>1
<1>4. Max(S) \in S
  BY <1>2, <1>5, MaxIn
<1> QED BY <1>2, <1>4 DEF LevelAt, S

-----------------------------------------------------------------------------
(* the spread *)

LEMMA QuotientIsInt == ASSUME NEW x \in Int, NEW y \in Int, y >= 1 PROVE x \div y \in Int
  OBVIOUS

LEMMA QuotientIsNat == ASSUME NEW x \in Nat, NEW y \in Int, y >= 1 PROVE x \div y \in Nat
  OBVIOUS

LEMMA ProductIsNat == ASSUME NEW x \in Nat, NEW y \in Nat PROVE x * y \in Nat
  OBVIOUS

LEMMA DivisorIsPositive ==
  ASSUME NEW S, IsFiniteSet(S), NEW f \in [S -> Nat]
  PROVE  Total(f) \in Nat /\ Divisor(f) \in Int /\ Divisor(f) >= 1
<1>1. Total(f) \in Nat
  BY TotalIs, SumIsNat
<1> QED BY <1>1, OfTwo DEF Divisor

LEMMA NormedType ==
  ASSUME NEW S, IsFiniteSet(S), NEW f \in [S -> Nat]
  PROVE  Normed(f) \in [S -> Nat]
<1>1. Normed(f) = [n \in S |-> (f[n] * 1000) \div Divisor(f)]
  BY TableIs DEF Normed
<1>2. \A n \in S : f[n] * 1000 \in Nat
  OBVIOUS
<1>3. \A n \in S : (f[n] * 1000) \div Divisor(f) \in Nat
  BY <1>2, DivisorIsPositive, QuotientIsNat
<1> QED BY <1>1, <1>3

LEMMA SpreadOnceType ==
  ASSUME NEW S, IsFiniteSet(S), NEW f \in [S -> Nat]
  PROVE  SpreadOnce(f) \in [S -> Nat]
<1> DEFINE total == Divisor(f)
           norm == Normed(f)
           over == {n \in S : norm[n] > Cap}
           few == [n \in S \ over |-> norm[n]]
           cut == [n \in over |-> ((norm[n] - Cap) * total) \div 1000]
           under == Divisor(few)
           surplus == Total(cut)
<1>1. total \in Int /\ total >= 1 /\ norm \in [S -> Nat] /\ Cap \in Nat
  BY DivisorIsPositive, NormedType, SwarmAssumption
<1>2. over \in SUBSET S /\ IsFiniteSet(over) /\ IsFiniteSet(S \ over)
  <2>1. over \in SUBSET S /\ (S \ over) \in SUBSET S
    OBVIOUS
  <2> HIDE DEF over
  <2> QED BY <2>1, FS_Subset
<1> HIDE DEF total, norm, over
<1>3. few \in [S \ over -> Nat]
  BY <1>1, <1>2
<1>4. under \in Int /\ under >= 1
  <2> HIDE DEF few
  <2> QED BY <1>2, <1>3, DivisorIsPositive
<1>5. cut \in [over -> Nat]
  <2>0. \A n \in over : norm[n] - Cap \in Nat
    BY <1>1, <1>2 DEF over
  <2>1. \A n \in over : (norm[n] - Cap) * total \in Nat
    BY <1>1, <2>0, ProductIsNat
  <2>2. \A n \in over : ((norm[n] - Cap) * total) \div 1000 \in Nat
    BY <2>1
  <2> QED BY <2>2
<1>6. surplus \in Nat
  <2> HIDE DEF cut
  <2> QED BY <1>2, <1>5, DivisorIsPositive
<1> HIDE DEF under, surplus, few, cut
<1>7. \A n \in S : f[n] + (surplus * norm[n]) \div under \in Nat
  <2>1. \A n \in S : surplus * norm[n] \in Nat
    BY <1>1, <1>6, ProductIsNat
  <2>2. \A n \in S : (surplus * norm[n]) \div under \in Nat
    BY <1>4, <2>1, QuotientIsNat
  <2> QED BY <2>2
<1>8. (Cap * total) \div 1000 \in Nat
  <2>1. Cap * total \in Nat
    BY <1>1, ProductIsNat
  <2> QED BY <2>1
<1>9. SpreadOnce(f) = IF over = {} THEN f
                      ELSE [n \in S |-> IF n \in over THEN (Cap * total) \div 1000
                                        ELSE f[n] + (surplus * norm[n]) \div under]
  BY TableIs DEF SpreadOnce, total, norm, over, under, surplus, few, cut
<1> QED BY <1>7, <1>8, <1>9

\* There is a function of the rounds.
LEMMA RoundsExist ==
  ASSUME NEW S, IsFiniteSet(S), NEW f \in [S -> Nat], NEW rounds \in Nat
  PROVE  \E g : g = [k \in 0..rounds |-> IF k = 0 THEN f ELSE SpreadOnce(g[k - 1])]
<1> DEFINE Has(n) == \E g : g = [k \in 0..n |-> IF k = 0 THEN f ELSE SpreadOnce(g[k - 1])]
           Without == {n \in 0..rounds : ~Has(n)}
<1>1. CASE Without = {}
  BY <1>1
<1>2. CASE Without # {}
  <2>1. PICK n \in Without : \A m \in Without : n <= m
    <3>0. IsFiniteSet(0..rounds) /\ Without \in SUBSET (0..rounds)
      BY FS_Interval
    <3> HIDE DEF Without
    <3>1. IsFiniteSet(Without)
      BY <3>0, FS_Subset
    <3>2. Without \subseteq Int
      BY <3>0
    <3> QED BY <1>2, <3>1, <3>2, MinIn
  <2>2. n # 0
    <3>1. [k \in 0..0 |-> f] = [k \in 0..0 |-> IF k = 0 THEN f ELSE SpreadOnce([j \in 0..0 |-> f][k - 1])]
      OBVIOUS
    <3>2. Has(0)
      BY <3>1
    <3> QED BY <2>1, <3>2
  <2>3. n \in Int /\ n >= 1 /\ n - 1 \in 0..rounds
    BY <2>1, <2>2
  <2>20. Has(n - 1)
    <3> HIDE DEF Has
    <3> QED BY <2>1, <2>3
  <2>4. PICK g : g = [k \in 0..(n - 1) |-> IF k = 0 THEN f ELSE SpreadOnce(g[k - 1])]
    BY <2>20
  <2> DEFINE h == [k \in 0..n |-> IF k = n THEN SpreadOnce(g[n - 1]) ELSE g[k]]
  <2>5. \A k \in 0..n : h[k] = IF k = 0 THEN f ELSE SpreadOnce(h[k - 1])
    <3> TAKE k \in 0..n
    <3>1. CASE k = n
      BY <2>3, <3>1
    <3>2. CASE k # n
      <4>1. k \in 0..(n - 1) /\ h[k] = g[k]
        BY <2>3, <3>2
      <4>2. k # 0 => h[k - 1] = g[k - 1]
        BY <2>3, <3>2
      <4> HIDE DEF h
      <4> QED BY <2>4, <4>1, <4>2
    <3> QED BY <3>1, <3>2
  <2>6. h = [k \in 0..n |-> IF k = 0 THEN f ELSE SpreadOnce(h[k - 1])]
    <3>1. h = [k \in 0..n |-> h[k]]
      OBVIOUS
    <3> HIDE DEF h
    <3> QED BY <2>5, <3>1
  <2>7. Has(n)
    <3> HIDE DEF h
    <3> QED BY <2>6
  <2> QED BY <2>1, <2>7
<1> QED BY <1>1, <1>2

\* After all rounds no share exceeds the cap.
LEMMA SpreadIsCapped ==
  ASSUME NEW S, IsFiniteSet(S), NEW f \in [S -> Nat], NEW rounds \in Nat
  PROVE  Spread(f, rounds) \in [S -> Nat] /\ \A n \in S : Spread(f, rounds)[n] <= Cap
<1> DEFINE after == CHOOSE g : g = [k \in 0..rounds |-> IF k = 0 THEN f ELSE SpreadOnce(g[k - 1])]
<1>1. after = [k \in 0..rounds |-> IF k = 0 THEN f ELSE SpreadOnce(after[k - 1])]
  BY RoundsExist
<1>2. Spread(f, rounds) = [n \in S |-> IF Normed(after[rounds])[n] > Cap THEN Cap ELSE Normed(after[rounds])[n]]
  BY DEF Spread
<1> HIDE DEF after
<1> DEFINE Wrong == {k \in 0..rounds : after[k] \notin [S -> Nat]}
<1>3. Wrong = {}
  <2> SUFFICES ASSUME Wrong # {} PROVE FALSE
    OBVIOUS
  <2>1. PICK n \in Wrong : \A m \in Wrong : n <= m
    <3>0. IsFiniteSet(0..rounds) /\ Wrong \in SUBSET (0..rounds)
      BY FS_Interval
    <3> HIDE DEF Wrong
    <3>1. IsFiniteSet(Wrong)
      BY <3>0, FS_Subset
    <3>2. Wrong \subseteq Int
      BY <3>0
    <3> QED BY <3>1, <3>2, MinIn
  <2>2. n \in 0..rounds /\ after[n] = IF n = 0 THEN f ELSE SpreadOnce(after[n - 1])
    BY <1>1, <2>1
  <2>3. n # 0
    BY <2>1, <2>2
  <2>4. n - 1 \in 0..rounds /\ n - 1 \notin Wrong
    BY <2>1, <2>2, <2>3
  <2> QED BY <2>1, <2>2, <2>3, <2>4, SpreadOnceType
<1>4. after[rounds] \in [S -> Nat]
  BY <1>3
<1>5. Normed(after[rounds]) \in [S -> Nat]
  BY <1>4, NormedType
<1> QED BY <1>2, <1>5, SwarmAssumption

-----------------------------------------------------------------------------
(* What each step of a cycle keeps                                         *)

Ecosystems ==
  [fit : [Names -> Levels \cup {0}], streak : [Names -> Nat], idle : SUBSET Names, soft : SUBSET Names,
   dead : SUBSET Names, genome : SUBSET Names, niche : [Names -> Niches \cup {NoNiche}],
   rivals : [Names -> SUBSET Names], share : [Names -> Int]]

\* A name without fitness was never given a share nor counted weak; who is out
\* has lost its share.
SoundAt(e, n) ==
  /\ e.fit[n] = 0 => e.share[n] = NoShare /\ e.streak[n] = 0
  /\ n \in e.idle \cup e.dead => e.fit[n] > 0 /\ e.share[n] = 0
Sound(e) == e \in Ecosystems /\ \A n \in Names : SoundAt(e, n)

\* Of an ecosystem just shared out: all have a share within the cap, or the
\* only one there has everything.
SharedOut(e) ==
  (\E n \in Active(e) : Active(e) = {n}) \/ \A n \in Active(e) : e.share[n] \in Nat /\ e.share[n] <= Cap

LEMMA NamesFinite == IsFiniteSet(Names)
  BY SwarmAssumption, FS_Union DEF Names

LEMMA FitIsNat == ASSUME NEW e \in Ecosystems, NEW n \in Names PROVE e.fit[n] \in Nat
<1>1. e.fit[n] \in Levels \cup {0}
  BY DEF Ecosystems
<1>2. \A l \in Levels : l \in Nat
  BY SwarmAssumption
<1> QED BY <1>1, <1>2

LEMMA FittedIsSound ==
  ASSUME NEW e, Sound(e), NEW named \in SUBSET Names, NEW fits \in [named \cup Known(e) -> Levels]
  PROVE  /\ Sound(Fitted(e, fits, named)) /\ Known(Fitted(e, fits, named)) = named \cup Known(e)
         /\ Fitted(e, fits, named).idle = e.idle /\ Fitted(e, fits, named).streak = e.streak
         /\ \A n \in named \cup Known(e) : Fitted(e, fits, named).fit[n] = fits[n]
<1> DEFINE known == named \cup Known(e)
           d == Fitted(e, fits, named)
           fit == [n \in Names |-> IF n \in known THEN fits[n] ELSE e.fit[n]]
<1>0. known \in SUBSET Names /\ Known(e) \subseteq known /\ fits \in [known -> Levels]
  BY DEF Known
<1> HIDE DEF known
<1>1. d = [e EXCEPT !.fit = fit, !.genome = @ \cup named]
  <2> DEFINE r == Recorded(e, named)
  <2>1. r = [e EXCEPT !.genome = @ \cup named] /\ r.fit = e.fit
    BY DEF Recorded, Sound, Ecosystems
  <2>2. d = [r EXCEPT !.fit = [n \in Names |-> IF n \in known THEN fits[n] ELSE r.fit[n]]]
    BY <1>0, TableIs DEF Fitted
  <2> QED BY <2>1, <2>2 DEF Sound, Ecosystems
<1>2. fit \in [Names -> Levels \cup {0}]
  BY <1>0 DEF Sound, Ecosystems
<1>3. \A n \in Names : n \notin known => e.fit[n] = 0
  BY <1>0, FitIsNat DEF Known, Sound
<1>4. \A n \in known : fits[n] \in Nat /\ fits[n] > 0
  <2>1. \A n \in known : fits[n] \in Levels
    BY <1>0
  <2>2. \A l \in Levels : l \in Nat /\ l > 0
    BY SwarmAssumption
  <2> QED BY <2>1, <2>2
<1>5. /\ d \in Ecosystems /\ d.fit = fit /\ d.share = e.share /\ d.streak = e.streak
      /\ d.idle = e.idle /\ d.dead = e.dead
  <2> HIDE DEF fit
  <2> QED BY <1>1, <1>2 DEF Sound, Ecosystems
<1>6. \A n \in Names : SoundAt(d, n)
  BY <1>3, <1>4, <1>5 DEF Sound, SoundAt, Known
<1>7. Known(d) = known
  BY <1>0, <1>3, <1>4, <1>5 DEF Known
<1> QED BY <1>0, <1>5, <1>6, <1>7 DEF Sound, known

LEMMA WavedIsSound ==
  ASSUME NEW e, Sound(e), NEW k \in SUBSET Active(e)
  PROVE  /\ Sound(Waved(e, k)) /\ Waved(e, k).fit = e.fit /\ Waved(e, k).streak = e.streak
         /\ Waved(e, k).idle = e.idle \cup k
<1> DEFINE d == Waved(e, k)
           share == [n \in Names |-> IF n \in k THEN 0
                                     ELSE IF e.share[n] = NoShare \/ n \in e.idle THEN e.share[n]
                                     ELSE (e.share[n] * 8) \div 10]
<1>1. d = [e EXCEPT !.dead = @ \cup k, !.idle = @ \cup k, !.soft = @ \ k, !.genome = @ \ k, !.share = share]
  BY TableIs DEF Waved
<1>2. share \in [Names -> Int]
  BY DEF Sound, Ecosystems
<1>3. k \subseteq Names /\ \A n \in k : e.fit[n] > 0
  BY DEF Active, Known
<1>4. /\ d \in Ecosystems /\ d.fit = e.fit /\ d.streak = e.streak /\ d.idle = e.idle \cup k
      /\ d.dead = e.dead \cup k /\ d.share = share
  <2> HIDE DEF share
  <2> QED BY <1>1, <1>2, <1>3 DEF Sound, Ecosystems
<1>5. \A n \in Names : SoundAt(d, n)
  <2> TAKE n \in Names
  <2>1. SoundAt(e, n) /\ e.fit[n] \in Nat
    BY FitIsNat DEF Sound
  <2>2. d.fit[n] = 0 => n \notin k /\ d.share[n] = NoShare
    BY <1>3, <1>4, <2>1 DEF SoundAt
  <2>3. n \in d.idle \cup d.dead => d.share[n] = 0
    BY <1>4, <2>1 DEF SoundAt, NoShare
  <2> QED BY <1>3, <1>4, <2>1, <2>2, <2>3 DEF SoundAt
<1> QED BY <1>4, <1>5 DEF Sound

LEMMA StreakType ==
  ASSUME NEW e, Sound(e), NEW n \in Names
  PROVE  Streak(e, n) \in Nat /\ (Weak(e, n) => Streak(e, n) <= e.streak[n] + 1) /\ (~Weak(e, n) => Streak(e, n) = 0)
<1>1. Max(HardStreaks) \in Nat
  <2>1. HardStreaks \subseteq Int /\ HardStreaks \subseteq Nat
    BY Thresholds
  <2> QED BY <2>1, Thresholds, MaxIn
<1>2. e.streak[n] \in Nat
  BY DEF Sound, Ecosystems
<1> DEFINE x == e.streak[n] + 1
           y == Max(HardStreaks) + 1
<1>3. x \in Nat /\ y \in Nat
  BY <1>1, <1>2
<1>4. Streak(e, n) = IF Weak(e, n) THEN Min({x, y}) ELSE 0
  BY DEF Streak
<1> HIDE DEF x, y
<1>5. Min({x, y}) \in {x, y} /\ Min({x, y}) <= x
  BY <1>3, OfTwo
<1>6. Streak(e, n) \in Nat /\ (Weak(e, n) => Streak(e, n) <= x) /\ (~Weak(e, n) => Streak(e, n) = 0)
  BY <1>3, <1>4, <1>5
<1> QED BY <1>6 DEF x

LEMMA CulledIsSound ==
  ASSUME NEW e, Sound(e), NEW threshold \in [Known(e) -> HardStreaks]
  PROVE  /\ Sound(Culled(e, threshold)) /\ Culled(e, threshold).fit = e.fit
         /\ \A n \in Names : Culled(e, threshold).streak[n] = IF n \in Known(e) THEN Streak(e, n) ELSE e.streak[n]
         /\ \A n \in Culled(e, threshold).idle \ e.idle : n \in Known(e) /\ Streak(e, n) > WeakLimit
<1> DEFINE counts == [n \in Names |-> IF n \in Known(e) THEN Streak(e, n) ELSE e.streak[n]]
           hard == {n \in Known(e) \ e.dead : counts[n] > threshold[n] /\ ~Shielded(e, n)}
           soft == {n \in Known(e) \ (hard \cup e.dead \cup e.idle) : counts[n] > SoftStreak}
           idle == {n \in Known(e) \ e.idle : counts[n] > WeakLimit}
           well == {n \in Known(e) : ~Weak(e, n)}
           share == [n \in Names |-> IF n \in hard \cup idle THEN 0 ELSE e.share[n]]
           d == Culled(e, threshold)
<1>1. d = [e EXCEPT !.streak = counts, !.dead = @ \cup hard, !.idle = @ \cup hard \cup idle,
                    !.soft = ((@ \ well) \ hard) \cup soft, !.genome = @ \ hard, !.share = share]
  BY TableIs DEF Culled
<1>2. counts \in [Names -> Nat]
  BY StreakType DEF Sound, Ecosystems
<1>3. Known(e) \subseteq Names /\ \A n \in Known(e) : e.fit[n] > 0
  BY DEF Known
<1>4. hard \subseteq Known(e) /\ idle \subseteq Known(e) /\ soft \subseteq Known(e)
  OBVIOUS
<1>5. \A n \in hard \cup idle : counts[n] > WeakLimit
  <2>1. \A n \in hard : threshold[n] \in Nat /\ threshold[n] > WeakLimit /\ WeakLimit \in Nat
    BY Thresholds
  <2>2. \A n \in hard : counts[n] > threshold[n] /\ counts[n] \in Nat
    BY <1>2, <1>3
  <2> QED BY <2>1, <2>2
<1>6. share \in [Names -> Int]
  BY DEF Sound, Ecosystems
<1> HIDE DEF counts, hard, soft, idle, well
<1>7. /\ d \in Ecosystems /\ d.fit = e.fit /\ d.streak = counts /\ d.idle = e.idle \cup hard \cup idle
      /\ d.dead = e.dead \cup hard /\ d.share = share
  <2> HIDE DEF share
  <2>1. e \in Ecosystems
    BY DEF Sound
  <2>2. d = [fit |-> e.fit, streak |-> counts, idle |-> e.idle \cup hard \cup idle,
             soft |-> ((e.soft \ well) \ hard) \cup soft, dead |-> e.dead \cup hard, genome |-> e.genome \ hard,
             niche |-> e.niche, rivals |-> e.rivals, share |-> share]
    BY <1>1, <2>1 DEF Ecosystems
  <2>3. /\ e.idle \cup hard \cup idle \in SUBSET Names /\ e.dead \cup hard \in SUBSET Names
        /\ ((e.soft \ well) \ hard) \cup soft \in SUBSET Names /\ e.genome \ hard \in SUBSET Names
    BY <1>3, <1>4, <2>1 DEF Ecosystems
  <2> QED BY <1>2, <1>6, <2>1, <2>2, <2>3 DEF Ecosystems
<1>8. \A n \in Names : SoundAt(d, n)
  <2> TAKE n \in Names
  <2>1. SoundAt(e, n) /\ e.fit[n] \in Nat
    BY FitIsNat DEF Sound
  <2>2. n \in Known(e) <=> e.fit[n] > 0
    BY DEF Known
  <2>3. n \notin Known(e) => counts[n] = e.streak[n]
    BY DEF counts
  <2>4. share[n] = IF n \in hard \cup idle THEN 0 ELSE e.share[n]
    OBVIOUS
  <2> HIDE DEF share
  <2> QED BY <1>4, <1>7, <2>1, <2>2, <2>3, <2>4 DEF SoundAt
<1>9. \A n \in Names : counts[n] = IF n \in Known(e) THEN Streak(e, n) ELSE e.streak[n]
  BY DEF counts
<1> QED BY <1>3, <1>4, <1>5, <1>7, <1>8, <1>9 DEF Sound

LEMMA SettledIsSound ==
  ASSUME NEW e, Sound(e), NEW niche \in [Names -> Niches \cup {NoNiche}]
  PROVE  /\ Sound(Settled(e, niche)) /\ Settled(e, niche).fit = e.fit /\ Settled(e, niche).streak = e.streak
         /\ Settled(e, niche).idle = e.idle /\ Settled(e, niche).dead = e.dead
<1> DEFINE placed == [e EXCEPT !.niche = niche]
           rivals == RivalsIn(placed)
           d == Settled(e, niche)
<1>1. rivals \in [Names -> SUBSET Names]
  <2>1. \A n \in Names : AlikeIn(placed, n) \subseteq Names
    BY DEF AlikeIn, Active, Known
  <2>2. \A n \in Names : FirstTwo(AlikeIn(placed, n)) \subseteq Names
    BY <2>1 DEF FirstTwo
  <2>3. rivals = [n \in Names |-> FirstTwo(AlikeIn(placed, n))]
    BY TableIs DEF RivalsIn
  <2> QED BY <2>2, <2>3
<1>2. d = [[e EXCEPT !.niche = niche] EXCEPT !.rivals = rivals]
  BY DEF Settled
<1>3. /\ d \in Ecosystems /\ d.fit = e.fit /\ d.streak = e.streak /\ d.idle = e.idle
      /\ d.dead = e.dead /\ d.share = e.share
  <2> HIDE DEF rivals
  <2> QED BY <1>1, <1>2 DEF Sound, Ecosystems
<1> QED BY <1>3 DEF Sound, SoundAt

-----------------------------------------------------------------------------
(* Resources and births                                                    *)

LEMMA FitSums ==
  ASSUME NEW e \in Ecosystems, NEW S \in SUBSET Active(e), S # {}
  PROVE  MapThenSumSet(LAMBDA m : e.fit[m], S) \in Int /\ MapThenSumSet(LAMBDA m : e.fit[m], S) >= 1
<1>1. S \in SUBSET Names /\ \A m \in S : e.fit[m] > 0
  BY DEF Active, Known
<1>2. IsFiniteSet(S) /\ \A m \in S : e.fit[m] \in Int /\ e.fit[m] >= 1
  BY <1>1, NamesFinite, FS_Subset, FitIsNat
<1>3. SumOver(e.fit, S) \in Int /\ SumOver(e.fit, S) >= 1
  BY <1>2, SumIsPositive
<1> QED BY <1>3 DEF MapThenSumSet, FoldFunctionOnSet, SumOver

LEMMA WeightIsNat ==
  ASSUME NEW e \in Ecosystems, NEW n \in Active(e), NEW boost \in Boosts
  PROVE  WeightOf(e, n, boost) \in Nat
<1> DEFINE peers == {m \in Active(e) : e.niche[m] = e.niche[n]}
           part == (1000 * e.fit[n]) \div MapThenSumSet(LAMBDA m : e.fit[m], peers)
           global == (1000 * e.fit[n]) \div MapThenSumSet(LAMBDA m : e.fit[m], Active(e))
           fair == 1000 \div Cardinality(Active(e))
<1>1. n \in Names /\ e.fit[n] \in Int /\ 1000 * e.fit[n] \in Int /\ boost \in Int
  BY FitIsNat, SwarmAssumption DEF Active, Known
<1>2. global \in Int
  <2>1. MapThenSumSet(LAMBDA m : e.fit[m], Active(e)) \in Int /\ MapThenSumSet(LAMBDA m : e.fit[m], Active(e)) >= 1
    BY FitSums
  <2> QED BY <1>1, <2>1, QuotientIsInt
<1>3. part \in Int
  <2>1. peers \in SUBSET Active(e) /\ peers # {}
    OBVIOUS
  <2> HIDE DEF peers
  <2>2. MapThenSumSet(LAMBDA m : e.fit[m], peers) \in Int /\ MapThenSumSet(LAMBDA m : e.fit[m], peers) >= 1
    BY <2>1, FitSums
  <2> QED BY <1>1, <2>2, QuotientIsInt
<1>4. fair \in Int
  <2>1. Active(e) \in SUBSET Names
    BY DEF Active, Known
  <2>2. IsFiniteSet(Active(e)) /\ Active(e) # {}
    BY <2>1, NamesFinite, FS_Subset
  <2>3. Cardinality(Active(e)) \in Int /\ Cardinality(Active(e)) >= 1
    BY <2>2, FS_EmptySet, FS_CardinalityType
  <2> QED BY <2>3, QuotientIsInt
<1>5. NicheShare(e, n) \in Int
  <2> DEFINE raised == (part * 11) \div 10
  <2>1. NicheShare(e, n) = IF \A m \in peers : e.fit[m] <= e.fit[n] THEN Min({raised, 1000}) ELSE part
    BY DEF NicheShare
  <2> HIDE DEF part
  <2>2. raised \in Int
    BY <1>3
  <2> HIDE DEF raised, peers
  <2>3. Min({raised, 1000}) \in {raised, 1000}
    BY <2>2, OfTwo
  <2> QED BY <1>3, <2>1, <2>2, <2>3
<1>6. Blend(e, n) \in Int
  <2>1. Blend(e, n) = (4 * global + 4 * NicheShare(e, n) + 2 * fair) \div 10
    BY DEF Blend
  <2> HIDE DEF global, fair
  <2> QED BY <1>2, <1>4, <1>5, <2>1
<1> DEFINE half == IF Weak(e, n) THEN 2 ELSE 1
           tenth == IF n \in e.soft THEN 10 ELSE 1
           low == (Blend(e, n) * boost) \div (1000 * half * tenth)
<1>7. low \in Int
  <2>1. Blend(e, n) * boost \in Int /\ 1000 * half * tenth \in Int /\ 1000 * half * tenth >= 1
    BY <1>1, <1>6
  <2> QED BY <2>1, QuotientIsInt
<1>8. WeightOf(e, n, boost) = Max({1, low})
  BY DEF WeightOf
<1> HIDE DEF low
<1>9. Max({1, low}) \in {1, low} /\ Max({1, low}) >= 1
  BY <1>7, OfTwo
<1> QED BY <1>7, <1>8, <1>9

\* Whoever is active gets an integer, and at most the cap unless alone.
LEMMA SharesAreCapped ==
  ASSUME NEW e \in Ecosystems, Active(e) # {}, NEW boost \in [Active(e) -> Boosts]
  PROVE  /\ \A n \in Active(e) : Shares(e, boost)[n] \in Nat
         /\ (\E n \in Active(e) : Active(e) = {n}) \/ \A n \in Active(e) : Shares(e, boost)[n] <= Cap
<1> DEFINE weight == [n \in Active(e) |-> WeightOf(e, n, boost[n])]
<1>1. IsFiniteSet(Active(e))
  <2>1. Active(e) \in SUBSET Names
    BY DEF Active, Known
  <2> QED BY <2>1, NamesFinite, FS_Subset
<1>2. weight \in [Active(e) -> Nat]
  BY WeightIsNat
<1>3. Shares(e, boost) = IF Cardinality(Active(e)) = 1 THEN [n \in Active(e) |-> 1000] ELSE Spread(weight, CapRounds)
  BY TableIs DEF Shares
<1>4. Spread(weight, CapRounds) \in [Active(e) -> Nat] /\ \A n \in Active(e) : Spread(weight, CapRounds)[n] <= Cap
  <2> HIDE DEF weight
  <2> QED BY <1>1, <1>2, SpreadIsCapped, SwarmAssumption
<1>5. Cardinality(Active(e)) = 1 => \E n \in Active(e) : Active(e) = {n}
  BY <1>1, FS_Singleton
<1> HIDE DEF weight
<1> QED BY <1>3, <1>4, <1>5

LEMMA AllocatedIsSound ==
  ASSUME NEW e, Sound(e), NEW boost \in [Active(e) -> Boosts]
  PROVE  /\ Sound(Allocated(e, boost)) /\ SharedOut(Allocated(e, boost)) /\ Allocated(e, boost).fit = e.fit
         /\ Allocated(e, boost).streak = e.streak /\ Allocated(e, boost).idle = e.idle
         /\ Allocated(e, boost).dead = e.dead
<1> DEFINE d == Allocated(e, boost)
<1>1. CASE Active(e) = {}
  <2>1. d = e
    BY <1>1 DEF Allocated
  <2> QED BY <1>1, <2>1 DEF SharedOut
<1>2. CASE Active(e) # {}
  <2> DEFINE shares == Shares(e, boost)
             share == [n \in Names |-> IF n \in e.idle \cup e.dead THEN 0
                                       ELSE IF n \in Active(e) THEN shares[n] ELSE e.share[n]]
  <2>1. d = [e EXCEPT !.share = share]
    BY <1>2, TableIs DEF Allocated
  <2>2. share \in [Names -> Int]
    BY <1>2, SharesAreCapped DEF Sound, Ecosystems
  <2>3. /\ d \in Ecosystems /\ d.fit = e.fit /\ d.streak = e.streak /\ d.idle = e.idle
        /\ d.dead = e.dead /\ d.share = share
    <3> HIDE DEF share
    <3> QED BY <2>1, <2>2 DEF Sound, Ecosystems
  <2>4. Active(e) \subseteq Names /\ \A n \in Active(e) : n \notin e.idle \cup e.dead /\ e.fit[n] > 0
    BY DEF Active, Known
  <2>5. \A n \in Names : share[n] = IF n \in Active(e) THEN shares[n]
                                    ELSE IF n \in e.idle \cup e.dead THEN 0 ELSE e.share[n]
    BY <2>4
  <2>6. Active(d) = Active(e)
    BY <2>3 DEF Active, Known
  <2> HIDE DEF share, shares
  <2>7. \A n \in Names : SoundAt(d, n)
    <3> TAKE n \in Names
    <3>1. SoundAt(e, n)
      BY DEF Sound
    <3>2. n \in Active(e) => d.fit[n] # 0 /\ n \notin d.idle \cup d.dead
      BY <2>3, <2>4
    <3>3. n \notin Active(e) => d.share[n] = IF n \in e.idle \cup e.dead THEN 0 ELSE e.share[n]
      BY <2>3, <2>5
    <3> QED BY <2>3, <3>1, <3>2, <3>3 DEF SoundAt
  <2>8. SharedOut(d)
    <3>1. /\ \A n \in Active(e) : shares[n] \in Nat
          /\ (\E n \in Active(e) : Active(e) = {n}) \/ \A n \in Active(e) : shares[n] <= Cap
      BY <1>2, SharesAreCapped DEF shares, Sound
    <3>2. \A n \in Active(e) : d.share[n] = shares[n]
      BY <2>3, <2>4, <2>5
    <3> QED BY <2>6, <3>1, <3>2 DEF SharedOut
  <2> QED BY <2>3, <2>7, <2>8 DEF Sound
<1> QED BY <1>1, <1>2

\* What a birth keeps.
BornFrom(d, e) ==
  /\ Sound(d) /\ d.streak = e.streak /\ d.idle = e.idle /\ d.dead = e.dead /\ d.share = e.share
  /\ Known(e) \subseteq Known(d) /\ Known(d) \subseteq Known(e) \cup Unborn(e)

LEMMA BornIsSound ==
  ASSUME NEW e, Sound(e), NEW n \in Unborn(e), NEW fit
  PROVE  BornFrom(Born(e, n, fit), e)
<1> DEFINE d == Born(e, n, fit)
           level == LevelAt(fit)
           fits == [e.fit EXCEPT ![n] = level]
<1>0. n \in Names /\ n \notin Known(e)
  BY DEF Unborn, Names
<1>1. level \in Levels /\ level > 0
  <2>1. \A l \in Levels : l > 0
    BY SwarmAssumption
  <2> QED BY <2>1, LevelAtIsLevel
<1>2. d = [e EXCEPT !.fit = fits, !.genome = @ \cup {n}]
  BY DEF Born, Sound, Ecosystems
<1>3. fits \in [Names -> Levels \cup {0}]
  BY <1>0, <1>1 DEF Sound, Ecosystems
<1>4. /\ d \in Ecosystems /\ d.fit = fits /\ d.streak = e.streak
      /\ d.share = e.share /\ d.idle = e.idle /\ d.dead = e.dead
  <2> HIDE DEF fits, level
  <2>1. e \in Ecosystems /\ e.genome \cup {n} \in SUBSET Names
    BY <1>0 DEF Sound, Ecosystems
  <2>2. d = [fit |-> fits, streak |-> e.streak, idle |-> e.idle, soft |-> e.soft, dead |-> e.dead,
             genome |-> e.genome \cup {n}, niche |-> e.niche, rivals |-> e.rivals, share |-> e.share]
    BY <1>2, <2>1 DEF Ecosystems
  <2> HIDE DEF d
  <2> QED BY <1>3, <2>1, <2>2 DEF Ecosystems
<1>5. e.fit[n] = 0 /\ SoundAt(e, n)
  BY <1>0, FitIsNat DEF Known, Sound
<1>6. n \notin e.idle \cup e.dead /\ e.share[n] = NoShare
  BY <1>5 DEF SoundAt
<1>7. \A m \in Names \ {n} : d.fit[m] = e.fit[m]
  BY <1>4 DEF Sound, Ecosystems
<1>8. d.fit[n] > 0 /\ d.fit[n] # 0
  BY <1>0, <1>1, <1>4 DEF Sound, Ecosystems
<1> HIDE DEF d
<1>9. Sound(d)
  <2>1. \A m \in Names : SoundAt(d, m)
    BY <1>4, <1>6, <1>7, <1>8 DEF Sound, SoundAt
  <2> QED BY <1>4, <2>1 DEF Sound
<1>10. Known(d) = Known(e) \cup {n}
  BY <1>0, <1>7, <1>8 DEF Known
<1> QED BY <1>4, <1>9, <1>10 DEF BornFrom, d

LEMMA BredIsSound ==
  ASSUME NEW e, Sound(e), NEW sizes, NEW d \in Bred(e, sizes)
  PROVE  BornFrom(d, e)
<1> DEFINE child == CHOOSE x \in Unborn(e) : TRUE
<1>1. CASE Breeders(e, sizes) = {} \/ Unborn(e) = {}
  BY <1>1 DEF Bred, BornFrom
<1>2. CASE ~(Breeders(e, sizes) = {} \/ Unborn(e) = {})
  <2>1. child \in Unborn(e)
    BY <1>2
  <2>2. PICK n : d = Born(e, child, (e.fit[n] * 8) \div 10)
    BY <1>2 DEF Bred
  <2> HIDE DEF child
  <2> QED BY <2>1, <2>2, BornIsSound
<1> QED BY <1>1, <1>2

LEMMA RebornIsSound ==
  ASSUME NEW e, Sound(e), NEW known
  PROVE  BornFrom(Reborn(e, known), e)
<1> DEFINE child == CHOOSE x \in Unborn(e) : TRUE
           Stay == known \cap e.dead = {} \/ Cardinality(Parents(e, known)) < 2 \/ Unborn(e) = {}
<1>1. CASE Stay
  BY <1>1 DEF Reborn, BornFrom
<1>2. CASE ~Stay
  <2>1. child \in Unborn(e)
    BY <1>2
  <2>2. \E fit : Reborn(e, known) = Born(e, child, fit)
    BY <1>2 DEF Reborn
  <2> HIDE DEF child
  <2> QED BY <2>1, <2>2, BornIsSound
<1> QED BY <1>1, <1>2

-----------------------------------------------------------------------------
(* The cycle                                                               *)

SwarmInv ==
  /\ Sound(eco)
  /\ weakRun \in [Names -> Nat]
  /\ \A n \in Names : eco.streak[n] <= weakRun[n] \/ weakRun[n] > WeakLimit

\* The step of ExcessLastsACycle.
ExcessIsBrief ==
  age' # age =>
    \A n \in Active(eco)' : Resource(n)' > Cap =>
      n \in Unborn(eco) \/ Active(eco)' \ {n} \subseteq Unborn(eco)

LEMMA DarwinStep ==
  ASSUME SwarmInv, NEW sizes, DOMAIN sizes \subseteq Names, DarwinCycle(sizes)
  PROVE  /\ SwarmInv' /\ ExcessIsBrief
         /\ \A n \in eco'.idle \ eco.idle : weakRun'[n] > WeakLimit \/ n \in waved'
<1> DEFINE known == DOMAIN sizes \cup Known(eco)
<1>1. PICK fits \in [known -> Levels] :
        /\ \A n \in known : fits[n] \in NextFits(eco.fit[n], n \in DOMAIN sizes)
        /\ LET e1 == Fitted(eco, fits, DOMAIN sizes)
           IN \E k \in (IF WaveDue(e1) THEN Weakest(e1) ELSE {{}}), t \in [known -> HardStreaks] :
                LET e2 == Culled(IF WaveDue(e1) THEN Waved(e1, k) ELSE e1, t)
                IN \E niche \in [Active(e2) -> Niches], boost \in [Active(e2) -> Boosts] :
                     LET e3 == Settled(e2, Table([n \in Names |-> IF n \in Active(e2) THEN niche[n] ELSE e2.niche[n]]))
                     IN \E e4 \in Bred(Allocated(e3, boost), sizes) :
                          /\ eco' = Reborn(e4, known)
                          /\ waved' = waved \cup k
                          /\ wave' = Max({0, (IF WaveDue(e1) THEN WaveLength ELSE wave) - 1})
                          /\ weakRun' = [n \in Names |-> IF n \in known /\ fits[n] < WeakFitness
                                                         THEN Min({weakRun[n] + 1, WeakLimit + 1}) ELSE 0]
  BY Zenon DEF DarwinCycle
<1>5. Sound(eco) /\ weakRun \in [Names -> Nat] /\ known \in SUBSET Names /\ Known(eco) \subseteq known
  BY DEF SwarmInv, Known
<1> DEFINE e1 == Fitted(eco, fits, DOMAIN sizes)
<1>6. /\ Sound(e1) /\ Known(e1) = known /\ e1.idle = eco.idle /\ e1.streak = eco.streak
      /\ \A n \in known : e1.fit[n] = fits[n]
  <2> HIDE DEF e1
  <2>1. DOMAIN sizes \in SUBSET Names
    OBVIOUS
  <2>2. Sound(eco)
    BY <1>5
  <2>4. /\ Sound(Fitted(eco, fits, DOMAIN sizes)) /\ Known(Fitted(eco, fits, DOMAIN sizes)) = known
        /\ Fitted(eco, fits, DOMAIN sizes).idle = eco.idle /\ Fitted(eco, fits, DOMAIN sizes).streak = eco.streak
        /\ \A n \in known : Fitted(eco, fits, DOMAIN sizes).fit[n] = fits[n]
    BY <2>1, <2>2, FittedIsSound
  <2> QED BY <2>4 DEF e1
<1>2. PICK k \in (IF WaveDue(e1) THEN Weakest(e1) ELSE {{}}), t \in [known -> HardStreaks] :
        LET e2 == Culled(IF WaveDue(e1) THEN Waved(e1, k) ELSE e1, t)
        IN \E niche \in [Active(e2) -> Niches], boost \in [Active(e2) -> Boosts] :
             LET e3 == Settled(e2, Table([n \in Names |-> IF n \in Active(e2) THEN niche[n] ELSE e2.niche[n]]))
             IN \E e4 \in Bred(Allocated(e3, boost), sizes) :
                  /\ eco' = Reborn(e4, known)
                  /\ waved' = waved \cup k
                  /\ wave' = Max({0, (IF WaveDue(e1) THEN WaveLength ELSE wave) - 1})
                  /\ weakRun' = [n \in Names |-> IF n \in known /\ fits[n] < WeakFitness
                                                 THEN Min({weakRun[n] + 1, WeakLimit + 1}) ELSE 0]
  BY <1>1, Zenon
<1> DEFINE ew == IF WaveDue(e1) THEN Waved(e1, k) ELSE e1
           e2 == Culled(ew, t)
<1>3. PICK niche \in [Active(e2) -> Niches], boost \in [Active(e2) -> Boosts] :
        LET e3 == Settled(e2, Table([n \in Names |-> IF n \in Active(e2) THEN niche[n] ELSE e2.niche[n]]))
        IN \E e4 \in Bred(Allocated(e3, boost), sizes) :
             /\ eco' = Reborn(e4, known)
             /\ waved' = waved \cup k
             /\ wave' = Max({0, (IF WaveDue(e1) THEN WaveLength ELSE wave) - 1})
             /\ weakRun' = [n \in Names |-> IF n \in known /\ fits[n] < WeakFitness
                                            THEN Min({weakRun[n] + 1, WeakLimit + 1}) ELSE 0]
  BY <1>2
<1> DEFINE at == [n \in Names |-> IF n \in Active(e2) THEN niche[n] ELSE e2.niche[n]]
           e3 == Settled(e2, at)
<1>4. PICK e4 \in Bred(Allocated(e3, boost), sizes) :
        /\ eco' = Reborn(e4, known) /\ waved' = waved \cup k
 /\ wave' = Max({0, (IF WaveDue(e1) THEN WaveLength ELSE wave) - 1})
        /\ weakRun' = [n \in Names |-> IF n \in known /\ fits[n] < WeakFitness
                                       THEN Min({weakRun[n] + 1, WeakLimit + 1}) ELSE 0]
  BY <1>3, TableIs
<1> HIDE DEF e1, known
<1>7. Sound(ew) /\ ew.fit = e1.fit /\ ew.streak = eco.streak /\ ew.idle \subseteq eco.idle \cup k
  <2>1. CASE WaveDue(e1)
    <3>1. k \in SUBSET Active(e1)
      BY <2>1 DEF Weakest
    <3> QED BY <1>6, <2>1, <3>1, WavedIsSound
  <2>2. CASE ~WaveDue(e1)
    BY <1>6, <2>2
  <2> QED BY <2>1, <2>2
<1> HIDE DEF ew
<1>8. Known(ew) = known
  BY <1>6, <1>7 DEF Known
<1>9. /\ Sound(e2) /\ e2.fit = ew.fit
      /\ \A n \in Names : e2.streak[n] = IF n \in known THEN Streak(ew, n) ELSE eco.streak[n]
      /\ \A n \in e2.idle \ ew.idle : n \in known /\ Streak(ew, n) > WeakLimit
  BY <1>7, <1>8, CulledIsSound
<1> HIDE DEF e2
<1>10. Sound(e3) /\ e3.fit = e2.fit /\ e3.streak = e2.streak /\ e3.idle = e2.idle /\ e3.dead = e2.dead
  <2>1. at \in [Names -> Niches \cup {NoNiche}]
    BY <1>9 DEF Sound, Ecosystems
  <2> HIDE DEF at
  <2> QED BY <1>9, <2>1, SettledIsSound
<1> HIDE DEF e3
<1>11. Active(e3) = Active(e2)
  BY <1>10 DEF Active, Known
<1> DEFINE ea == Allocated(e3, boost)
<1>12. /\ Sound(ea) /\ SharedOut(ea) /\ ea.fit = e3.fit
       /\ ea.streak = e3.streak /\ ea.idle = e3.idle /\ ea.dead = e3.dead
  BY <1>10, <1>11, AllocatedIsSound
<1> HIDE DEF ea
<1>13. BornFrom(e4, ea)
  BY <1>4, <1>12, BredIsSound DEF ea
<1>20. BornFrom(eco', e4)
  BY <1>4, <1>13, RebornIsSound DEF BornFrom
<1>14. Sound(eco)' /\ eco'.streak = e2.streak /\ eco'.idle = e2.idle
  BY <1>10, <1>12, <1>13, <1>20 DEF BornFrom, Sound, SoundAt
<1>15. \A n \in Names : /\ weakRun'[n] \in Nat
                        /\ n \notin known \/ ~(fits[n] < WeakFitness) => weakRun'[n] = 0
                        /\ n \in known /\ fits[n] < WeakFitness =>
                             weakRun'[n] = weakRun[n] + 1 \/ weakRun'[n] > WeakLimit
  <2> SUFFICES ASSUME NEW n \in Names
               PROVE  /\ weakRun'[n] \in Nat
                      /\ n \notin known \/ ~(fits[n] < WeakFitness) => weakRun'[n] = 0
                      /\ n \in known /\ fits[n] < WeakFitness =>
                           weakRun'[n] = weakRun[n] + 1 \/ weakRun'[n] > WeakLimit
    OBVIOUS
  <2> DEFINE x == weakRun[n] + 1
             y == WeakLimit + 1
  <2>1. x \in Int /\ y \in Int
    BY <1>5, Thresholds
  <2>5. x >= 0 /\ y >= 0 /\ y > WeakLimit
    BY <1>5, Thresholds
  <2>2. weakRun'[n] = IF n \in known /\ fits[n] < WeakFitness THEN Min({x, y}) ELSE 0
    BY <1>4
  <2> HIDE DEF x, y
  <2>3. Min({x, y}) \in {x, y}
    BY <2>1, OfTwo
  <2>4. /\ weakRun'[n] \in Nat
        /\ n \notin known \/ ~(fits[n] < WeakFitness) => weakRun'[n] = 0
        /\ n \in known /\ fits[n] < WeakFitness => weakRun'[n] = x \/ weakRun'[n] > WeakLimit
    BY <2>1, <2>2, <2>3, <2>5
  <2> QED BY <2>4 DEF x
<1>16. \A n \in Names : e2.streak[n] <= weakRun'[n] \/ weakRun'[n] > WeakLimit
  <2> SUFFICES ASSUME NEW n \in Names PROVE e2.streak[n] <= weakRun'[n] \/ weakRun'[n] > WeakLimit
    OBVIOUS
  <2>1. CASE n \notin known
    <3>1. eco.fit[n] = 0
      BY <1>5, <2>1, FitIsNat DEF Known, Sound
    <3>2. eco.streak[n] = 0
      BY <1>5, <3>1 DEF Sound, SoundAt
    <3> QED BY <1>9, <1>15, <2>1, <3>2
  <2>2. CASE n \in known /\ ~(fits[n] < WeakFitness)
    <3>1. ~Weak(ew, n)
      BY <1>6, <1>7, <2>2 DEF Weak
    <3>2. e2.streak[n] = 0
      BY <1>7, <1>9, <2>2, <3>1, StreakType
    <3> QED BY <1>15, <2>2, <3>2
  <2>3. CASE n \in known /\ fits[n] < WeakFitness
    <3>1. Weak(ew, n)
      BY <1>6, <1>7, <2>3 DEF Weak
    <3>2. e2.streak[n] \in Nat /\ e2.streak[n] <= eco.streak[n] + 1
      BY <1>7, <1>9, <2>3, <3>1, StreakType
    <3>3. eco.streak[n] \in Nat /\ weakRun[n] \in Nat /\ WeakLimit \in Nat /\ weakRun'[n] \in Nat
      BY <1>5, <1>15, Thresholds DEF Sound, Ecosystems
    <3>4. eco.streak[n] <= weakRun[n] \/ weakRun[n] > WeakLimit
      BY DEF SwarmInv
    <3> QED BY <1>15, <2>3, <3>2, <3>3, <3>4
  <2> QED BY <2>1, <2>2, <2>3
<1>17. \A n \in eco'.idle \ eco.idle : weakRun'[n] > WeakLimit \/ n \in waved'
  <2> SUFFICES ASSUME NEW n \in eco'.idle, n \notin eco.idle, n \notin waved' PROVE weakRun'[n] > WeakLimit
    OBVIOUS
  <2>1. n \in e2.idle /\ n \notin ew.idle
    BY <1>4, <1>7, <1>14
  <2>2. n \in Names /\ e2.streak[n] > WeakLimit
    BY <1>5, <1>9, <2>1
  <2>3. e2.streak[n] \in Nat /\ weakRun'[n] \in Nat /\ WeakLimit \in Nat
    BY <1>9, <1>15, <2>2, Thresholds DEF Sound, Ecosystems
  <2> QED BY <1>16, <2>2, <2>3
<1>18. ExcessIsBrief
  <2>1. Known(ea) = known
    BY <1>6, <1>7, <1>9, <1>10, <1>12 DEF Known
  <2>2. Known(eco') \subseteq Known(ea) \cup Unborn(ea) /\ Unborn(ea) \subseteq Unborn(eco)
    BY <1>5, <1>13, <1>20, <2>1 DEF BornFrom, Unborn
  <2>3. /\ eco'.share = ea.share /\ eco'.idle = ea.idle /\ eco'.dead = ea.dead
    BY <1>13, <1>20 DEF BornFrom
  <2>4. \A m \in Active(eco') : m \in Active(ea) \/ m \in Unborn(eco)
    BY <2>2, <2>3 DEF Active
  <2>5. Cap \in Nat
    BY SwarmAssumption
  <2> SUFFICES ASSUME NEW n \in Active(eco'), Resource(n)' > Cap, n \notin Unborn(eco),
                      NEW m \in Active(eco') \ {n}
               PROVE  m \in Unborn(eco)
    BY DEF ExcessIsBrief, Active, Known
  <2>6. n \in Active(ea)
    BY <2>4
  <2>7. ~(ea.share[n] \in Nat /\ ea.share[n] <= Cap)
    <3>1. n \notin eco'.idle
      BY DEF Active
    <3>2. Resource(n)' = IF ea.share[n] = NoShare THEN 1000 ELSE ea.share[n]
      BY <2>3, <3>1 DEF Resource, NoShare
    <3> QED BY <2>5, <3>2 DEF NoShare
  <2>8. Active(ea) = {n}
    BY <1>12, <2>6, <2>7 DEF SharedOut
  <2> QED BY <2>4, <2>8
<1>19. (weakRun \in [Names -> Nat])'
  BY <1>4, <1>15
<1> QED BY <1>14, <1>16, <1>17, <1>18, <1>19 DEF SwarmInv

-----------------------------------------------------------------------------
(* The selection, as the pipeline runs it                                  *)

LEMMA SwarmStart == SwarmInit => SwarmInv
<1> SUFFICES ASSUME SwarmInit PROVE SwarmInv
  OBVIOUS
<1>1. eco \in Ecosystems
  BY DEF SwarmInit, Ecosystems, NoShare
<1>2. \A n \in Names : SoundAt(eco, n) /\ eco.share[n] = NoShare /\ eco.streak[n] = 0
  BY DEF SwarmInit, SoundAt
<1>4. weakRun \in [Names -> Nat] /\ \A n \in Names : weakRun[n] = 0
  BY DEF SwarmInit
<1> QED BY <1>1, <1>2, <1>4 DEF SwarmInv, Sound

\* A step of the pipeline selects at most once, among the clusters of accounts.
LEMMA SwarmStep ==
  ASSUME SwarmInv, inCycle \in CycleLocals,
         PipelineNext \/ UNCHANGED swarmVars
  PROVE  /\ SwarmInv'
         /\ \/ UNCHANGED swarmVars
            \/ ExcessIsBrief /\ \A n \in eco'.idle \ eco.idle : weakRun'[n] > WeakLimit \/ n \in waved'
<1>1. CASE UNCHANGED swarmVars
  <2>1. UNCHANGED <<eco, weakRun>>
    BY <1>1 DEF swarmVars
  <2> QED BY <1>1, <2>1 DEF SwarmInv, Sound, SoundAt
<1>2. CASE SettleCycle
  <2> DEFINE named == {clusterOf'[a] : a \in inCycle.engaged}
             sizes == [n \in named |-> Cardinality({a \in inCycle.engaged : clusterOf'[a] = n})]
  <2>1. DarwinCycle(sizes) /\ clusterOf' \in [Accounts -> Clusters]
    BY <1>2, TableIs DEF SettleCycle, Recluster
  <2>2. DOMAIN sizes \subseteq Names
    BY <2>1 DEF CycleLocals, Names
  <2> HIDE DEF sizes
  <2> QED BY <2>1, <2>2, DarwinStep
<1>3. CASE PlanCycle
  BY <1>1, <1>3 DEF PlanCycle, sharedVars
<1>4. CASE RankPosts
  BY <1>1, <1>4 DEF RankPosts, sharedVars
<1>5. CASE \E a \in Accounts : EngageAccount(a)
  BY <1>1, <1>5 DEF EngageAccount, sharedVars
<1>6. CASE FlushRevenue
  BY <1>1, <1>6 DEF FlushRevenue
<1>7. CASE EarnAccount
  BY <1>1, <1>7 DEF EarnAccount
<1> QED BY <1>1, <1>2, <1>3, <1>4, <1>5, <1>6, <1>7 DEF PipelineNext

LEMMA SwarmTypes == PipelineSpec => [](SwarmInv /\ inCycle \in CycleLocals)
<1>1. SwarmInit /\ PipelineInit => SwarmInv /\ inCycle \in CycleLocals
  BY SwarmStart DEF PipelineInit, RoundIdle, CycleLocals
<1>2. SwarmInv /\ inCycle \in CycleLocals
      /\ [\/ PipelineNext
          \/ LedgerNext /\ UNCHANGED <<scalingVars, swarmVars, pipelineVars>>]_<<pipelineVars, sharedVars>>
      => (SwarmInv /\ inCycle \in CycleLocals)'
  BY SwarmStep, LocalsStay DEF sharedVars
<1> QED BY <1>1, <1>2, PTL DEF PipelineSpec

\* Whatever the clusters, their fitness, births and deaths and the number of
\* rounds that spread the surplus: at the end of a cycle only those born in it
\* take more than the cap, and one that has nobody else beside it.
THEOREM ResourcesStayCapped == PipelineSpec => ExcessLastsACycle
<1>1. SwarmInv /\ inCycle \in CycleLocals
      /\ [\/ PipelineNext
          \/ LedgerNext /\ UNCHANGED <<scalingVars, swarmVars, pipelineVars>>]_<<pipelineVars, sharedVars>>
      => [ExcessIsBrief]_swarmVars
  BY SwarmStep DEF sharedVars
<1> QED BY <1>1, SwarmTypes, PTL DEF PipelineSpec, ExcessLastsACycle, ExcessIsBrief

\* Only more than WeakLimit weak cycles on end, or a wave, silence a cluster:
\* the streak of the code never runs ahead of the weak cycles there were.
THEOREM SilenceIsEarned == PipelineSpec => SilencedForWeakness
<1>1. SwarmInv /\ inCycle \in CycleLocals
      /\ [\/ PipelineNext
          \/ LedgerNext /\ UNCHANGED <<scalingVars, swarmVars, pipelineVars>>]_<<pipelineVars, sharedVars>>
      => [\A n \in eco'.idle \ eco.idle : weakRun'[n] > WeakLimit \/ n \in waved']_swarmVars
  BY SwarmStep DEF sharedVars
<1> QED BY <1>1, SwarmTypes, PTL DEF PipelineSpec, SilencedForWeakness

-----------------------------------------------------------------------------
(* The screens: a video is filed under its own name                        *)

\* The handlers of TikTok tasks side by side, the app on the device and an
\* operator who edits the AI keys.
TikTokInit ==
  /\ Blank \in Things /\ DevicesInit(Downloads \cup Searches \cup Extractions)
  /\ DownloadInit /\ SearchInit /\ InfoInit
  /\ \E m \in Models : RouterInit(m)
TikTokNext ==
  \/ \E d \in Downloads : (DownloadStep(d) \/ DownloadCancelled(d)) /\ UNCHANGED <<searchVars, infoVars, routerVars>>
  \/ \E t \in Searches : (SearchStep(t) \/ SearchRaises(t)) /\ UNCHANGED <<downloadVars, infoVars, routerVars>>
  \/ \E c \in Callers : InfoStep(c) /\ UNCHANGED <<downloadVars, searchVars>>
  \/ AppActs /\ UNCHANGED <<searchVars, infoVars, routerVars>>
  \/ OperatorEdits /\ UNCHANGED <<downloadVars, searchVars, infoVars, deviceVars>>
tikTokVars == <<downloadVars, searchVars, infoVars, routerVars, deviceVars>>
TikTokSpec == TikTokInit /\ [][TikTokNext]_tikTokVars

\* Whatever a handler may open.
Openable ==
  Things \cup {HomePage} \cup {Selected[d][n].video : d \in Downloads, n \in Nat}
  \cup {QueriesOf[t][n] : t \in Searches, n \in Nat} \cup {ProductOf[t] : t \in Searches}
  \cup {ProductAt[c] : c \in Extractions}

Stages == {"idle", "next", "browser", "capturing", "ytdlp", "cookies", "export", "phone", "fallback", "opened",
           "listed", "saving", "settle", "done", "fatal", "retry", "cancelled"}

ScreenTypes ==
  /\ showing \in [Screens -> Openable]
  /\ users \in [Screens -> SUBSET (Downloads \cup Searches \cup Extractions)]
  /\ loaded \in [Downloads \cup Searches \cup Extractions -> SUBSET Openable]
  /\ saving \in Seq(Openable) /\ gallery \in Seq(Openable)

JobTypes ==
  /\ stage \in [Downloads -> Stages] /\ index \in [Downloads -> Nat]
  /\ before \in [Downloads -> Nat]
  /\ got \in [Downloads -> Seq(Openable \X Openable \X BOOLEAN)]

\* A handler is a user of a screen while it captures or is at the phone.
UsesAsItStands(d) ==
  /\ \A s \in Screens : d \in users[s] <=> \/ stage[d] = "capturing" /\ s = PageOf[d]
                                           \/ stage[d] \in AtPhone /\ s = Phone
  /\ stage[d] = "capturing" => PageOf[d] \in Pages

\* One whose session nobody touched finds what it asked for and nothing else:
\* alone at the phone, the one save under way is its own.
FindsItsOwn(d) ==
  d \notin crossed =>
    /\ stage[d] = "capturing" => loaded[d] \subseteq {Wanted(d)}
    /\ stage[d] \in AtPhone => users[Phone] = {d}
    /\ stage[d] \in {"opened", "listed"} => showing[Phone] = Wanted(d)
    /\ stage[d] = "listed" => saving = <<>> /\ Len(gallery) = before[d]
    /\ stage[d] = "saving" => \/ saving = <<Wanted(d)>> /\ Len(gallery) = before[d]
                              \/ saving = <<>> /\ (Len(gallery) = before[d] \/ gallery[Len(gallery)] = Wanted(d))

FiledRight(d) == \A i \in DOMAIN got[d] : got[d][i][3] => got[d][i][2] = got[d][i][1]

ShotInv ==
  /\ ScreenTypes /\ JobTypes /\ query \in [Searches -> Nat]
  /\ \A d \in Downloads : UsesAsItStands(d) /\ FindsItsOwn(d) /\ FiledRight(d)

\* What a handler keeps for itself.
SameJob(d) == stage'[d] = stage[d] /\ index'[d] = index[d] /\ before'[d] = before[d] /\ got'[d] = got[d]

LEMMA PhoneIsAScreen == Phone \in Screens /\ Phone \notin Pages /\ Pages \subseteq Screens
  BY DownloadAssumption DEF Screens

\* Somebody else opens something, closes a screen, or nothing happens to the
\* screens.
LEMMA OthersOpen ==
  ASSUME ShotInv, NEW d \in Downloads, NEW u, u # d, NEW s, NEW w, Opens(s, w, u) \/ ListensAndOpens(s, w, u), SameJob(d)
  PROVE  UsesAsItStands(d)' /\ FindsItsOwn(d)' /\ FiledRight(d)'
<1>1. users \in [Screens -> SUBSET (Downloads \cup Searches \cup Extractions)] /\ DOMAIN showing = Screens
  BY DEF ShotInv, ScreenTypes
<1>2. \A x \in Screens : d \in users'[x] <=> d \in users[x]
  BY <1>1 DEF Opens, ListensAndOpens
<1>3. UsesAsItStands(d)'
  BY <1>2 DEF ShotInv, UsesAsItStands, SameJob
<1>4. FiledRight(d)'
  BY DEF ShotInv, FiledRight, SameJob
<1>5. ASSUME d \notin crossed' PROVE d \notin users[s] /\ d \notin crossed
  BY <1>5 DEF Opens, ListensAndOpens
<1>6. d \in DOMAIN loaded
  BY DEF ShotInv, ScreenTypes
<1>7. FindsItsOwn(d)'
  <2> SUFFICES ASSUME d \notin crossed' PROVE FindsItsOwn(d)'
    BY DEF FindsItsOwn
  <2>1. d \notin users[s] /\ FindsItsOwn(d) /\ d \notin crossed
    BY <1>5 DEF ShotInv
  <2>2. loaded'[d] = loaded[d] /\ gallery' = gallery /\ saving' = saving
    BY <1>6, <2>1 DEF Opens, ListensAndOpens
  <2>3. stage[d] \in AtPhone => s # Phone
    BY <2>1, PhoneIsAScreen DEF ShotInv, UsesAsItStands
  <2>4. s # Phone => showing'[Phone] = showing[Phone] /\ users'[Phone] = users[Phone]
    BY <1>1, PhoneIsAScreen DEF Opens, ListensAndOpens
  <2> QED BY <2>1, <2>2, <2>3, <2>4 DEF FindsItsOwn, AtPhone, SameJob, Wanted, Video
<1> QED BY <1>3, <1>4, <1>7

LEMMA OthersClose ==
  ASSUME ShotInv, NEW d \in Downloads, NEW u, u # d, NEW s, Closes(s, u), SameJob(d)
  PROVE  UsesAsItStands(d)' /\ FindsItsOwn(d)' /\ FiledRight(d)'
<1>1. users \in [Screens -> SUBSET (Downloads \cup Searches \cup Extractions)]
      /\ loaded \in [Downloads \cup Searches \cup Extractions -> SUBSET Openable]
  BY DEF ShotInv, ScreenTypes
<1>2. \A x \in Screens : d \in users'[x] <=> d \in users[x]
  BY <1>1 DEF Closes
<1>3. UsesAsItStands(d)'
  BY <1>2 DEF ShotInv, UsesAsItStands, SameJob
<1>4. FiledRight(d)'
  BY DEF ShotInv, FiledRight, SameJob
<1>5. d \in crossed <=> d \in crossed'
  BY DEF Closes
<1>6. loaded'[d] = loaded[d] /\ gallery' = gallery /\ saving' = saving /\ showing' = showing
  BY <1>1 DEF Closes
<1>7. users[Phone] = {d} => users'[Phone] = {d}
  BY <1>1, PhoneIsAScreen DEF Closes
<1>8. FindsItsOwn(d)
  BY DEF ShotInv
<1>9. FindsItsOwn(d)'
  BY <1>5, <1>6, <1>7, <1>8 DEF FindsItsOwn, SameJob, Wanted, Video
<1> QED BY <1>3, <1>4, <1>9

LEMMA NobodyMoves ==
  ASSUME ShotInv, NEW d \in Downloads, UNCHANGED deviceVars, SameJob(d)
  PROVE  UsesAsItStands(d)' /\ FindsItsOwn(d)' /\ FiledRight(d)'
  BY DEF ShotInv, UsesAsItStands, FindsItsOwn, FiledRight, SameJob, deviceVars, Wanted, Video

\* Another handler lists the files or taps Save: it is at the phone, so this
\* one is not, or their sessions have crossed.
LEMMA OthersTap ==
  ASSUME ShotInv, NEW d \in Downloads, NEW u, u # d, u \in users[Phone], ListFiles(u) \/ TapSave, SameJob(d)
  PROVE  UsesAsItStands(d)' /\ FindsItsOwn(d)' /\ FiledRight(d)'
<1>1. /\ users' = users /\ loaded' = loaded /\ showing' = showing /\ gallery' = gallery
      /\ d \in crossed <=> d \in crossed'
  BY DEF ListFiles, TapSave
<1>2. UsesAsItStands(d)' /\ FiledRight(d)'
  BY <1>1 DEF ShotInv, UsesAsItStands, FiledRight, SameJob
<1>3. FindsItsOwn(d)
  BY DEF ShotInv
<1>4. d \notin crossed => stage[d] \notin AtPhone
  BY <1>3 DEF FindsItsOwn
<1>5. FindsItsOwn(d)'
  BY <1>1, <1>3, <1>4 DEF FindsItsOwn, AtPhone, SameJob, Wanted, Video
<1> QED BY <1>2, <1>5

\* The app finishes a save or loses it.
LEMMA AppKeeps ==
  ASSUME ShotInv, NEW d \in Downloads, SaveLands \/ SaveIsLost, SameJob(d)
  PROVE  UsesAsItStands(d)' /\ FindsItsOwn(d)' /\ FiledRight(d)'
<1>1. users' = users /\ loaded' = loaded /\ showing' = showing /\ crossed' = crossed /\ saving # <<>>
  BY DEF SaveLands, SaveIsLost
<1>2. UsesAsItStands(d)' /\ FiledRight(d)'
  BY <1>1 DEF ShotInv, UsesAsItStands, FiledRight, SameJob
<1>3. FindsItsOwn(d) /\ saving \in Seq(Openable) /\ gallery \in Seq(Openable)
  BY DEF ShotInv, ScreenTypes
<1>4. FindsItsOwn(d)'
  <2> SUFFICES ASSUME d \notin crossed, stage[d] = "saving"
               PROVE  saving' = <<>> /\ (Len(gallery') = before[d] \/ gallery'[Len(gallery')] = Wanted(d))
    BY <1>1, <1>3 DEF FindsItsOwn, SameJob, Wanted, Video
  <2>1. saving = <<Wanted(d)>> /\ Len(gallery) = before[d]
    BY <1>1, <1>3 DEF FindsItsOwn
  <2>2. saving' = <<>>
    BY <2>1 DEF SaveLands, SaveIsLost
  <2>3. CASE SaveLands
    <3>1. gallery' = Append(gallery, Wanted(d))
      BY <2>1, <2>3 DEF SaveLands
    <3> QED BY <1>3, <2>2, <3>1
  <2>4. CASE SaveIsLost
    BY <2>1, <2>2, <2>4 DEF SaveIsLost
  <2> QED BY <2>3, <2>4
<1> QED BY <1>2, <1>4

-----------------------------------------------------------------------------
OpensInSomeWay(s, w, u) == Opens(s, w, u) \/ (s \in Screens /\ ListensAndOpens(s, w, u))

LEMMA ScreensAfter ==
  ASSUME ScreenTypes,
         \/ \E s, w, u : w \in Openable /\ u \in Downloads \cup Searches \cup Extractions /\ OpensInSomeWay(s, w, u)
         \/ \E s, u : Closes(s, u)
         \/ TapSave \/ \E u : ListFiles(u)
         \/ SaveLands \/ SaveIsLost \/ UNCHANGED deviceVars
  PROVE  ScreenTypes'
<1>1. CASE \E s, w, u : w \in Openable /\ u \in Downloads \cup Searches \cup Extractions /\ OpensInSomeWay(s, w, u)
  <2>1. PICK s, w, u : w \in Openable /\ u \in Downloads \cup Searches \cup Extractions /\ OpensInSomeWay(s, w, u)
    BY <1>1
  <2>2. showing' \in [Screens -> Openable]
    BY <2>1 DEF ScreenTypes, OpensInSomeWay, Opens, ListensAndOpens
  <2>3. users' \in [Screens -> SUBSET (Downloads \cup Searches \cup Extractions)]
    BY <2>1 DEF ScreenTypes, OpensInSomeWay, Opens, ListensAndOpens
  <2>4. loaded' \in [Downloads \cup Searches \cup Extractions -> SUBSET Openable]
    <3>1. CASE Opens(s, w, u)
      BY <2>1, <3>1 DEF ScreenTypes, Opens
    <3>2. CASE s \in Screens /\ ListensAndOpens(s, w, u)
      <4> DEFINE heard == {showing[s]} \ {Blank}
      <4>1. heard \subseteq Openable
        BY <3>2 DEF ScreenTypes
      <4>2. loaded' = [v \in DOMAIN loaded |->
                         IF v = u THEN heard \cup {w} ELSE IF v \in users[s] THEN loaded[v] \cup {w} ELSE loaded[v]]
        BY <3>2 DEF ListensAndOpens
      <4> HIDE DEF heard
      <4> QED BY <2>1, <4>1, <4>2 DEF ScreenTypes
    <3> QED BY <2>1, <3>1, <3>2 DEF OpensInSomeWay
  <2>5. saving' = saving /\ gallery' = gallery
    BY <2>1 DEF OpensInSomeWay, Opens, ListensAndOpens
  <2> QED BY <2>2, <2>3, <2>4, <2>5 DEF ScreenTypes
<1>2. CASE \E s, u : Closes(s, u)
  <2>1. showing' = showing /\ saving' = saving /\ gallery' = gallery
    BY <1>2 DEF Closes
  <2>2. users' \in [Screens -> SUBSET (Downloads \cup Searches \cup Extractions)]
    BY <1>2 DEF ScreenTypes, Closes
  <2>3. loaded' \in [Downloads \cup Searches \cup Extractions -> SUBSET Openable]
    BY <1>2 DEF ScreenTypes, Closes
  <2> QED BY <2>1, <2>2, <2>3 DEF ScreenTypes
<1>3. CASE TapSave \/ \E u : ListFiles(u)
  <2>1. showing[Phone] \in Openable
    BY PhoneIsAScreen DEF ScreenTypes
  <2>2. saving' \in Seq(Openable)
    BY <1>3, <2>1 DEF ScreenTypes, TapSave, ListFiles
  <2>3. showing' = showing /\ users' = users /\ loaded' = loaded /\ gallery' = gallery
    BY <1>3 DEF TapSave, ListFiles
  <2> QED BY <2>2, <2>3 DEF ScreenTypes
<1>4. CASE SaveLands
  BY <1>4 DEF ScreenTypes, SaveLands
<1>5. CASE SaveIsLost
  BY <1>5 DEF ScreenTypes, SaveIsLost
<1>6. CASE UNCHANGED deviceVars
  BY <1>6 DEF ScreenTypes, deviceVars
<1> QED BY <1>1, <1>2, <1>3, <1>4, <1>5, <1>6

-----------------------------------------------------------------------------
(* A handler's own steps                                                   *)

AtScreen == {"capturing"} \cup AtPhone
OthersStay(d) == query' = query /\ \A e \in Downloads \ {d} : SameJob(e)

LEMMA WantedOpens == ASSUME JobTypes, NEW d \in Downloads PROVE Wanted(d) \in Openable
  BY DEF JobTypes, Wanted, Video, Openable

\* A step away from the screens.
LEMMA StepElsewhere ==
  ASSUME ShotInv, NEW d \in Downloads, OthersStay(d), UNCHANGED deviceVars,
         stage[d] \notin AtScreen, stage'[d] \notin AtScreen, JobTypes', FiledRight(d)'
  PROVE  ShotInv'
<1>1. ScreenTypes' /\ (query \in [Searches -> Nat])'
  BY ScreensAfter DEF ShotInv, OthersStay
<1>2. \A e \in Downloads \ {d} : UsesAsItStands(e)' /\ FindsItsOwn(e)' /\ FiledRight(e)'
  BY NobodyMoves DEF OthersStay
<1>3. UsesAsItStands(d)' /\ FindsItsOwn(d)'
  BY DEF ShotInv, UsesAsItStands, FindsItsOwn, AtScreen, AtPhone, deviceVars
<1> QED BY <1>1, <1>2, <1>3 DEF ShotInv

\* It leaves the screen it was at.
LEMMA StepAway ==
  ASSUME ShotInv, NEW d \in Downloads, OthersStay(d), NEW s, Closes(s, d),
         \/ stage[d] = "capturing" /\ s = PageOf[d]
         \/ stage[d] \in AtPhone /\ s = Phone,
         stage'[d] \notin AtScreen, JobTypes', FiledRight(d)'
  PROVE  ShotInv'
<1>1. ScreenTypes' /\ (query \in [Searches -> Nat])'
  BY ScreensAfter DEF ShotInv, OthersStay
<1>2. \A e \in Downloads \ {d} : UsesAsItStands(e)' /\ FindsItsOwn(e)' /\ FiledRight(e)'
  BY OthersClose DEF OthersStay
<1>3. users \in [Screens -> SUBSET (Downloads \cup Searches \cup Extractions)] /\ UsesAsItStands(d)
  BY DEF ShotInv, ScreenTypes
<1>4. \A x \in Screens : d \notin users'[x]
  <2>1. \A x \in Screens : d \in users[x] => x = s
    BY <1>3 DEF UsesAsItStands, AtPhone
  <2> QED BY <1>3, <2>1 DEF Closes
<1>5. UsesAsItStands(d)' /\ FindsItsOwn(d)'
  BY <1>4 DEF UsesAsItStands, FindsItsOwn, AtScreen, AtPhone
<1> QED BY <1>1, <1>2, <1>5 DEF ShotInv

\* It goes to its account's page, or to the phone.
LEMMA StepToScreen ==
  ASSUME ShotInv, NEW d \in Downloads, OthersStay(d), stage[d] \notin AtScreen, NEW s,
         \/ s = PageOf[d] /\ s \in Pages /\ stage'[d] = "capturing" /\ ListensAndOpens(s, Wanted(d), d)
         \/ s = Phone /\ stage'[d] = "opened" /\ Opens(s, Wanted(d), d),
         index'[d] = index[d], JobTypes', got'[d] = got[d]
  PROVE  ShotInv'
<1>0. Wanted(d) \in Openable /\ Wanted(d)' = Wanted(d)
  BY WantedOpens DEF ShotInv, Wanted, Video
<1>1. ScreenTypes' /\ (query \in [Searches -> Nat])'
  BY <1>0, PhoneIsAScreen, ScreensAfter DEF ShotInv, OthersStay, OpensInSomeWay
<1>2. \A e \in Downloads \ {d} : UsesAsItStands(e)' /\ FindsItsOwn(e)' /\ FiledRight(e)'
  BY OthersOpen DEF OthersStay
<1>3. /\ users \in [Screens -> SUBSET (Downloads \cup Searches \cup Extractions)] /\ UsesAsItStands(d)
      /\ d \in DOMAIN loaded /\ DOMAIN showing = Screens
  BY DEF ShotInv, ScreenTypes
<1>4. s \in Screens /\ \A x \in Screens : d \notin users[x]
  BY <1>3, PhoneIsAScreen DEF UsesAsItStands, AtScreen, AtPhone
<1>5. \A x \in Screens : d \in users'[x] <=> x = s
  BY <1>3, <1>4 DEF Opens, ListensAndOpens
<1>6. UsesAsItStands(d)'
  BY <1>4, <1>5, PhoneIsAScreen DEF UsesAsItStands, AtPhone
<1>7. showing'[s] = Wanted(d) /\ (d \notin crossed' => users'[s] = {d} /\ loaded'[d] \subseteq {Wanted(d)})
  BY <1>3, <1>4 DEF Opens, ListensAndOpens
<1>8. FindsItsOwn(d)'
  BY <1>0, <1>7, PhoneIsAScreen DEF FindsItsOwn, AtPhone
<1>9. FiledRight(d)'
  BY DEF ShotInv, FiledRight
<1> QED BY <1>1, <1>2, <1>6, <1>8, <1>9 DEF ShotInv

\* It lists the files, then taps Save.
LEMMA StepTap ==
  ASSUME ShotInv, NEW d \in Downloads, PhoneLists(d) \/ PhoneTapsSave(d), UNCHANGED searchVars
  PROVE  ShotInv'
<1>1. /\ stage[d] \in {"opened", "listed"} /\ stage' = [stage EXCEPT ![d] = IF PhoneLists(d) THEN "listed" ELSE "saving"]
      /\ before' = [before EXCEPT ![d] = IF PhoneLists(d) THEN Len(gallery) ELSE @]
      /\ index' = index /\ got' = got /\ query' = query /\ (ListFiles(d) \/ TapSave)
  <2>1. CASE PhoneLists(d)
    BY <2>1 DEF PhoneLists, Stands, MovesTo, searchVars
  <2>2. CASE PhoneTapsSave(d) /\ ~PhoneLists(d)
    <3>1. before' = [before EXCEPT ![d] = @]
      BY <2>2 DEF PhoneTapsSave, ShotInv, JobTypes
    <3> QED BY <2>2, <3>1 DEF PhoneTapsSave, Stands, MovesTo, searchVars
  <2> QED BY <2>1, <2>2
<1>2. JobTypes /\ ScreenTypes /\ UsesAsItStands(d) /\ FindsItsOwn(d) /\ FiledRight(d)
  BY DEF ShotInv
<1>3. OthersStay(d)
  BY <1>1, <1>2 DEF OthersStay, SameJob, JobTypes
<1>4. JobTypes'
  <2>1. Len(gallery) \in Nat
    BY <1>2 DEF ScreenTypes
  <2>2. before' \in [Downloads -> Nat]
    BY <1>1, <1>2, <2>1 DEF JobTypes
  <2>3. stage' \in [Downloads -> Stages]
    BY <1>1, <1>2 DEF JobTypes, Stages
  <2> QED BY <1>1, <1>2, <2>2, <2>3 DEF JobTypes
<1>5. ScreenTypes' /\ (query \in [Searches -> Nat])'
  BY <1>1, <1>2, ScreensAfter DEF ShotInv
<1>6. d \in users[Phone]
  BY <1>1, <1>2, PhoneIsAScreen DEF UsesAsItStands, AtPhone
<1>7. \A e \in Downloads \ {d} : UsesAsItStands(e)' /\ FindsItsOwn(e)' /\ FiledRight(e)'
  BY <1>1, <1>3, <1>6, OthersTap DEF OthersStay
<1>8. users' = users /\ gallery' = gallery /\ got'[d] = got[d] /\ Wanted(d)' = Wanted(d)
  BY <1>1, <1>2 DEF JobTypes, Wanted, Video, ListFiles, TapSave
<1>9. stage'[d] = IF PhoneLists(d) THEN "listed" ELSE "saving"
  BY <1>1, <1>2 DEF JobTypes
<1>10. UsesAsItStands(d)' /\ FiledRight(d)'
  BY <1>1, <1>2, <1>8, <1>9 DEF UsesAsItStands, FiledRight, AtPhone
<1>11. FindsItsOwn(d)'
  <2>1. CASE PhoneLists(d)
    <3>1. /\ stage'[d] = "listed" /\ before'[d] = Len(gallery) /\ stage[d] = "opened"
          /\ saving' = saving /\ showing' = showing /\ (d \notin crossed' => d \notin crossed /\ saving = <<>>)
      BY <1>1, <1>2, <2>1 DEF PhoneLists, ListFiles, Stands, JobTypes
    <3> QED BY <1>2, <1>8, <3>1 DEF FindsItsOwn, AtPhone
  <2>2. CASE ~PhoneLists(d)
    <3>1. /\ stage'[d] = "saving" /\ before'[d] = before[d] /\ stage[d] = "listed" /\ crossed' = crossed
          /\ saving' = Append(saving, showing[Phone])
      BY <1>1, <1>2, <2>2 DEF PhoneTapsSave, TapSave, Stands, JobTypes
    <3>2. d \notin crossed => saving' = <<Wanted(d)>> /\ Len(gallery) = before[d] /\ users[Phone] = {d}
      BY <1>2, <3>1 DEF FindsItsOwn, AtPhone
    <3> QED BY <1>8, <3>1, <3>2 DEF FindsItsOwn
  <2> QED BY <2>1, <2>2
<1> QED BY <1>4, <1>5, <1>7, <1>10, <1>11 DEF ShotInv

\* An attempt that succeeds files what it got.
LEMMA FilesWhatItGot ==
  ASSUME JobTypes, NEW d \in Downloads, FiledRight(d), NEW content \in Openable,
         d \notin crossed => content = Wanted(d), Succeeds(d, content)
  PROVE  JobTypes' /\ FiledRight(d)' /\ stage'[d] = "next" /\ \A e \in Downloads \ {d} : SameJob(e)
<1> DEFINE entry == <<Wanted(d), content, d \notin crossed>>
<1>1. /\ got' = [got EXCEPT ![d] = Append(@, entry)] /\ index' = [index EXCEPT ![d] = @ + 1]
      /\ before' = [before EXCEPT ![d] = 0] /\ stage' = [stage EXCEPT ![d] = "next"]
  BY DEF Succeeds, Follows, MovesTo
<1>2. entry \in Openable \X Openable \X BOOLEAN
  BY WantedOpens
<1>3. entry[3] => entry[2] = entry[1]
  OBVIOUS
<1> HIDE DEF entry
<1>4. got[d] \in Seq(Openable \X Openable \X BOOLEAN) /\ got'[d] = Append(got[d], entry)
  BY <1>1 DEF JobTypes
<1>5. JobTypes'
  BY <1>1, <1>2, <1>4 DEF JobTypes, Stages
<1>6. FiledRight(d)'
  <2> SUFFICES ASSUME NEW i \in DOMAIN got'[d] PROVE got'[d][i][3] => got'[d][i][2] = got'[d][i][1]
    BY DEF FiledRight
  <2>1. CASE i = Len(got[d]) + 1
    <3>1. got'[d][i] = entry
      BY <1>2, <1>4, <2>1
    <3> QED BY <1>3, <3>1
  <2>2. CASE i # Len(got[d]) + 1
    <3>1. i \in DOMAIN got[d] /\ got'[d][i] = got[d][i]
      BY <1>2, <1>4, <2>2
    <3> QED BY <3>1 DEF FiledRight
  <2> QED BY <2>1, <2>2
<1>7. stage'[d] = "next" /\ \A e \in Downloads \ {d} : SameJob(e)
  BY <1>1 DEF JobTypes, SameJob
<1> QED BY <1>5, <1>6, <1>7

\* One that fails moves on to a place away from the screens.
LEMMA PlacesAfter ==
  ASSUME NEW d, NEW k
  PROVE  {AfterPhone(d, k), AfterYtdlp(d, k), AfterBrowser(d, k), AfterRouting(d, k)} \subseteq Stages \ AtScreen
  BY DEF AfterPhone, AfterYtdlp, AfterBrowser, AfterRouting, Stages, AtScreen, AtPhone

LEMMA MovesOn ==
  ASSUME JobTypes, NEW d \in Downloads, FiledRight(d), NEW place \in Stages \ AtScreen, MovesTo(d, place),
         \/ UNCHANGED before \/ before' = [before EXCEPT ![d] = 0],
         \/ UNCHANGED index \/ index' = [index EXCEPT ![d] = 1] \/ index' = [index EXCEPT ![d] = @ + 1],
         \/ UNCHANGED got \/ got' = [got EXCEPT ![d] = <<>>]
  PROVE  JobTypes' /\ FiledRight(d)' /\ stage'[d] \notin AtScreen /\ \A e \in Downloads \ {d} : SameJob(e)
<1>1. stage' = [stage EXCEPT ![d] = place]
  BY DEF MovesTo
<1>2. JobTypes'
  <2>1. stage' \in [Downloads -> Stages]
    BY <1>1 DEF JobTypes
  <2>2. before' \in [Downloads -> Nat]
    BY DEF JobTypes
  <2>3. index' \in [Downloads -> Nat]
    BY DEF JobTypes
  <2>4. got' \in [Downloads -> Seq(Openable \X Openable \X BOOLEAN)]
    <3> DEFINE Filed == Openable \X Openable \X BOOLEAN
    <3>1. got \in [Downloads -> Seq(Filed)]
      BY DEF JobTypes
    <3> HIDE DEF Filed
    <3>2. <<>> \in Seq(Filed)
      OBVIOUS
    <3>3. got' \in [Downloads -> Seq(Filed)]
      BY <3>1, <3>2
    <3> QED BY <3>3 DEF Filed
  <2> QED BY <2>1, <2>2, <2>3, <2>4 DEF JobTypes
<1>3. FiledRight(d)'
  BY DEF FiledRight, JobTypes
<1>4. stage'[d] \notin AtScreen /\ \A e \in Downloads \ {d} : SameJob(e)
  BY <1>1 DEF JobTypes, SameJob
<1> QED BY <1>2, <1>3, <1>4

LEMMA DownloadKeeps ==
  ASSUME ShotInv, NEW d \in Downloads, DownloadStep(d) \/ DownloadCancelled(d), UNCHANGED searchVars
  PROVE  ShotInv'
<1>1. JobTypes /\ ScreenTypes /\ FiledRight(d) /\ FindsItsOwn(d) /\ UsesAsItStands(d) /\ query' = query
  BY DEF ShotInv, searchVars
<1>2. ASSUME NEW place \in Stages \ AtScreen, MovesTo(d, place), stage[d] \notin AtScreen, UNCHANGED deviceVars,
             \/ UNCHANGED before \/ before' = [before EXCEPT ![d] = 0],
             \/ UNCHANGED index \/ index' = [index EXCEPT ![d] = 1] \/ index' = [index EXCEPT ![d] = @ + 1],
             \/ UNCHANGED got \/ got' = [got EXCEPT ![d] = <<>>]
      PROVE  ShotInv'
  <2>1. JobTypes' /\ FiledRight(d)' /\ stage'[d] \notin AtScreen /\ \A e \in Downloads \ {d} : SameJob(e)
    BY <1>1, <1>2, MovesOn
  <2> QED BY <1>1, <1>2, <2>1, StepElsewhere DEF OthersStay
<1>3. ASSUME NEW place \in Stages \ AtScreen, MovesTo(d, place), NEW s, Closes(s, d),
             \/ stage[d] = "capturing" /\ s = PageOf[d]
             \/ stage[d] \in AtPhone /\ s = Phone,
             \/ UNCHANGED before \/ before' = [before EXCEPT ![d] = 0],
             \/ UNCHANGED index \/ index' = [index EXCEPT ![d] = 1] \/ index' = [index EXCEPT ![d] = @ + 1],
             \/ UNCHANGED got \/ got' = [got EXCEPT ![d] = <<>>]
      PROVE  ShotInv'
  <2>1. JobTypes' /\ FiledRight(d)' /\ stage'[d] \notin AtScreen /\ \A e \in Downloads \ {d} : SameJob(e)
    BY <1>1, <1>3, MovesOn
  <2> QED BY <1>1, <1>3, <2>1, StepAway DEF OthersStay
<1>4. CASE RouteVideo(d)
  <2> DEFINE gate == IF Video(d).app THEN {"app_only_gate"} ELSE {}
  <2>1. stage[d] \notin AtScreen /\ UNCHANGED deviceVars /\ UNCHANGED before /\ UNCHANGED got
    BY <1>4 DEF RouteVideo, Stands, AtScreen, AtPhone
  <2>2. \/ MovesTo(d, AfterRouting(d, gate)) /\ UNCHANGED index
        \/ MovesTo(d, "next") /\ index' = [index EXCEPT ![d] = @ + 1]
    BY <1>4 DEF RouteVideo
  <2>3. AfterRouting(d, gate) \in Stages \ AtScreen /\ "next" \in Stages \ AtScreen
    BY PlacesAfter DEF Stages, AtScreen, AtPhone
  <2> HIDE DEF gate
  <2> QED BY <1>2, <2>1, <2>2, <2>3
<1>5. CASE BrowserOpens(d)
  <2>1. stage[d] \notin AtScreen
    BY <1>5 DEF BrowserOpens, Stands, AtScreen, AtPhone
  <2>2. ASSUME NEW k, FailsWith(d, kinds[d] \cup {k}, AfterBrowser(d, kinds[d] \cup {k})), UNCHANGED <<before, deviceVars>>
        PROVE  ShotInv'
    <3>1. AfterBrowser(d, kinds[d] \cup {k}) \in Stages \ AtScreen
      BY PlacesAfter
    <3>2. MovesTo(d, AfterBrowser(d, kinds[d] \cup {k})) /\ UNCHANGED index /\ UNCHANGED got
      BY <2>2 DEF FailsWith
    <3> QED BY <1>2, <2>1, <2>2, <3>1, <3>2
  <2>3. ASSUME PageOf[d] \in Pages, ListensAndOpens(PageOf[d], Wanted(d), d), MovesTo(d, "capturing"),
               UNCHANGED <<index, before, got>>
        PROVE  ShotInv'
    <3>1. JobTypes' /\ stage'[d] = "capturing" /\ index'[d] = index[d] /\ got'[d] = got[d]
      BY <1>1, <2>3 DEF JobTypes, MovesTo, Stages
    <3>2. OthersStay(d)
      BY <1>1, <2>3 DEF JobTypes, MovesTo, OthersStay, SameJob
    <3> QED BY <2>1, <2>3, <3>1, <3>2, StepToScreen
  <2> QED BY <1>5, <2>2, <2>3 DEF BrowserOpens
<1>6. CASE BrowserCaptures(d)
  <2>1. stage[d] = "capturing" /\ Closes(PageOf[d], d)
    BY <1>6 DEF BrowserCaptures, Stands
  <2>2. ASSUME NEW k, FailsWith(d, kinds[d] \cup {k}, AfterBrowser(d, kinds[d] \cup {k})), UNCHANGED before
        PROVE  ShotInv'
    <3>1. AfterBrowser(d, kinds[d] \cup {k}) \in Stages \ AtScreen
      BY PlacesAfter
    <3>2. MovesTo(d, AfterBrowser(d, kinds[d] \cup {k})) /\ UNCHANGED index /\ UNCHANGED got
      BY <2>2 DEF FailsWith
    <3> QED BY <1>3, <2>1, <2>2, <3>1, <3>2
  <2>3. ASSUME NEW w \in Offered(d), Succeeds(d, w) PROVE ShotInv'
    <3>1. w \in Openable
      BY <1>1, <2>3 DEF ScreenTypes, Offered
    <3>2. d \notin crossed => w = Wanted(d)
      BY <1>1, <2>1, <2>3 DEF FindsItsOwn, Offered
    <3>3. JobTypes' /\ FiledRight(d)' /\ stage'[d] = "next" /\ \A e \in Downloads \ {d} : SameJob(e)
      BY <1>1, <2>3, <3>1, <3>2, FilesWhatItGot
    <3> QED BY <1>1, <2>1, <3>3, StepAway DEF OthersStay, AtScreen, AtPhone
  <2> QED BY <1>6, <2>2, <2>3 DEF BrowserCaptures
<1>7. CASE RunYtdlp(d)
  <2>1. stage[d] \notin AtScreen /\ UNCHANGED deviceVars
    BY <1>7 DEF RunYtdlp, Stands, AtScreen, AtPhone
  <2>2. CASE Succeeds(d, Wanted(d))
    <3>1. JobTypes' /\ FiledRight(d)' /\ stage'[d] = "next" /\ \A e \in Downloads \ {d} : SameJob(e)
      BY <1>1, <2>2, WantedOpens, FilesWhatItGot
    <3> QED BY <1>1, <2>1, <3>1, StepElsewhere DEF OthersStay, AtScreen, AtPhone
  <2>3. ASSUME NEW k, NEW place \in {AfterYtdlp(d, kinds[d] \cup {k}), "cookies", "export"},
               FailsWith(d, kinds[d] \cup {k}, place), UNCHANGED before
        PROVE  ShotInv'
    <3>1. place \in Stages \ AtScreen
      BY PlacesAfter DEF Stages, AtScreen, AtPhone
    <3>2. MovesTo(d, place) /\ UNCHANGED index /\ UNCHANGED got
      BY <2>3 DEF FailsWith
    <3> QED BY <1>2, <2>1, <2>3, <3>1, <3>2
  <2> QED BY <1>7, <2>2, <2>3 DEF RunYtdlp
<1>8. CASE ExportCookies(d)
  <2>1. stage[d] \notin AtScreen /\ UNCHANGED deviceVars /\ UNCHANGED index /\ UNCHANGED got /\ UNCHANGED before
    BY <1>8 DEF ExportCookies, Stands, AtScreen, AtPhone
  <2>2. MovesTo(d, "cookies") \/ MovesTo(d, AfterYtdlp(d, kinds[d]))
    BY <1>8 DEF ExportCookies
  <2>3. {"cookies", AfterYtdlp(d, kinds[d])} \subseteq Stages \ AtScreen
    BY PlacesAfter DEF Stages, AtScreen, AtPhone
  <2> QED BY <1>2, <2>1, <2>2, <2>3
<1>9. CASE PhoneOpens(d)
  <2>1. stage[d] \notin AtScreen
    BY <1>9 DEF PhoneOpens, Stands, AtScreen, AtPhone
  <2>2. ASSUME NEW k, FailsWith(d, kinds[d] \cup {k}, AfterPhone(d, kinds[d] \cup {k})), UNCHANGED <<before, deviceVars>>
        PROVE  ShotInv'
    <3>1. AfterPhone(d, kinds[d] \cup {k}) \in Stages \ AtScreen
      BY PlacesAfter
    <3>2. MovesTo(d, AfterPhone(d, kinds[d] \cup {k})) /\ UNCHANGED index /\ UNCHANGED got
      BY <2>2 DEF FailsWith
    <3> QED BY <1>2, <2>1, <2>2, <3>1, <3>2
  <2>3. ASSUME Opens(Phone, Wanted(d), d), MovesTo(d, "opened"), UNCHANGED <<index, before, got>>
        PROVE  ShotInv'
    <3>1. JobTypes' /\ stage'[d] = "opened" /\ index'[d] = index[d] /\ got'[d] = got[d]
      BY <1>1, <2>3 DEF JobTypes, MovesTo, Stages
    <3>2. OthersStay(d)
      BY <1>1, <2>3 DEF JobTypes, MovesTo, OthersStay, SameJob
    <3> QED BY <2>1, <2>3, <3>1, <3>2, StepToScreen
  <2> QED BY <1>9, <2>2, <2>3 DEF PhoneOpens
<1>10. CASE PhoneLists(d) \/ PhoneTapsSave(d)
  BY <1>10, StepTap
<1>11. CASE PhonePulls(d)
  <2>1. stage[d] = "saving" /\ Closes(Phone, d) /\ Len(gallery) > before[d] /\ Succeeds(d, gallery[Len(gallery)])
    BY <1>11 DEF PhonePulls, Stands, HasNewFile, NewestFile
  <2>2. gallery[Len(gallery)] \in Openable /\ Len(gallery) # before[d]
    BY <1>1, <2>1 DEF ScreenTypes, JobTypes
  <2>3. d \notin crossed => gallery[Len(gallery)] = Wanted(d)
    BY <1>1, <2>1, <2>2 DEF FindsItsOwn
  <2>4. JobTypes' /\ FiledRight(d)' /\ stage'[d] = "next" /\ \A e \in Downloads \ {d} : SameJob(e)
    BY <1>1, <2>1, <2>2, <2>3, FilesWhatItGot
  <2> QED BY <1>1, <2>1, <2>4, StepAway DEF OthersStay, AtScreen, AtPhone
<1>12. CASE PhoneStops(d)
  <2>1. stage[d] \in AtPhone /\ Closes(Phone, d) /\ before' = [before EXCEPT ![d] = 0]
    BY <1>12 DEF PhoneStops, Stands
  <2>2. PICK k : FailsWith(d, kinds[d] \cup {k}, AfterPhone(d, kinds[d] \cup {k}))
    BY <1>12 DEF PhoneStops
  <2>3. AfterPhone(d, kinds[d] \cup {k}) \in Stages \ AtScreen
    BY PlacesAfter
  <2>4. MovesTo(d, AfterPhone(d, kinds[d] \cup {k})) /\ UNCHANGED index /\ UNCHANGED got
    BY <2>2 DEF FailsWith
  <2> QED BY <1>3, <2>1, <2>3, <2>4
<1>13. CASE Settles(d)
  <2>1. stage[d] \notin AtScreen /\ UNCHANGED deviceVars /\ UNCHANGED got
    BY <1>13 DEF Settles, Stands, AtScreen, AtPhone
  <2>2. MovesTo(d, "next") /\ before' = [before EXCEPT ![d] = 0] /\ index' = [index EXCEPT ![d] = @ + 1]
    BY <1>13 DEF Settles, Follows
  <2>3. "next" \in Stages \ AtScreen
    BY DEF Stages, AtScreen, AtPhone
  <2> QED BY <1>2, <2>1, <2>2, <2>3
<1>14. CASE DownloadEnds(d)
  <2>1. stage[d] \notin AtScreen /\ UNCHANGED deviceVars /\ UNCHANGED index /\ UNCHANGED got /\ UNCHANGED before
    BY <1>14 DEF DownloadEnds, Stands, AtScreen, AtPhone
  <2>2. \E place \in {"done", "fatal", "retry"} : MovesTo(d, place)
    BY <1>14 DEF DownloadEnds
  <2>3. {"done", "fatal", "retry"} \subseteq Stages \ AtScreen
    BY DEF Stages, AtScreen, AtPhone
  <2> QED BY <1>2, <2>1, <2>2, <2>3
<1>15. CASE DownloadCancelled(d)
  <2>1. /\ MovesTo(d, "cancelled") /\ index' = [index EXCEPT ![d] = 1] /\ before' = [before EXCEPT ![d] = 0]
        /\ got' = [got EXCEPT ![d] = <<>>] /\ "cancelled" \in Stages \ AtScreen
    BY <1>15 DEF DownloadCancelled, Stages, AtScreen, AtPhone
  <2>2. CASE stage[d] = "capturing"
    <3>1. Closes(PageOf[d], d)
      BY <1>15, <2>2 DEF DownloadCancelled, AtPhone
    <3> QED BY <1>3, <2>1, <2>2, <3>1
  <2>3. CASE stage[d] \in AtPhone
    <3>1. Closes(Phone, d)
      BY <1>15, <2>3 DEF DownloadCancelled, AtPhone
    <3> QED BY <1>3, <2>1, <2>3, <3>1
  <2>4. CASE stage[d] \notin AtScreen
    <3>1. UNCHANGED deviceVars
      BY <1>15, <2>4 DEF DownloadCancelled, AtScreen, AtPhone
    <3> QED BY <1>2, <2>1, <2>4, <3>1
  <2> QED BY <2>2, <2>3, <2>4 DEF AtScreen, AtPhone
<1> QED BY <1>4, <1>5, <1>6, <1>7, <1>8, <1>9, <1>10, <1>11, <1>12, <1>13, <1>14, <1>15 DEF DownloadStep

-----------------------------------------------------------------------------
(* The other handlers                                                      *)

LEMMA OthersKeep ==
  ASSUME ShotInv, UNCHANGED downloadVars, (query \in [Searches -> Nat])',
         NEW u, u \notin Downloads,
         \/ u \in Searches \cup Extractions /\ \E s, w : w \in Openable /\ Opens(s, w, u)
         \/ \E s : Closes(s, u)
         \/ UNCHANGED deviceVars
  PROVE  ShotInv'
<1>1. \A d \in Downloads : SameJob(d) /\ u # d
  BY DEF downloadVars, jobVars, SameJob
<1>2. JobTypes' /\ ScreenTypes'
  <2>1. ScreenTypes'
    BY ScreensAfter DEF ShotInv, OpensInSomeWay
  <2> QED BY <2>1 DEF ShotInv, JobTypes, downloadVars, jobVars
<1>3. \A d \in Downloads : UsesAsItStands(d)' /\ FindsItsOwn(d)' /\ FiledRight(d)'
  BY <1>1, OthersOpen, OthersClose, NobodyMoves
<1> QED BY <1>2, <1>3 DEF ShotInv

LEMMA SearchKeeps ==
  ASSUME ShotInv, NEW t \in Searches, t \notin Downloads, SearchStep(t) \/ SearchRaises(t), UNCHANGED downloadVars
  PROVE  ShotInv'
<1>1. query \in [Searches -> Nat]
  BY DEF ShotInv
<1>2. (query \in [Searches -> Nat])'
  BY <1>1 DEF SearchStep, BeginSearch, Discover, OpenProfile, ConfirmAuth, LoadResults, ScrollRound, MergeQuery,
              ReturnFound, SearchRaises
<1>3. {ProductOf[t], HomePage, QueriesOf[t][query[t]]} \subseteq Openable
  BY <1>1 DEF Openable
<1>4. \/ \E s, w : w \in Openable /\ Opens(s, w, t)
      \/ \E s : Closes(s, t)
      \/ UNCHANGED deviceVars
  BY <1>3 DEF SearchStep, BeginSearch, Discover, OpenProfile, ConfirmAuth, LoadResults, ScrollRound, MergeQuery,
              ReturnFound, SearchRaises
<1> QED BY <1>2, <1>4, OthersKeep

LEMMA InfoKeeps ==
  ASSUME ShotInv, NEW c \in Callers, c \notin Downloads, InfoStep(c), UNCHANGED <<downloadVars, searchVars>>
  PROVE  ShotInv'
<1>1. (query \in [Searches -> Nat])' /\ UNCHANGED downloadVars
  BY DEF ShotInv, searchVars
<1>2. CASE OpenShop(c)
  <2>1. c \in Extractions /\ ProductAt[c] \in Openable
    BY <1>2 DEF OpenShop, Openable
  <2>2. (\E s, w : w \in Openable /\ Opens(s, w, c)) \/ UNCHANGED deviceVars
    BY <1>2, <2>1 DEF OpenShop
  <2> QED BY <1>1, <2>1, <2>2, OthersKeep
<1>3. CASE ReadShop(c)
  <2>1. \E s : Closes(s, c)
    BY <1>3 DEF ReadShop
  <2> QED BY <1>1, <2>1, OthersKeep
<1>4. CASE AskAi(c) \/ AiAnswers(c) \/ Refine(c) \/ TakeAnswer(c)
  <2>1. UNCHANGED deviceVars
    BY <1>4 DEF AskAi, AiAnswers, Refine, TakeAnswer
  <2> QED BY <1>1, <2>1, OthersKeep
<1> QED BY <1>2, <1>3, <1>4 DEF InfoStep

LEMMA ShotStart == ASSUME TikTokInit PROVE ShotInv
<1>1. ScreenTypes
  <2>1. Blank \in Things /\ DevicesInit(Downloads \cup Searches \cup Extractions)
    BY DEF TikTokInit
  <2> QED BY <2>1 DEF DevicesInit, ScreenTypes, Openable
<1>2. JobTypes /\ query \in [Searches -> Nat] /\ \A d \in Downloads : stage[d] = "idle" /\ got[d] = <<>>
  BY DEF TikTokInit, DownloadInit, SearchInit, JobTypes, Stages
<1>3. \A s \in Screens : users[s] = {}
  BY DEF TikTokInit, DevicesInit
<1>4. \A d \in Downloads : UsesAsItStands(d) /\ FindsItsOwn(d) /\ FiledRight(d)
  <2> SUFFICES ASSUME NEW d \in Downloads
               PROVE  UsesAsItStands(d) /\ FindsItsOwn(d) /\ FiledRight(d)
    OBVIOUS
  <2>1. stage[d] = "idle" /\ got[d] = <<>> /\ \A s \in Screens : d \notin users[s]
    BY <1>2, <1>3
  <2>5. stage[d] \notin AtPhone /\ stage[d] \notin {"opened", "listed", "saving", "capturing"}
    BY <2>1 DEF AtPhone
  <2>2. UsesAsItStands(d)
    BY <2>1, <2>5 DEF UsesAsItStands
  <2>3. FindsItsOwn(d)
    BY <2>5 DEF FindsItsOwn
  <2>4. FiledRight(d)
    BY <2>1 DEF FiledRight
  <2> QED BY <2>2, <2>3, <2>4
<1> QED BY <1>1, <1>2, <1>4 DEF ShotInv

\* Whichever attempt brings a video, whatever the other handlers open in the
\* meantime: a file is filed under what it shows, unless the session crossed
\* another one's.
THEOREM VideosAreFiledRight ==
  ASSUME (Searches \cup Callers) \cap Downloads = {}
  PROVE  TikTokSpec => []RightVideo
<1>1. TikTokInit => ShotInv
  BY ShotStart
<1>2. ShotInv /\ [TikTokNext]_tikTokVars => ShotInv'
  <2> SUFFICES ASSUME ShotInv, [TikTokNext]_tikTokVars PROVE ShotInv'
    OBVIOUS
  <2>1. ASSUME UNCHANGED <<downloadVars, searchVars, deviceVars>> PROVE ShotInv'
    <3>1. UNCHANGED deviceVars /\ UNCHANGED downloadVars /\ (query \in [Searches -> Nat])'
      BY <2>1 DEF ShotInv, searchVars
    <3>2. \A d \in Downloads : SameJob(d)
      BY <3>1 DEF SameJob, downloadVars, jobVars
    <3>3. ScreenTypes' /\ JobTypes'
      BY <3>1, ScreensAfter DEF ShotInv, JobTypes, downloadVars, jobVars
    <3> QED BY <3>1, <3>2, <3>3, NobodyMoves DEF ShotInv
  <2>2. CASE \E d \in Downloads : (DownloadStep(d) \/ DownloadCancelled(d)) /\ UNCHANGED <<searchVars, infoVars, routerVars>>
    BY <2>2, DownloadKeeps
  <2>3. CASE \E t \in Searches : (SearchStep(t) \/ SearchRaises(t)) /\ UNCHANGED <<downloadVars, infoVars, routerVars>>
    BY <2>3, SearchKeeps
  <2>4. CASE \E c \in Callers : InfoStep(c) /\ UNCHANGED <<downloadVars, searchVars>>
    BY <2>4, InfoKeeps
  <2>5. CASE AppActs /\ UNCHANGED <<searchVars, infoVars, routerVars>>
    <3>1. (SaveLands \/ SaveIsLost) /\ UNCHANGED downloadVars /\ (query \in [Searches -> Nat])'
      BY <2>5 DEF AppActs, ShotInv, searchVars
    <3>2. \A d \in Downloads : SameJob(d)
      BY <3>1 DEF SameJob, downloadVars, jobVars
    <3>3. ScreenTypes' /\ JobTypes'
      BY <3>1, ScreensAfter DEF ShotInv, JobTypes, downloadVars, jobVars
    <3> QED BY <3>1, <3>2, <3>3, AppKeeps DEF ShotInv
  <2>6. CASE OperatorEdits /\ UNCHANGED <<downloadVars, searchVars, infoVars, deviceVars>>
    BY <2>1, <2>6
  <2>7. CASE UNCHANGED tikTokVars
    BY <2>1, <2>7 DEF tikTokVars
  <2> QED BY <2>2, <2>3, <2>4, <2>5, <2>6, <2>7 DEF TikTokNext
<1>3. ShotInv => RightVideo
  BY DEF ShotInv, RightVideo, FiledRight
<1> QED BY <1>1, <1>2, <1>3, PTL DEF TikTokSpec

-----------------------------------------------------------------------------
(* The fleet: no upload in the three sessions after a block                *)

FleetSpec == FleetInit /\ [][FleetNext]_fleetAndBrainVars

\* A turn is a record of its three fields, whatever plan it holds.
IsTurn(t) == t = [step |-> t.step, plan |-> t.plan, varied |-> t.varied]

\* The history remembers the block for as long as it matters: k < 3 quiet
\* sessions ago it is the last outcome but k, though the oldest are dropped.
QuietInv ==
  /\ past \in [Members -> Seq(Outcomes)]
  /\ quiet \in [Members -> Nat]
  /\ turn = [a \in Members |-> turn[a]]
  /\ \A a \in Members : IsTurn(turn[a])
  /\ \A a \in Members : quiet[a] < 3 =>
       Len(past[a]) > quiet[a] /\ past[a][Len(past[a]) - quiet[a]] = "blocked"
  /\ QuietAfterBlock

\* A block among the last three outcomes is found by looking back three.
LEMMA BlockIsSeen ==
  ASSUME NEW a \in Members, past[a] \in Seq(Outcomes), NEW k \in Nat, k < 3, k < Len(past[a]),
         past[a][Len(past[a]) - k] = "blocked"
  PROVE  BlockedLately(a)
<1> DEFINE h == past[a]
           len == Len(h)
           first == IF len > 3 THEN len - 3 + 1 ELSE 1
           marks == {i \in DOMAIN Recent(3, a) : Recent(3, a)[i] = "blocked"}
           at == len - k - first + 1
<1>1. len \in Nat /\ first \in 1..len
  OBVIOUS
<1>2. Recent(3, a) = SubSeq(h, first, len)
  BY DEF Recent
<1>3. /\ Len(Recent(3, a)) = len - first + 1
      /\ DOMAIN Recent(3, a) = 1..(len - first + 1)
      /\ \A i \in 1..(len - first + 1) : Recent(3, a)[i] = h[first + i - 1]
  <2>1. \A i \in first..len : h[i] \in Outcomes
    BY <1>1
  <2>2. first \in Int /\ len \in Int /\ first <= len
    BY <1>1
  <2> HIDE DEF h, len, first
  <2>3. /\ SubSeq(h, first, len) \in Seq(Outcomes)
        /\ Len(SubSeq(h, first, len)) = len - first + 1
        /\ \A i \in 1..(len - first + 1) : SubSeq(h, first, len)[i] = h[first + i - 1]
    BY <2>1, <2>2, SubSeqProperties
  <2> DEFINE part == SubSeq(h, first, len)
  <2>4. DOMAIN part = 1..(len - first + 1)
    <3> HIDE DEF part
    <3> QED BY <2>3 DEF part
  <2> QED BY <1>2, <2>3, <2>4
<1>4. at \in 1..(len - first + 1) /\ first + at - 1 = len - k
  BY <1>1
<1>5. at \in marks
  BY <1>3, <1>4
<1>6. IsFiniteSet(marks)
  <2>1. IsFiniteSet(1..(len - first + 1))
    <3>1. 1 \in Int /\ len - first + 1 \in Int
      BY <1>1
    <3> HIDE DEF len, first
    <3> QED BY <3>1, FS_Interval
  <2> QED BY <1>3, <2>1, FS_Subset
<1>7. Cardinality(marks) # 0 /\ Cardinality(marks) \in Nat
  <2> HIDE DEF marks
  <2> QED BY <1>5, <1>6, FS_EmptySet, FS_CardinalityType
<1> QED BY <1>7 DEF BlockedLately, Occurrences

\* An upload is planned only where no block is seen.
LEMMA UploadsNeedQuiet ==
  ASSUME NEW a \in Members, NEW s, NEW intent \in Intents(a, s), NEW tier \in Risks(a, s),
         Allowed(intent, tier) = "upload"
  PROVE  ~BlockedLately(a)
<1>1. SUFFICES ASSUME BlockedLately(a) PROVE FALSE
  OBVIOUS
<1>2. tier = "HIGH"
  BY <1>1 DEF Risks, Alarm
<1> QED BY <1>2 DEF Allowed

\* What is remembered after a report: the history still ends in the same way.
Filed(old, outcome) == LET h == Append(old, outcome) IN IF Len(h) > HistoryMax THEN Tail(h) ELSE h

LEMMA HistoryKeepsEnd ==
  ASSUME HistoryMax \in Nat, HistoryMax >= 3, NEW old \in Seq(Outcomes), NEW outcome \in Outcomes
  PROVE  LET new == Filed(old, outcome)
         IN  /\ new \in Seq(Outcomes)
             /\ Len(new) > 0 /\ new[Len(new)] = outcome
             /\ \A k \in {0, 1} : k < Len(old) =>
                  k + 1 < Len(new) /\ new[Len(new) - (k + 1)] = old[Len(old) - k]
<1> DEFINE h == Append(old, outcome)
           new == Filed(old, outcome)
<1>1. /\ h \in Seq(Outcomes) /\ Len(h) = Len(old) + 1 /\ h[Len(h)] = outcome
      /\ \A i \in 1..Len(old) : h[i] = old[i]
      /\ Len(old) \in Nat
  OBVIOUS
<1>2. new = IF Len(h) > HistoryMax THEN Tail(h) ELSE h
  BY DEF Filed
<1> HIDE DEF h, new
<1>3. CASE Len(h) > HistoryMax
  <2>1. new = Tail(h) /\ h # <<>>
    BY <1>1, <1>2, <1>3
  <2>2. new \in Seq(Outcomes) /\ Len(new) = Len(h) - 1 /\ \A i \in 1..Len(new) : new[i] = h[i + 1]
    BY <1>1, <2>1
  <2>3. Len(old) >= 3 /\ Len(new) = Len(old)
    BY <1>1, <1>3, <2>2
  <2>4. new[Len(new)] = outcome
    BY <1>1, <2>2, <2>3
  <2>5. ASSUME NEW k \in {0, 1} PROVE new[Len(new) - (k + 1)] = old[Len(old) - k]
    <3>1. Len(old) - (k + 1) \in 1..Len(new) /\ Len(old) - k \in 1..Len(old)
      BY <1>1, <2>3
    <3>2. new[Len(old) - (k + 1)] = h[Len(old) - (k + 1) + 1]
      BY <2>2, <3>1
    <3>3. Len(old) - (k + 1) + 1 = Len(old) - k
      BY <1>1
    <3> QED BY <1>1, <2>3, <3>1, <3>2, <3>3
  <2>6. \A k \in {0, 1} : k + 1 < Len(new)
    BY <1>1, <2>3
  <2> QED BY <1>1, <2>2, <2>3, <2>4, <2>5, <2>6 DEF new
<1>4. CASE ~(Len(h) > HistoryMax)
  <2>1. new = h
    BY <1>2, <1>4
  <2>2. ASSUME NEW k \in {0, 1}, k < Len(old)
        PROVE  k + 1 < Len(new) /\ new[Len(new) - (k + 1)] = old[Len(old) - k]
    <3>1. Len(old) - k \in 1..Len(old) /\ Len(new) - (k + 1) = Len(old) - k
      BY <1>1, <2>1, <2>2
    <3> QED BY <1>1, <2>1, <2>2, <3>1
  <2> QED BY <1>1, <2>1, <2>2 DEF new
<1> QED BY <1>3, <1>4

LEMMA QuietStart == ASSUME MaxSessions \in Nat, MaxSessions >= 3, FleetInit PROVE QuietInv
<1>1. \A a \in Members : turn[a] = Idle
  BY DEF FleetInit
<1>2. QuietAfterBlock /\ \A a \in Members : IsTurn(turn[a])
  BY <1>1 DEF QuietAfterBlock, Idle, IsTurn
<1>3. past \in [Members -> Seq(Outcomes)]
  BY DEF FleetInit, BrainInit
<1> QED BY <1>2, <1>3 DEF FleetInit, QuietInv

\* A turn that changes but its own account's keeps the invariant when it plans
\* no upload too early.
LEMMA TurnsKeepQuiet ==
  ASSUME QuietInv, NEW a \in Members, NEW t, IsTurn(t), turn' = [turn EXCEPT ![a] = t],
         UNCHANGED <<past, quiet>>,
         t.step = "prepared" /\ t.plan.intent = "upload" => quiet[a] >= 3
  PROVE  QuietInv'
<1>1. \A b \in Members : turn'[b] = IF b = a THEN t ELSE turn[b]
  BY DEF QuietInv
<1>2. turn' = [b \in Members |-> turn'[b]]
  BY DEF QuietInv
<1>3. \A b \in Members : IsTurn(turn[b])'
  BY <1>1 DEF QuietInv, IsTurn
<1>4. QuietAfterBlock'
  BY <1>1 DEF QuietInv, QuietAfterBlock
<1> QED BY <1>2, <1>3, <1>4 DEF QuietInv

StartedAs(t, x, y) == [t EXCEPT !.step = x, !.varied = y]
PlannedAs(t, x, y) == [t EXCEPT !.step = x, !.plan = y]

LEMMA FieldsChange ==
  ASSUME NEW t, IsTurn(t), NEW x, NEW y
  PROVE  /\ IsTurn(StartedAs(t, x, y)) /\ StartedAs(t, x, y).step = x
         /\ IsTurn(PlannedAs(t, x, y)) /\ PlannedAs(t, x, y).plan = y
<1>1. PICK s, p, v : t = [step |-> s, plan |-> p, varied |-> v]
  BY DEF IsTurn
<1> DEFINE R == [step : {s, x}, plan : {p, y}, varied : {v, y}]
<1>2. t \in R
  BY <1>1
<1>3. ASSUME NEW u \in R PROVE IsTurn(u)
  BY DEF IsTurn
<1>4. StartedAs(t, x, y) \in R /\ StartedAs(t, x, y).step = x
  BY <1>2 DEF StartedAs
<1>5. PlannedAs(t, x, y) \in R /\ PlannedAs(t, x, y).plan = y
  BY <1>2 DEF PlannedAs
<1> HIDE DEF R
<1> QED BY <1>3, <1>4, <1>5

LEMMA NothingMovesQuiet ==
  ASSUME QuietInv, UNCHANGED <<past, quiet, turn>> PROVE QuietInv'
BY DEF QuietInv, QuietAfterBlock, IsTurn

LEMMA ReportKeepsQuiet ==
  ASSUME HistoryMax \in Nat, HistoryMax >= 3, MaxSessions \in Nat, MaxSessions >= 3,
         QuietInv, NEW a \in Members, Report(a)
  PROVE  QuietInv'
<1>1. PICK outcome \in Outcomes :
        /\ past' = [past EXCEPT ![a] = Filed(past[a], outcome)]
        /\ quiet' = [quiet EXCEPT ![a] = IF outcome = "blocked" THEN 0
                                         ELSE IF @ < MaxSessions THEN @ + 1 ELSE @]
  BY DEF Report, Remember, Results, Filed
<1>2. turn' = [turn EXCEPT ![a] = Idle]
  BY DEF Report
<1> DEFINE old == past[a]
           new == Filed(old, outcome)
<1>3. old \in Seq(Outcomes) /\ quiet[a] \in Nat
  BY DEF QuietInv
<1>4. past' = [past EXCEPT ![a] = new]
  BY <1>1
<1> HIDE DEF old, new
<1>5. /\ new \in Seq(Outcomes)
      /\ Len(new) > 0 /\ new[Len(new)] = outcome
      /\ \A k \in {0, 1} : k < Len(old) =>
           k + 1 < Len(new) /\ new[Len(new) - (k + 1)] = old[Len(old) - k]
  BY <1>3, HistoryKeepsEnd DEF new
<1>6. past' \in [Members -> Seq(Outcomes)] /\ quiet' \in [Members -> Nat]
  <2>1. past' \in [Members -> Seq(Outcomes)]
    BY <1>4, <1>5 DEF QuietInv
  <2>2. quiet' \in [Members -> Nat]
    BY <1>1, <1>3 DEF QuietInv
  <2> QED BY <2>1, <2>2
<1>7. \A b \in Members : turn'[b] = IF b = a THEN Idle ELSE turn[b]
  BY <1>2 DEF QuietInv
<1>8. turn' = [b \in Members |-> turn'[b]] /\ \A b \in Members : IsTurn(turn[b])'
  BY <1>2, <1>7 DEF QuietInv, IsTurn, Idle
<1>9. ASSUME NEW b \in Members, b # a
      PROVE  past'[b] = past[b] /\ quiet'[b] = quiet[b]
  BY <1>1, <1>4, <1>9 DEF QuietInv
<1>10. past'[a] = new /\ quiet'[a] = IF outcome = "blocked" THEN 0
                                     ELSE IF quiet[a] < MaxSessions THEN quiet[a] + 1 ELSE quiet[a]
  BY <1>1, <1>4 DEF QuietInv
<1>11. ASSUME NEW b \in Members, quiet'[b] < 3
       PROVE  Len(past'[b]) > quiet'[b] /\ past'[b][Len(past'[b]) - quiet'[b]] = "blocked"
  <2>1. CASE b # a
    BY <1>9, <1>11, <2>1 DEF QuietInv
  <2>2. CASE b = a /\ outcome = "blocked"
    <3>1. quiet'[b] = 0 /\ Len(new) \in Nat /\ past'[b] = new
      BY <1>5, <1>10, <2>2
    <3> QED BY <1>5, <2>2, <3>1
  <2>3. CASE b = a /\ outcome # "blocked"
    <3>1. quiet'[b] = quiet[a] + 1 /\ quiet[a] \in {0, 1} /\ past'[b] = new
      BY <1>3, <1>10, <1>11, <2>3
    <3>2. quiet[a] < Len(old) /\ old[Len(old) - quiet[a]] = "blocked"
      BY <3>1 DEF QuietInv, old
    <3> QED BY <1>5, <3>1, <3>2
  <2> QED BY <2>1, <2>2, <2>3
<1>12. QuietAfterBlock'
  BY <1>7, <1>9 DEF QuietInv, QuietAfterBlock, Idle
<1> QED BY <1>6, <1>8, <1>11, <1>12 DEF QuietInv

LEMMA QuietStep ==
  ASSUME HistoryMax \in Nat, HistoryMax >= 3, MaxSessions \in Nat, MaxSessions >= 3,
         QuietInv, FleetNext \/ UNCHANGED fleetAndBrainVars
  PROVE  QuietInv'
<1>1. ASSUME NEW a \in Members, RequestSlot(a) PROVE QuietInv'
  <2>1. UNCHANGED <<past, quiet>>
    BY <1>1 DEF RequestSlot, brainVars
  <2>2. CASE turn' = turn
    BY <2>1, <2>2, NothingMovesQuiet
  <2>3. CASE turn' = [turn EXCEPT ![a].step = "allowed"]
    <3> DEFINE t == [turn[a] EXCEPT !.step = "allowed"]
    <3>1. turn' = [turn EXCEPT ![a] = t]
      BY <2>3
    <3>2. IsTurn(turn[a])
      BY DEF QuietInv
    <3>3. IsTurn(t) /\ t.step = "allowed"
      BY <3>2 DEF IsTurn
    <3> QED BY <2>1, <3>1, <3>3, TurnsKeepQuiet
  <2> QED BY <1>1, <2>2, <2>3 DEF RequestSlot
<1>2. ASSUME NEW a \in Members, Start(a) PROVE QuietInv'
  <2>1. UNCHANGED <<past, quiet>>
    BY <1>2 DEF Start, brainVars
  <2>2. PICK batch \in BOOLEAN :
          turn' = [turn EXCEPT ![a] = [@ EXCEPT !.step = "started", !.varied = batch /\ a \in hint]]
    BY <1>2 DEF Start
  <2> DEFINE takes == batch /\ a \in hint
             t == StartedAs(turn[a], "started", takes)
  <2>3. turn' = [turn EXCEPT ![a] = t]
    BY <2>2 DEF StartedAs
  <2>4. IsTurn(turn[a])
    BY DEF QuietInv
  <2> HIDE DEF takes
  <2>5. IsTurn(t) /\ t.step = "started"
    BY <2>4, FieldsChange
  <2> QED BY <2>1, <2>3, <2>5, TurnsKeepQuiet
<1>3. ASSUME NEW a \in Members, Prepare(a) PROVE QuietInv'
  <2>1. PICK s \in Signals, taps \in BOOLEAN : \E tier \in Risks(a, s), intent \in Intents(a, s) :
          LET plan == [intent |-> Allowed(intent, tier), steps |-> Planned(a, Allowed(intent, tier), taps)]
          IN  /\ Decide(a, s, tier)
              /\ turn' = [turn EXCEPT ![a].step = "prepared",
                                      ![a].plan = IF turn[a].varied THEN Diverse(plan) ELSE plan]
    BY <1>3 DEF Prepare
  <2>2. PICK tier \in Risks(a, s), intent \in Intents(a, s) :
          LET plan == [intent |-> Allowed(intent, tier), steps |-> Planned(a, Allowed(intent, tier), taps)]
          IN  /\ Decide(a, s, tier)
              /\ turn' = [turn EXCEPT ![a].step = "prepared",
                                      ![a].plan = IF turn[a].varied THEN Diverse(plan) ELSE plan]
    BY <2>1
  <2> DEFINE plan == [intent |-> Allowed(intent, tier), steps |-> Planned(a, Allowed(intent, tier), taps)]
             kept == IF turn[a].varied THEN Diverse(plan) ELSE plan
             t == PlannedAs(turn[a], "prepared", kept)
  <2>3. UNCHANGED <<past, quiet>>
    BY <1>3, <2>2 DEF Prepare, Decide
  <2>4. turn' = [turn EXCEPT ![a] = t]
    BY <2>2 DEF PlannedAs
  <2>5. kept.intent = Allowed(intent, tier)
    BY DEF Diverse
  <2> HIDE DEF kept
  <2>6. IsTurn(turn[a])
    BY DEF QuietInv
  <2>7. IsTurn(t) /\ t.plan = kept
    BY <2>6, FieldsChange
  <2>8. t.plan.intent = "upload" => quiet[a] >= 3
    <3>1. SUFFICES ASSUME Allowed(intent, tier) = "upload", quiet[a] < 3 PROVE FALSE
      BY <2>5, <2>7 DEF QuietInv
    <3>2. ~BlockedLately(a)
      BY <3>1, UploadsNeedQuiet
    <3>3. past[a] \in Seq(Outcomes) /\ quiet[a] \in Nat
          /\ quiet[a] < Len(past[a]) /\ past[a][Len(past[a]) - quiet[a]] = "blocked"
      BY <3>1 DEF QuietInv
    <3> QED BY <3>1, <3>2, <3>3, BlockIsSeen
  <2> HIDE DEF t
  <2> QED BY <2>3, <2>4, <2>7, <2>8, TurnsKeepQuiet
<1>4. ASSUME NEW a \in Members, PrepareFails(a) PROVE QuietInv'
  <2>1. UNCHANGED <<past, quiet>> /\ turn' = [turn EXCEPT ![a] = Idle]
    BY <1>4 DEF PrepareFails, brainVars
  <2>2. IsTurn(Idle) /\ Idle.step = "none"
    BY DEF Idle, IsTurn
  <2> QED BY <2>1, <2>2, TurnsKeepQuiet
<1>5. ASSUME NEW a \in Members, Report(a) PROVE QuietInv'
  BY <1>5, ReportKeepsQuiet
<1>6. ASSUME NEW a \in Members, GetProxy(a) PROVE QuietInv'
  BY <1>6, NothingMovesQuiet DEF GetProxy, brainVars
<1>7. ASSUME NEW a \in Members, BansExpire(a), UNCHANGED fleetVars PROVE QuietInv'
  BY <1>7, NothingMovesQuiet DEF BansExpire, fleetVars
<1>8. ASSUME NEW w, Passes(w) PROVE QuietInv'
  BY <1>8, NothingMovesQuiet DEF Passes, brainVars
<1>9. ASSUME NEW m, SetFleetMode(m) PROVE QuietInv'
  BY <1>9, NothingMovesQuiet DEF SetFleetMode, brainVars
<1>10. CASE UNCHANGED fleetAndBrainVars
  BY <1>10, NothingMovesQuiet DEF fleetAndBrainVars, fleetVars, brainVars
<1> QED BY <1>1, <1>2, <1>3, <1>4, <1>5, <1>6, <1>7, <1>8, <1>9, <1>10 DEF FleetNext

\* Whatever the fleet's accounts go through, an account that was blocked is
\* planned no upload in its next three sessions, for any history of three
\* outcomes or more (HISTORY_MAX is 10), any personality and any limits.
THEOREM BlocksSilenceUploads ==
  ASSUME HistoryMax \in Nat, HistoryMax >= 3, MaxSessions \in Nat, MaxSessions >= 3
  PROVE  FleetSpec => []QuietAfterBlock
<1>1. FleetInit => QuietInv
  BY QuietStart
<1>2. QuietInv /\ [FleetNext]_fleetAndBrainVars => QuietInv'
  BY QuietStep
<1>3. QuietInv => QuietAfterBlock
  BY DEF QuietInv
<1> QED BY <1>1, <1>2, <1>3, PTL DEF FleetSpec

-----------------------------------------------------------------------------
(* The bank of angles: no angle is overused while another is fresh         *)

AngleSpec == AngleInit /\ [][AngleNext]_angleVars

AngleRows == [there : BOOLEAN, score : Int, valid : BOOLEAN, life : STRING, uses : Nat,
              dom : Int, amp : Int, early : Int]

\* An angle nothing is known of but its uses: the score tells them.
Plain(a) == bank[a].there /\ ~bank[a].valid /\ perf[a].n = 0

\* A ceiling of the scores by uses: it takes the best raw score under the worst
\* by the time the hard limit is reached.
Ceiling(cap) ==
  /\ Hard \in Nat /\ RawScores \subseteq Int
  /\ cap \in [0..Hard -> Int]
  /\ \A r \in RawScores : r <= cap[0] /\ cap[Hard] < r
  /\ 0 <= cap[Hard]
  /\ \A u \in 1..Hard, s \in Int : s <= cap[u - 1] => Penalised(s, u) <= cap[u]

\* The score of such an angle is under the ceiling, past the hard limit as at it,
\* and unused its score is the raw one.
RotateInv(cap) ==
  /\ DOMAIN bank = Angles /\ DOMAIN perf = Angles
  /\ \A a \in Angles : DOMAIN bank[a] = DOMAIN NoAngle /\ bank[a].uses \in Nat /\ bank[a].score \in Int
                       /\ bank[a].valid \in BOOLEAN
  /\ \A a \in Angles : perf[a].n \in Nat
  /\ \A a \in Angles : Plain(a) =>
       /\ bank[a].uses <= Hard => bank[a].score <= cap[bank[a].uses]
       /\ bank[a].uses > Hard => bank[a].score <= cap[Hard]
       /\ bank[a].uses = 0 => bank[a].score \in RawScores

LEMMA ScoresStayInt ==
  ASSUME NEW s \in Int, NEW u PROVE Penalised(s, u) \in Int
BY DEF Penalised

\* The rows of all angles but one stay, and that one is no plain angle after.
LEMMA OneIsKnown ==
  ASSUME NEW cap, Ceiling(cap), RotateInv(cap), NEW a \in Angles, NEW r, NEW n \in Nat,
         bank' = [bank EXCEPT ![a] = r], DOMAIN r = DOMAIN NoAngle,
         r.uses = bank[a].uses, r.score \in Int, r.valid \in BOOLEAN, r.there = bank[a].there,
         DOMAIN perf' = Angles, \A b \in Angles : perf'[b].n = IF b = a THEN n ELSE perf[b].n,
         \/ r.valid \/ n > 0
         \/ r.score = bank[a].score /\ r.valid = bank[a].valid /\ n = perf[a].n
  PROVE  RotateInv(cap)'
<1>1. /\ DOMAIN bank' = Angles
      /\ \A b \in Angles : bank'[b] = IF b = a THEN r ELSE bank[b]
  BY DEF RotateInv
<1>2. \A b \in Angles : Plain(b)' =>
        /\ Plain(b) /\ bank'[b].uses = bank[b].uses /\ bank'[b].score = bank[b].score
  <2>1. perf[a].n \in Nat
    BY DEF RotateInv
  <2> QED BY <1>1, <2>1 DEF Plain, RotateInv
<1> QED BY <1>1, <1>2 DEF RotateInv

\* The best angle is used once more.
LEMMA UseKeepsRotation ==
  ASSUME NEW cap, Ceiling(cap), RotateInv(cap), Enrich PROVE RotateInv(cap)' /\ FreshAreUsedFirst
<1>1. PICK a \in BestAngles :
        bank' = [bank EXCEPT ![a].uses = @ + 1, ![a].score = Penalised(@, bank[a].uses + 1)]
  BY DEF Enrich
<1>2. a \in Angles /\ a \in InBank /\ perf' = perf
  BY DEF BestAngles, InBank, Enrich
<1> DEFINE u == bank[a].uses + 1
           s == Penalised(bank[a].score, u)
<1>3. /\ bank[a].uses \in Nat /\ bank[a].score \in Int /\ u \in Nat /\ u > 0 /\ u = bank[a].uses + 1
      /\ s \in Int
  BY <1>2, ScoresStayInt DEF RotateInv
<1>4. /\ DOMAIN bank' = Angles /\ DOMAIN bank'[a] = DOMAIN NoAngle
      /\ bank'[a].uses = u /\ bank'[a].score = s
      /\ bank'[a].valid = bank[a].valid /\ bank'[a].there = bank[a].there
      /\ \A b \in Angles : b # a => bank'[b] = bank[b]
  BY <1>1, <1>2 DEF RotateInv, NoAngle
<1>5. \A b \in Angles : Plain(b)' <=> Plain(b)
  BY <1>2, <1>4 DEF Plain
<1>6. Plain(a) /\ u <= Hard => s <= cap[u]
  <2>1. SUFFICES ASSUME Plain(a), u <= Hard PROVE s <= cap[u]
    OBVIOUS
  <2>2. bank[a].score <= cap[u - 1] /\ u \in 1..Hard
    BY <1>2, <1>3, <2>1 DEF RotateInv, Ceiling
  <2> HIDE DEF u
  <2> QED BY <1>3, <2>2 DEF Ceiling
<1>11. Plain(a) /\ u > Hard => s <= cap[Hard]
  <2>1. SUFFICES ASSUME Plain(a), u > Hard PROVE s <= cap[Hard]
    OBVIOUS
  <2>2. Hard \in Nat /\ cap[Hard] \in Int /\ 0 <= cap[Hard]
    <3>1. Hard \in 0..Hard /\ cap \in [0..Hard -> Int]
      BY DEF Ceiling
    <3> QED BY <3>1 DEF Ceiling
  <2>3. bank[a].score <= cap[Hard]
    <3>1. bank[a].uses >= Hard
      BY <1>3, <2>1, <2>2
    <3> QED BY <1>2, <1>3, <2>1, <2>2, <3>1 DEF RotateInv
  <2>4. s = bank[a].score \div 2
    BY <2>1 DEF Penalised
  <2>5. \A x, c \in Int : x <= c /\ 0 <= c => x \div 2 <= c
    <3> SUFFICES ASSUME NEW x \in Int, NEW c \in Int, x <= c, 0 <= c PROVE x \div 2 <= c
      OBVIOUS
    <3>1. x \div 2 \in Int /\ 2 * (x \div 2) <= x
      OBVIOUS
    <3> QED BY <3>1
  <2>6. bank[a].score \div 2 <= cap[Hard]
    BY <1>3, <2>2, <2>3, <2>5
  <2> HIDE DEF s, u
  <2> QED BY <2>4, <2>6
<1>7. ASSUME Plain(a), bank[a].uses >= Hard, NEW c \in Angles, Plain(c) PROVE bank[c].uses # 0
  <2>1. cap[Hard] \in Int /\ Hard \in Nat
    <3>1. Hard \in 0..Hard /\ cap \in [0..Hard -> Int]
      BY DEF Ceiling
    <3> QED BY <3>1 DEF Ceiling
  <2>2. bank[a].score <= cap[Hard]
    BY <1>2, <1>3, <1>7, <2>1 DEF RotateInv
  <2>3. ~(bank[c].score > bank[a].score)
    <3>1. ~Better(c, a) /\ ~bank[c].valid /\ ~bank[a].valid
      BY <1>7 DEF BestAngles, InBank, Plain
    <3>2. bank[c].valid = bank[a].valid
      BY <1>2, <3>1 DEF RotateInv
    <3> QED BY <3>1, <3>2 DEF Better
  <2>4. SUFFICES ASSUME bank[c].uses = 0 PROVE FALSE
    OBVIOUS
  <2>5. bank[c].score \in RawScores
    BY <1>7, <2>4 DEF RotateInv
  <2>6. bank[c].score \in Int /\ cap[Hard] < bank[c].score
    BY <2>5 DEF Ceiling
  <2> QED BY <1>3, <2>1, <2>2, <2>3, <2>6
<1>8. FreshAreUsedFirst
  <2> SUFFICES ASSUME NEW b \in Angles, NEW c \in Angles, Plain(b), Plain(c),
                      bank'[b].uses > bank[b].uses, bank'[b].uses > Hard
               PROVE  bank[c].uses > 0
    BY DEF FreshAreUsedFirst, InBank, Plain
  <2>1. b = a
    <3>1. CASE b # a
      <4>1. bank'[b].uses = bank[b].uses /\ bank[b].uses \in Nat
        BY <1>4, <3>1 DEF RotateInv
      <4> QED BY <4>1
    <3> QED BY <3>1
  <2>2. bank[a].uses >= Hard /\ bank[c].uses \in Nat
    BY <1>3, <1>4, <2>1 DEF RotateInv, Ceiling
  <2>3. bank[c].uses # 0
    BY <1>7, <2>1, <2>2
  <2> QED BY <2>2, <2>3
<1>9. ASSUME NEW b \in Angles, Plain(b)'
      PROVE  /\ bank'[b].uses <= Hard => bank'[b].score <= cap[bank'[b].uses]
             /\ bank'[b].uses > Hard => bank'[b].score <= cap[Hard]
             /\ bank'[b].uses = 0 => bank'[b].score \in RawScores
  <2>1. CASE b = a
    <3>1. u > Hard => s <= cap[Hard]
      BY <1>2, <1>5, <1>9, <2>1, <1>11
    <3> QED BY <1>3, <1>4, <1>5, <1>6, <1>9, <2>1, <3>1
  <2>2. CASE b # a
    BY <1>4, <1>5, <1>9, <2>2 DEF RotateInv
  <2> QED BY <2>1, <2>2
<1>10. \A b \in Angles : DOMAIN bank'[b] = DOMAIN NoAngle /\ bank'[b].uses \in Nat
                         /\ bank'[b].score \in Int /\ bank'[b].valid \in BOOLEAN
  BY <1>2, <1>3, <1>4 DEF RotateInv
<1> HIDE DEF u, s
<1> QED BY <1>2, <1>4, <1>8, <1>9, <1>10 DEF RotateInv

\* A batch comes into the bank unused and with its raw scores.
LEMMA FillKeepsRotation ==
  ASSUME NEW cap, Ceiling(cap), RotateInv(cap), FillBank PROVE RotateInv(cap)'
<1>1. PICK rated \in Batches : \E top \in TopOf(rated) :
        bank' = [a \in Angles |-> IF a \in top THEN Upserted(a, rated[a]) ELSE bank[a]]
  BY DEF FillBank
<1>2. PICK top \in TopOf(rated) :
        bank' = [a \in Angles |-> IF a \in top THEN Upserted(a, rated[a]) ELSE bank[a]]
  BY <1>1
<1>3. perf' = perf /\ \A a \in Angles : rated[a] \in RawScores
  BY DEF FillBank, Batches
<1>4. ASSUME NEW a \in Angles, a \in top
      PROVE  /\ DOMAIN bank'[a] = DOMAIN NoAngle /\ bank'[a].uses = 0 /\ bank'[a].score = rated[a]
             /\ bank'[a].valid = bank[a].valid
  BY <1>2, <1>4 DEF Upserted, NoAngle
<1>5. ASSUME NEW a \in Angles, a \notin top PROVE bank'[a] = bank[a]
  BY <1>2, <1>5
<1>6. \A r \in RawScores : r \in Int /\ r <= cap[0]
  BY DEF Ceiling
<1>7. ASSUME NEW a \in Angles
      PROVE  DOMAIN bank'[a] = DOMAIN NoAngle /\ bank'[a].uses \in Nat /\ bank'[a].score \in Int
             /\ bank'[a].valid \in BOOLEAN
  <2>1. CASE a \in top
    <3>1. bank[a].valid \in BOOLEAN
      BY DEF RotateInv
    <3> QED BY <1>3, <1>4, <1>6, <2>1, <3>1
  <2>2. CASE a \notin top
    BY <1>5, <2>2 DEF RotateInv
  <2> QED BY <2>1, <2>2
<1>8. ASSUME NEW a \in Angles, Plain(a)'
      PROVE  /\ bank'[a].uses <= Hard => bank'[a].score <= cap[bank'[a].uses]
             /\ bank'[a].uses > Hard => bank'[a].score <= cap[Hard]
             /\ bank'[a].uses = 0 => bank'[a].score \in RawScores
  <2>1. CASE a \in top
    <3>1. bank'[a].uses = 0 /\ bank'[a].score = rated[a] /\ rated[a] \in RawScores /\ Hard \in Nat
      BY <1>3, <1>4, <2>1 DEF Ceiling
    <3> QED BY <1>6, <3>1
  <2>2. CASE a \notin top
    <3>1. bank'[a] = bank[a] /\ Plain(a)
      BY <1>3, <1>5, <1>8, <2>2 DEF Plain
    <3> QED BY <3>1 DEF RotateInv
  <2> QED BY <2>1, <2>2
<1>9. DOMAIN bank' = Angles
  BY <1>2
<1> QED BY <1>3, <1>7, <1>8, <1>9 DEF RotateInv

\* Tests, early signals and reports.
LEMMA LearningKeepsRotation ==
  ASSUME NEW cap, Ceiling(cap), RotateInv(cap), NEW a \in Angles,
         \/ \E passed \in BOOLEAN : MicroTest(a, passed)
         \/ \E score \in {0, 60} : EarlySignals(a, score)
         \/ \E won, high \in BOOLEAN : RecordPerformance(a, won, high)
  PROVE  RotateInv(cap)'
<1>0. /\ DOMAIN bank[a] = DOMAIN NoAngle /\ bank[a].score \in Int /\ bank[a].valid \in BOOLEAN
      /\ perf[a].n \in Nat /\ DOMAIN bank = Angles /\ DOMAIN perf = Angles /\ bank[a].uses \in Nat
  BY DEF RotateInv
<1>1. ASSUME NEW passed \in BOOLEAN, MicroTest(a, passed) PROVE RotateInv(cap)'
  <2>1. perf' = perf
    BY <1>1 DEF MicroTest
  <2>2. CASE bank' = [bank EXCEPT ![a].valid = TRUE, ![a].life = "validated"]
    <3> DEFINE r == [bank[a] EXCEPT !.valid = TRUE, !.life = "validated"]
    <3>1. bank' = [bank EXCEPT ![a] = r]
      BY <2>2
    <3>2. /\ DOMAIN r = DOMAIN NoAngle /\ r.uses = bank[a].uses /\ r.score = bank[a].score
          /\ r.valid = TRUE /\ r.there = bank[a].there
      BY <1>0 DEF NoAngle
    <3> HIDE DEF r
    <3> QED BY <1>0, <2>1, <3>1, <3>2, OneIsKnown
  <2>3. CASE bank' = bank
    BY <2>1, <2>3 DEF RotateInv, Plain
  <2> QED BY <1>1, <2>2, <2>3 DEF MicroTest
<1>2. ASSUME NEW score \in {0, 60}, EarlySignals(a, score) PROVE RotateInv(cap)'
  <2> DEFINE r == [bank[a] EXCEPT !.early = score]
  <2>1. perf' = perf /\ bank' = [bank EXCEPT ![a] = r]
    BY <1>2 DEF EarlySignals
  <2>2. /\ DOMAIN r = DOMAIN NoAngle /\ r.uses = bank[a].uses /\ r.score = bank[a].score
        /\ r.valid = bank[a].valid /\ r.there = bank[a].there
    BY <1>0 DEF NoAngle
  <2> HIDE DEF r
  <2> QED BY <1>0, <2>1, <2>2, OneIsKnown
<1>3. ASSUME NEW won \in BOOLEAN, NEW high \in BOOLEAN, RecordPerformance(a, won, high) PROVE RotateInv(cap)'
  <2> DEFINE p == ReportRow(perf[a], won, high)
             amp == Amplified(p, bank[a].amp, won, high)
             dom == Dominance(p)
             life == LifeAfter(bank[a].life, p)
             worth == ScoreAfter(bank[a].score, p)
             r == [bank[a] EXCEPT !.dom = dom, !.amp = amp, !.life = life, !.score = worth]
  <2>1. p.n = perf[a].n + 1
    BY DEF ReportRow
  <2>2. perf' = [perf EXCEPT ![a] = p]
    BY <1>3 DEF RecordPerformance
  <2>3. bank' = [bank EXCEPT ![a] = r]
    BY <1>3 DEF RecordPerformance
  <2>4. worth \in Int
    <3>1. bank[a].score + 50 \in Int /\ bank[a].score - 50 \in Int /\ 1000 \in Int /\ 0 \in Int
      BY <1>0
    <3> DEFINE more == bank[a].score + 50
               less == bank[a].score - 50
    <3>2. Min({1000, more}) \in Int /\ Max({0, less}) \in Int
      <4>1. more \in Int /\ less \in Int /\ 1000 \in Int /\ 0 \in Int
        BY <3>1
      <4> HIDE DEF more, less
      <4>2. Min({1000, more}) \in {1000, more}
        <5> DEFINE top == 1000
        <5>1. top \in Int
          OBVIOUS
        <5> HIDE DEF top
        <5>2. Min({top, more}) \in {top, more}
          BY <4>1, <5>1, OfTwo
        <5> QED BY <5>2 DEF top
      <4>3. Max({0, less}) \in {0, less}
        BY <4>1, OfTwo, Zenon
      <4> QED BY <4>1, <4>2, <4>3
    <3> HIDE DEF p
    <3> QED BY <1>0, <3>2 DEF ScoreAfter
  <2> HIDE DEF p, amp, dom, life, worth
  <2>5. /\ DOMAIN r = DOMAIN NoAngle /\ r.uses = bank[a].uses /\ r.score = worth
        /\ r.valid = bank[a].valid /\ r.there = bank[a].there
    BY <1>0 DEF NoAngle
  <2>6. DOMAIN perf' = Angles /\ \A b \in Angles : perf'[b].n = IF b = a THEN p.n ELSE perf[b].n
    BY <1>0, <2>2
  <2>7. p.n \in Nat /\ p.n > 0
    BY <1>0, <2>1
  <2> HIDE DEF r
  <2> QED BY <1>0, <2>3, <2>4, <2>5, <2>6, <2>7, OneIsKnown
<1> QED BY <1>1, <1>2, <1>3

LEMMA RotationStep ==
  ASSUME NEW cap, Ceiling(cap), RotateInv(cap), AngleNext \/ UNCHANGED angleVars PROVE RotateInv(cap)'
<1>1. ASSUME UNCHANGED <<bank, perf>> PROVE RotateInv(cap)'
  BY <1>1 DEF RotateInv, Plain
<1>2. CASE AnglesForgotten
  BY <1>1, <1>2 DEF AnglesForgotten
<1>3. CASE UNCHANGED angleVars
  BY <1>1, <1>3 DEF angleVars
<1> QED
  BY <1>2, <1>3, UseKeepsRotation, FillKeepsRotation, LearningKeepsRotation DEF AngleNext, AngleIsLearnt

\* Nothing but a use adds to the uses.
LEMMA OthersSpareUses ==
  ASSUME NEW cap, RotateInv(cap), FillBank \/ AngleIsLearnt \/ AnglesForgotten \/ UNCHANGED angleVars,
         NEW a \in Angles
  PROVE  ~(bank'[a].uses > bank[a].uses)
<1>1. bank[a].uses \in Nat /\ DOMAIN bank = Angles /\ \A b \in Angles : DOMAIN bank[b] = DOMAIN NoAngle
  BY DEF RotateInv
<1>2. ASSUME bank'[a].uses \in {0, bank[a].uses} PROVE ~(bank'[a].uses > bank[a].uses)
  BY <1>1, <1>2
<1>3. CASE FillBank
  <2>1. PICK rated, top : bank' = [b \in Angles |-> IF b \in top THEN Upserted(b, rated[b]) ELSE bank[b]]
    BY <1>3 DEF FillBank
  <2> QED BY <1>2, <2>1 DEF Upserted, NoAngle
<1>4. CASE UNCHANGED bank
  BY <1>2, <1>4
<1>5. CASE \E b \in Angles, passed \in BOOLEAN : MicroTest(b, passed)
  <2>1. PICK b \in Angles : bank' = bank \/ bank' = [bank EXCEPT ![b].valid = TRUE, ![b].life = "validated"]
    <3>1. PICK b \in Angles, passed \in BOOLEAN : MicroTest(b, passed)
      BY <1>5
    <3> QED BY <3>1 DEF MicroTest
  <2>2. bank[b].uses \in Nat /\ DOMAIN bank[b] = DOMAIN NoAngle
    BY <1>1, <2>1 DEF RotateInv
  <2>3. bank'[a].uses = bank[a].uses
    BY <1>1, <2>1, <2>2 DEF NoAngle
  <2> QED BY <1>2, <2>3
<1>6. CASE \E b \in Angles, score \in {0, 60} : EarlySignals(b, score)
  <2>1. PICK b \in Angles, score \in {0, 60} : bank' = [bank EXCEPT ![b].early = score]
    BY <1>6 DEF EarlySignals
  <2>2. bank[b].uses \in Nat /\ DOMAIN bank[b] = DOMAIN NoAngle
    BY <1>1, <2>1 DEF RotateInv
  <2>3. bank'[a].uses = bank[a].uses
    BY <1>1, <2>1, <2>2 DEF NoAngle
  <2> QED BY <1>2, <2>3
<1>7. CASE \E b \in Angles : \E won, high \in BOOLEAN : RecordPerformance(b, won, high)
  <2>1. PICK b \in Angles : \E won, high \in BOOLEAN : RecordPerformance(b, won, high)
    BY <1>7
  <2>2. PICK dom, amp, life, worth :
          bank' = [bank EXCEPT ![b].dom = dom, ![b].amp = amp, ![b].life = life, ![b].score = worth]
    <3>1. PICK won \in BOOLEAN, high \in BOOLEAN : RecordPerformance(b, won, high)
      BY <2>1
    <3> DEFINE p == ReportRow(perf[b], won, high)
               amp == Amplified(p, bank[b].amp, won, high)
               dom == Dominance(p)
               life == LifeAfter(bank[b].life, p)
               worth == ScoreAfter(bank[b].score, p)
    <3>2. bank' = [bank EXCEPT ![b].dom = dom, ![b].amp = amp, ![b].life = life, ![b].score = worth]
      BY <3>1 DEF RecordPerformance
    <3> HIDE DEF p, amp, dom, life, worth
    <3> QED BY <3>2, Zenon
  <2>3. bank[b].uses \in Nat /\ DOMAIN bank[b] = DOMAIN NoAngle
    BY <1>1, <2>1 DEF RotateInv
  <2>4. bank'[a].uses = bank[a].uses
    BY <1>1, <2>2, <2>3 DEF NoAngle
  <2> QED BY <1>2, <2>4
<1> QED BY <1>3, <1>4, <1>5, <1>6, <1>7 DEF AngleIsLearnt, AnglesForgotten, angleVars

LEMMA RotationStart == ASSUME NEW cap, Ceiling(cap), AngleInit PROVE RotateInv(cap)
<1>1. \A a \in Angles : bank[a] = NoAngle /\ perf[a] = NoReports
  BY DEF AngleInit
<1>2. \A a \in Angles : ~Plain(a)
  BY <1>1 DEF Plain, NoAngle
<1>3. DOMAIN bank = Angles /\ DOMAIN perf = Angles
  BY DEF AngleInit
<1>5. NoAngle.uses \in Nat /\ NoAngle.score \in Int /\ NoReports.n \in Nat
  BY DEF NoAngle, NoReports
<1>6. NoAngle.valid \in BOOLEAN
  <2>1. NoAngle.valid = FALSE
    BY DEF NoAngle
  <2> QED BY <2>1, Zenon
<1> QED BY <1>1, <1>2, <1>3, <1>5, <1>6 DEF RotateInv

\* Whatever limits and raw scores there are, as long as a ceiling exists: the
\* penalties of the uses up to the hard limit take the best score under the
\* worst, so that a fresh angle, generated at first or anew, is picked before the
\* limit is passed.
THEOREM OveruseMeansNoneIsFresh ==
  ASSUME NEW cap, Ceiling(cap) PROVE AngleSpec => AnglesRotate
<1>1. AngleInit => RotateInv(cap)
  BY RotationStart
<1>2. RotateInv(cap) /\ [AngleNext]_angleVars => RotateInv(cap)'
  BY RotationStep
<1>3. RotateInv(cap) /\ [AngleNext]_angleVars => [FreshAreUsedFirst]_angleVars
  <2> SUFFICES ASSUME RotateInv(cap), AngleNext PROVE FreshAreUsedFirst
    OBVIOUS
  <2>1. CASE Enrich
    BY <2>1, UseKeepsRotation
  <2>2. CASE FillBank \/ AngleIsLearnt \/ AnglesForgotten
    <3>1. \A a \in Angles : ~(bank'[a].uses > bank[a].uses)
      BY <2>2, OthersSpareUses
    <3> QED BY <3>1 DEF FreshAreUsedFirst, InBank
  <2> QED BY <2>1, <2>2 DEF AngleNext
<1> QED BY <1>1, <1>2, <1>3, PTL DEF AngleSpec, AnglesRotate

\* With the limits of the code, 5 and 10 uses, the scores of one batch need only
\* lie between .4 and 1 (_raw_angle_score's are some .5 to .97).
THEOREM AnglesRotateInCode ==
  ASSUME Soft = 5, Hard = 10, RawScores \subseteq 400..1000 PROVE AngleSpec => AnglesRotate
<1> DEFINE cap == [u \in 0..10 |-> CASE u <= 5 -> 1000 [] u = 6 -> 800 [] u = 7 -> 640
                                     [] u = 8 -> 512 [] u = 9 -> 409 [] OTHER -> 327]
<1>1. /\ cap[0] = 1000 /\ cap[1] = 1000 /\ cap[2] = 1000 /\ cap[3] = 1000 /\ cap[4] = 1000 /\ cap[5] = 1000
      /\ cap[6] = 800 /\ cap[7] = 640 /\ cap[8] = 512 /\ cap[9] = 409 /\ cap[10] = 327
  OBVIOUS
<1>2. cap \in [0..10 -> Int]
  OBVIOUS
<1> HIDE DEF cap
<1>3. ASSUME NEW u \in 1..10, NEW s \in Int, s <= cap[u - 1] PROVE Penalised(s, u) <= cap[u]
  <2>1. CASE u \in 1..5
    <3>1. u \in {1, 2, 3, 4, 5}
      BY <2>1
    <3>2. cap[u - 1] = 1000 /\ cap[u] = 1000
      BY <1>1, <3>1
    <3>3. Penalised(s, u) = s
      BY <2>1 DEF Penalised
    <3> QED BY <1>3, <3>2, <3>3
  <2>2. CASE u \in 6..10
    <3>1. Penalised(s, u) = (s * 8) \div 10
      BY <2>2 DEF Penalised
    <3>2. u \in {6, 7, 8, 9, 10}
      BY <2>2
    <3>3. u = 6 => (s * 8) \div 10 <= 800
      BY <1>1, <1>3
    <3>4. u = 7 => (s * 8) \div 10 <= 640
      BY <1>1, <1>3
    <3>5. u = 8 => (s * 8) \div 10 <= 512
      BY <1>1, <1>3
    <3>6. u = 9 => (s * 8) \div 10 <= 409
      BY <1>1, <1>3
    <3>7. u = 10 => (s * 8) \div 10 <= 327
      BY <1>1, <1>3
    <3> QED BY <1>1, <3>1, <3>2, <3>3, <3>4, <3>5, <3>6, <3>7
  <2> QED BY <2>1, <2>2
<1>4. Ceiling(cap)
  <2>1. \A r \in RawScores : r \in Int /\ r <= cap[0] /\ cap[10] < r
    BY <1>1
  <2> QED BY <1>1, <1>2, <1>3, <2>1 DEF Ceiling
<1> QED BY <1>4, OveruseMeansNoneIsFresh

-----------------------------------------------------------------------------
(* Attribution: the credit of a content follows its sales                  *)

LedgerSpec == LedgerInit /\ [][LedgerNext]_ledgerVars

Credits == [DOMAIN NoCredit -> Int]
Sales == [content : Contents, worth : Worths, attributed : BOOLEAN]
Flushes == [step : {"idle", "write", "mark"}, ids : SUBSET Nat,
            acc : UNION {[D -> Credits] : D \in SUBSET Contents}]

Amount(r) == r.last + r.assist
Worth == [i \in DOMAIN sales |-> sales[i].worth]
Of(ids, c) == {i \in ids : sales[i].content = c}
Marked == {i \in DOMAIN sales : sales[i].attributed}

\* The sales whose credit for c some flush has written, or has yet to write.
Written(c) == UNION {flush[w].ids : w \in {v \in Ledgers : c \notin DOMAIN flush[v].acc}}
Unwritten(c) == UNION {flush[w].ids : w \in {v \in Ledgers : c \in DOMAIN flush[v].acc}}

LedgerTypes ==
  /\ sales \in Seq(Sales)
  /\ touches \in [Contents -> 0..MaxTouches]
  /\ seen \in [Ledgers -> [Contents -> (0..MaxTouches) \cup {NotCached}]]
  /\ credit \in [Contents -> Credits] /\ lost \in [Contents -> Int]
  /\ again \in BOOLEAN /\ taken \subseteq DOMAIN sales
  /\ flush \in [Ledgers -> Flushes]
  /\ \A w \in Ledgers : /\ flush[w].ids \subseteq taken
                        /\ flush[w].step # "write" => DOMAIN flush[w].acc = {}

\* What a flush holds for a content is the worth of the content's sales in it;
\* what is credited covers the sales that are marked or written, and, as long
\* as no sale was taken twice, no sale that is yet to be written.
Held == \A w \in Ledgers : \A c \in DOMAIN flush[w].acc : Amount(flush[w].acc[c]) = WorthOf(flush[w].ids, c)
Covering == \A c \in Contents : WorthOf(Marked \cup Written(c), c) <= RevenueOf(c) + lost[c]
Apart == ~again => \A v, w \in Ledgers : v # w => flush[v].ids \cap flush[w].ids = {}
Covered == ~again => \A c \in Contents : RevenueOf(c) + lost[c] <= WorthOf(taken \ Unwritten(c), c)
CreditInv == LedgerTypes /\ Held /\ Covering /\ Apart /\ Covered

LEMMA SumOfIs == ASSUME NEW f, NEW S PROVE SumOf(f, S) = SumOver(f, S)
BY DEF SumOf, SumOver

LEMMA SalesAre ==
  ASSUME sales \in Seq(Sales)
  PROVE  /\ DOMAIN sales = 1..Len(sales) /\ Len(sales) \in Nat /\ IsFiniteSet(DOMAIN sales)
         /\ \A i \in DOMAIN sales : sales[i] \in Sales /\ Worth[i] = sales[i].worth
                                    /\ Worth[i] \in Int /\ Worth[i] >= 0
<1>1. DOMAIN sales = 1..Len(sales) /\ Len(sales) \in Nat
  OBVIOUS
<1>2. IsFiniteSet(1..Len(sales))
  <2>1. 1 \in Int /\ Len(sales) \in Int
    BY <1>1
  <2> QED BY <2>1, FS_Interval
<1>3. ASSUME NEW i \in DOMAIN sales
      PROVE  sales[i] \in Sales /\ Worth[i] = sales[i].worth /\ Worth[i] \in Int /\ Worth[i] >= 0
  <2>1. sales[i] \in Sales
    OBVIOUS
  <2>2. sales[i].worth \in Worths
    BY <2>1 DEF Sales
  <2>3. Worth[i] = sales[i].worth
    BY DEF Worth
  <2>4. Worths \subseteq Nat
    BY LedgerAssumption, Zenon
  <2>5. sales[i].worth \in Nat
    BY <2>2, <2>4
  <2>6. Worth[i] \in Nat
    BY <2>3, <2>5, Zenon
  <2>7. \A n \in Nat : n \in Int /\ n >= 0
    OBVIOUS
  <2> QED BY <2>1, <2>3, <2>6, <2>7, Zenon
<1> HIDE DEF Worth, Sales
<1> QED BY <1>1, <1>2, <1>3

\* The worth of sets of sales.
LEMMA WorthIs ==
  ASSUME sales \in Seq(Sales), NEW c
  PROVE  /\ \A S \in SUBSET DOMAIN sales : WorthOf(S, c) \in Nat
         /\ \A S, T \in SUBSET DOMAIN sales : S \subseteq T => WorthOf(S, c) <= WorthOf(T, c)
         /\ \A S, T \in SUBSET DOMAIN sales : WorthOf(S \cup T, c) <= WorthOf(S, c) + WorthOf(T, c)
         /\ \A S, T \in SUBSET DOMAIN sales : S \cap T = {} =>
              WorthOf(S \cup T, c) = WorthOf(S, c) + WorthOf(T, c)
<1>1. /\ IsFiniteSet(DOMAIN sales)
      /\ \A i \in DOMAIN sales : Worth[i] \in Int /\ Worth[i] >= 0
  BY SalesAre
<1>2. \A S : WorthOf(S, c) = SumOver(Worth, Of(S, c))
  BY SumOfIs DEF WorthOf, Worth, Of
<1>3. \A S \in SUBSET DOMAIN sales : IsFiniteSet(Of(S, c)) /\ Of(S, c) \subseteq DOMAIN sales
  <2>1. \A S \in SUBSET DOMAIN sales : Of(S, c) \subseteq DOMAIN sales
    BY DEF Of
  <2> QED BY <1>1, <2>1, FS_Subset
<1>4. ASSUME NEW S \in SUBSET DOMAIN sales PROVE WorthOf(S, c) \in Nat
  BY <1>1, <1>2, <1>3, SumIsNat
<1>5. ASSUME NEW S \in SUBSET DOMAIN sales, NEW T \in SUBSET DOMAIN sales, S \subseteq T
      PROVE  WorthOf(S, c) <= WorthOf(T, c)
  <2>1. Of(S, c) \subseteq Of(T, c)
    BY <1>5 DEF Of
  <2> QED BY <1>1, <1>2, <1>3, <2>1, SumGrows
<1>6. ASSUME NEW S \in SUBSET DOMAIN sales, NEW T \in SUBSET DOMAIN sales
      PROVE  /\ WorthOf(S \cup T, c) <= WorthOf(S, c) + WorthOf(T, c)
             /\ S \cap T = {} => WorthOf(S \cup T, c) = WorthOf(S, c) + WorthOf(T, c)
  <2>1. Of(S \cup T, c) = Of(S, c) \cup Of(T, c)
    BY DEF Of
  <2>2. S \cap T = {} => Of(S, c) \cap Of(T, c) = {}
    BY DEF Of
  <2>3. SumOver(Worth, Of(S, c) \cup Of(T, c)) <= SumOver(Worth, Of(S, c)) + SumOver(Worth, Of(T, c))
    BY <1>1, <1>3, SumCovers
  <2>4. S \cap T = {} =>
          SumOver(Worth, Of(S, c) \cup Of(T, c)) = SumOver(Worth, Of(S, c)) + SumOver(Worth, Of(T, c))
    BY <1>1, <1>3, <2>2, SumUnion
  <2>5. /\ WorthOf(S, c) = SumOver(Worth, Of(S, c)) /\ WorthOf(T, c) = SumOver(Worth, Of(T, c))
        /\ WorthOf(S \cup T, c) = SumOver(Worth, Of(S, c) \cup Of(T, c))
    BY <1>2, <2>1
  <2> HIDE DEF Worth
  <2> QED BY <2>3, <2>4, <2>5
<1> QED BY <1>4, <1>5, <1>6

\* The worth of a set of sales is the same after what leaves their contents and
\* worths alone.
LEMMA WorthStays ==
  ASSUME sales \in Seq(Sales), sales' \in Seq(Sales), NEW c, NEW S \in SUBSET DOMAIN sales,
         DOMAIN sales \subseteq DOMAIN sales',
         \A i \in DOMAIN sales : sales'[i].content = sales[i].content /\ sales'[i].worth = sales[i].worth
  PROVE  WorthOf(S, c)' = WorthOf(S, c)
<1>1. {i \in S : sales'[i].content = c} = Of(S, c)
  BY DEF Of
<1>2. \A i \in Of(S, c) : Worth'[i] = Worth[i] /\ Worth[i] \in Int /\ Worth'[i] \in Int
  BY SalesAre DEF Of, Worth
<1>3. IsFiniteSet(Of(S, c))
  <2>1. Of(S, c) \subseteq DOMAIN sales
    BY DEF Of
  <2> QED BY <2>1, SalesAre, FS_Subset
<1>4. SumOver(Worth', Of(S, c)) = SumOver(Worth, Of(S, c))
  BY <1>2, <1>3, SumSame
<1>5. WorthOf(S, c)' = SumOver(Worth', {i \in S : sales'[i].content = c})
  BY SumOfIs DEF WorthOf, Worth
<1>6. WorthOf(S, c) = SumOver(Worth, Of(S, c))
  BY SumOfIs DEF WorthOf, Worth, Of
<1> QED BY <1>1, <1>4, <1>5, <1>6

\* The unions of the flushes' sales are sets of sales that were taken.
LEMMA UnionsAreTaken ==
  ASSUME LedgerTypes, NEW c
  PROVE  /\ Written(c) \subseteq taken /\ Unwritten(c) \subseteq taken
         /\ Marked \subseteq DOMAIN sales /\ taken \subseteq DOMAIN sales
BY DEF LedgerTypes, Written, Unwritten, Marked

LEMMA CreditIsRead == ASSUME CreditInv PROVE CreditMatchesSales
<1>1. sales \in Seq(Sales)
  BY DEF CreditInv, LedgerTypes
<1>2. ASSUME NEW c \in Contents
      PROVE  /\ RevenueOf(c) + lost[c] >= WorthOf(Marked, c)
             /\ ~again => RevenueOf(c) + lost[c] <= WorthOf(taken, c)
  <2>1. /\ Written(c) \subseteq taken /\ Unwritten(c) \subseteq taken
        /\ Marked \subseteq DOMAIN sales /\ taken \subseteq DOMAIN sales
    BY UnionsAreTaken DEF CreditInv
  <2>2. WorthOf(Marked, c) <= WorthOf(Marked \cup Written(c), c)
    BY <1>1, <2>1, WorthIs
  <2>3. WorthOf(taken \ Unwritten(c), c) <= WorthOf(taken, c)
    BY <1>1, <2>1, WorthIs
  <2>4. /\ WorthOf(Marked, c) \in Int /\ WorthOf(Marked \cup Written(c), c) \in Int
        /\ WorthOf(taken, c) \in Int /\ WorthOf(taken \ Unwritten(c), c) \in Int
    <3>1. taken \ Unwritten(c) \in SUBSET DOMAIN sales /\ Marked \cup Written(c) \in SUBSET DOMAIN sales
      BY <2>1
    <3>2. \A S \in SUBSET DOMAIN sales : WorthOf(S, c) \in Nat
      BY <1>1, WorthIs, Zenon
    <3> QED BY <2>1, <3>1, <3>2
  <2>5. RevenueOf(c) \in Int /\ lost[c] \in Int
    BY <1>2 DEF CreditInv, LedgerTypes, RevenueOf, Credits, NoCredit
  <2> QED BY <2>2, <2>3, <2>4, <2>5 DEF CreditInv, Covering, Covered
<1> QED BY <1>2 DEF CreditMatchesSales, Marked

LEMMA CreditStarts == ASSUME LedgerInit PROVE CreditInv
<1>1. NoFlush \in Flushes /\ NoFlush.ids = {} /\ DOMAIN NoFlush.acc = {}
  <2>1. DOMAIN <<>> = {} /\ <<>> \in [{} -> Credits]
    OBVIOUS
  <2>2. <<>> \in UNION {[D -> Credits] : D \in SUBSET Contents}
    BY <2>1
  <2> QED BY <2>1, <2>2 DEF NoFlush, Flushes
<1>2. NoCredit \in Credits /\ NoCredit.last = 0 /\ NoCredit.assist = 0
  BY DEF NoCredit, Credits
<1>3. LedgerTypes
  <2>1. sales = <<>> /\ sales \in Seq(Sales) /\ taken \subseteq DOMAIN sales
    BY DEF LedgerInit
  <2>2. touches \in [Contents -> 0..MaxTouches]
    BY LedgerAssumption DEF LedgerInit
  <2>3. seen \in [Ledgers -> [Contents -> (0..MaxTouches) \cup {NotCached}]]
    BY DEF LedgerInit
  <2>4. credit \in [Contents -> Credits] /\ lost \in [Contents -> Int] /\ again \in BOOLEAN
    <3>1. credit = [c \in Contents |-> NoCredit] /\ NoCredit \in Credits
      BY <1>2 DEF LedgerInit
    <3>2. lost \in [Contents -> Int]
      BY DEF LedgerInit
    <3>3. again \in BOOLEAN
      BY Zenon DEF LedgerInit
    <3>4. credit \in [Contents -> Credits]
      BY <3>1, Zenon
    <3> QED BY <3>2, <3>3, <3>4
  <2>5. flush \in [Ledgers -> Flushes] /\ \A w \in Ledgers : flush[w] = NoFlush
    BY <1>1 DEF LedgerInit
  <2>6. \A w \in Ledgers : flush[w].ids \subseteq taken /\ DOMAIN flush[w].acc = {}
    BY <1>1, <2>5
  <2> QED BY <2>1, <2>2, <2>3, <2>4, <2>5, <2>6 DEF LedgerTypes
<1>4. \A c : Written(c) = {} /\ Unwritten(c) = {}
  BY <1>1 DEF LedgerInit, Written, Unwritten
<1>5. Marked = {} /\ taken = {}
  BY DEF LedgerInit, Marked
<1>6. \A c \in Contents : WorthOf({}, c) = 0
  <2>1. ASSUME NEW c \in Contents PROVE WorthOf({}, c) = 0
    <3>1. WorthOf({}, c) = SumOver(Worth, Of({}, c)) /\ Of({}, c) = {}
      BY SumOfIs DEF WorthOf, Worth, Of
    <3>2. SumOver(Worth, {}) = 0
      BY SumType, FS_EmptySet
    <3> QED BY <3>1, <3>2
  <2> QED BY <2>1
<1>7. \A c \in Contents : RevenueOf(c) = 0 /\ lost[c] = 0
  BY <1>2 DEF LedgerInit, RevenueOf
<1>8. \A c \in Contents : {} \cup {} = {} /\ {} \ {} = {}
  OBVIOUS
<1>9. \A w \in Ledgers : flush[w] = NoFlush
  BY DEF LedgerInit
<1> QED BY <1>1, <1>3, <1>4, <1>5, <1>6, <1>7, <1>9 DEF CreditInv, Held, Covering, Apart, Covered

LEMMA WorthIsSame == ASSUME UNCHANGED sales PROVE \A S, c : WorthOf(S, c)' = WorthOf(S, c)
<1>1. ASSUME NEW S, NEW c PROVE WorthOf(S, c)' = WorthOf(S, c)
  <2>1. [i \in DOMAIN sales' |-> sales'[i].worth] = Worth /\ sales' = sales
    BY DEF Worth
  <2>2. {i \in S : sales'[i].content = c} = Of(S, c)
    BY DEF Of
  <2>3. WorthOf(S, c)' = SumOf(Worth, Of(S, c))
    BY <2>1, <2>2, Zenon DEF WorthOf
  <2>4. WorthOf(S, c) = SumOf(Worth, Of(S, c))
    BY DEF WorthOf, Worth, Of
  <2> QED BY <2>3, <2>4
<1> QED BY <1>1

\* The books do not matter, and neither do the clicks and the caches.
LEMMA BooksDontMatter ==
  ASSUME CreditInv, LedgerTypes', UNCHANGED <<sales, credit, flush, taken, again, lost>>
  PROVE  CreditInv'
<1>1. \A S, c : WorthOf(S, c)' = WorthOf(S, c)
  BY WorthIsSame
<1>2. \A c : Written(c)' = Written(c) /\ Unwritten(c)' = Unwritten(c) /\ RevenueOf(c)' = RevenueOf(c)
  BY DEF Written, Unwritten, RevenueOf
<1>3. Marked' = Marked
  BY DEF Marked
<1> QED BY <1>1, <1>2, <1>3, Zenon DEF CreditInv, Held, Covering, Apart, Covered, Amount

\* Both bounds of the credit survive what adds no credit, marks or writes no
\* more sales, and takes no sale back from those that may have been credited.
LEMMA BoundsMove ==
  ASSUME CreditInv, LedgerTypes', DOMAIN sales' = DOMAIN sales,
         \A c : \A S \in SUBSET DOMAIN sales : WorthOf(S, c)' = WorthOf(S, c),
         \A c \in Contents : RevenueOf(c)' = RevenueOf(c) /\ lost'[c] = lost[c],
         \A c \in Contents : Of((Marked \cup Written(c))', c) \subseteq Of(Marked \cup Written(c), c),
         ~again' => ~again /\ \A c \in Contents : taken \ Unwritten(c) \subseteq taken' \ Unwritten(c)'
  PROVE  Covering' /\ Covered'
<1>1. sales \in Seq(Sales) /\ LedgerTypes
  BY DEF CreditInv, LedgerTypes
<1>2. \A c : \A S \in SUBSET DOMAIN sales : WorthOf(S, c)' = WorthOf(S, c)
  OBVIOUS
<1>3. ASSUME NEW c \in Contents
      PROVE  /\ RevenueOf(c) + lost[c] \in Int
             /\ Marked \cup Written(c) \in SUBSET DOMAIN sales /\ (Marked \cup Written(c))' \in SUBSET DOMAIN sales
             /\ taken \ Unwritten(c) \in SUBSET DOMAIN sales /\ (taken \ Unwritten(c))' \in SUBSET DOMAIN sales
  <2>1. RevenueOf(c) \in Int /\ lost[c] \in Int
    BY <1>1 DEF LedgerTypes, RevenueOf, Credits, NoCredit
  <2>2. Marked \cup Written(c) \in SUBSET DOMAIN sales /\ taken \ Unwritten(c) \in SUBSET DOMAIN sales
    BY <1>1, UnionsAreTaken
  <2>3. Written(c)' \subseteq taken' /\ taken' \subseteq DOMAIN sales' /\ Marked' \subseteq DOMAIN sales'
    BY DEF LedgerTypes, Written, Marked
  <2>4. (Marked \cup Written(c))' \in SUBSET DOMAIN sales /\ (taken \ Unwritten(c))' \in SUBSET DOMAIN sales
    BY <2>3
  <2> QED BY <2>1, <2>2, <2>4
<1>4. ASSUME NEW c \in Contents
      PROVE  WorthOf(Marked \cup Written(c), c)' <= RevenueOf(c)' + lost'[c]
  <2> DEFINE S == Marked \cup Written(c)
             T == (Marked \cup Written(c))'
  <2>1. WorthOf(Of(T, c), c) <= WorthOf(Of(S, c), c)
    <3>1. Of(T, c) \in SUBSET DOMAIN sales /\ Of(S, c) \in SUBSET DOMAIN sales
      BY <1>3 DEF Of
    <3> QED BY <1>1, <3>1, WorthIs
  <2>2. WorthOf(Of(T, c), c) = WorthOf(T, c) /\ WorthOf(Of(S, c), c) = WorthOf(S, c)
    <3>1. \A X : Of(Of(X, c), c) = Of(X, c)
      BY DEF Of
    <3>2. \A X : WorthOf(X, c) = SumOf(Worth, Of(X, c))
      BY DEF WorthOf, Worth, Of
    <3> QED BY <3>1, <3>2
  <2>3. WorthOf(S, c) <= RevenueOf(c) + lost[c]
    BY DEF CreditInv, Covering
  <2>4. WorthOf(S, c) \in Nat /\ WorthOf(T, c) \in Nat
    BY <1>1, <1>3, WorthIs
  <2>5. WorthOf(T, c) <= RevenueOf(c)' + lost'[c]
    BY <1>3, <2>1, <2>2, <2>3, <2>4
  <2>6. WorthOf(Marked \cup Written(c), c)' = WorthOf(T, c)
    BY <1>2, <1>3, Zenon
  <2> QED BY <2>5, <2>6
<1>5. ASSUME NEW c \in Contents, ~again'
      PROVE  RevenueOf(c)' + lost'[c] <= WorthOf(taken \ Unwritten(c), c)'
  <2> DEFINE S == taken \ Unwritten(c)
             T == (taken \ Unwritten(c))'
  <2>1. WorthOf(S, c) <= WorthOf(T, c) /\ WorthOf(S, c) \in Nat /\ WorthOf(T, c) \in Nat
    <3>1. S \subseteq T
      BY <1>5
    <3> QED BY <1>1, <1>3, <3>1, WorthIs
  <2>2. RevenueOf(c) + lost[c] <= WorthOf(S, c)
    BY <1>5 DEF CreditInv, Covered
  <2>3. RevenueOf(c)' + lost'[c] <= WorthOf(T, c)
    BY <1>3, <2>1, <2>2
  <2>4. WorthOf(taken \ Unwritten(c), c)' = WorthOf(T, c)
    BY <1>2, <1>3, Zenon
  <2> QED BY <2>3, <2>4
<1> QED BY <1>4, <1>5 DEF Covering, Covered

LEMMA ClickKeepsCredit ==
  ASSUME CreditInv, NEW c \in Contents, RecordClick(c)
  PROVE  CreditInv'
<1> DEFINE t == CodeOf(c)
<1>1. LedgerTypes
  BY DEF CreditInv
<1>2. t \in Contents
  BY CleanIsFinal DEF CodeOf
<1>3. IsFiniteSet(Contents) /\ MaxTouches \in Nat
  BY LedgerAssumption, Zenon
<1>4. \A x \in Contents : touches[x] \in Int /\ touches[x] >= 0 /\ touches[x] <= MaxTouches
  BY <1>1, <1>3 DEF LedgerTypes
<1>5. SumOver(touches, Contents) = touches[t] + SumOver(touches, Contents \ {t})
  BY <1>2, <1>3, <1>4, SumSplits
<1>6. SumOver(touches, Contents \ {t}) \in Nat
  <2>1. IsFiniteSet(Contents \ {t})
    BY <1>3, FS_RemoveElement
  <2> QED BY <2>1, <1>4, SumIsNat
<1>7. SumOver(touches, Contents) < MaxTouches
  BY SumOfIs DEF RecordClick
<1>8. touches[t] + 1 \in 0..MaxTouches
  BY <1>2, <1>3, <1>4, <1>5, <1>6, <1>7
<1>9. touches' \in [Contents -> 0..MaxTouches]
  BY <1>1, <1>2, <1>8 DEF RecordClick, LedgerTypes
<1>10. UNCHANGED <<sales, credit, flush, seen, taken, again, lost>>
  BY DEF RecordClick
<1>11. LedgerTypes'
  BY <1>1, <1>9, <1>10 DEF LedgerTypes
<1> QED BY <1>10, <1>11, BooksDontMatter

LEMMA ExpiryKeepsCredit ==
  ASSUME CreditInv, NEW w \in Ledgers, CacheExpires(w)
  PROVE  CreditInv'
<1>1. LedgerTypes
  BY DEF CreditInv
<1>2. UNCHANGED <<touches, sales, credit, flush, taken, again, lost>>
  BY DEF CacheExpires
<1>3. seen' \in [Ledgers -> [Contents -> (0..MaxTouches) \cup {NotCached}]]
  <2>1. seen' = seen \/ seen' = [seen EXCEPT ![w] = [c \in Contents |-> NotCached]]
    BY DEF CacheExpires
  <2>2. [c \in Contents |-> NotCached] \in [Contents -> (0..MaxTouches) \cup {NotCached}]
    OBVIOUS
  <2> QED BY <1>1, <2>1, <2>2 DEF LedgerTypes
<1>4. LedgerTypes'
  BY <1>1, <1>2, <1>3 DEF LedgerTypes
<1> QED BY <1>2, <1>4, BooksDontMatter

LEMMA SaleKeepsCredit ==
  ASSUME CreditInv, NEW c \in Contents, NEW worth \in Worths, RecordConversion(c, worth)
  PROVE  CreditInv'
<1> DEFINE sale == [content |-> CodeOf(c), worth |-> worth, attributed |-> FALSE]
<1>1. LedgerTypes
  BY DEF CreditInv
<1>2. sale \in Sales
  BY CleanIsFinal DEF CodeOf, Sales
<1>3. UNCHANGED <<touches, credit, flush, seen, taken, again, lost>> /\ sales' = Append(sales, sale)
  BY DEF RecordConversion
<1>4. /\ sales \in Seq(Sales) /\ sales' \in Seq(Sales) /\ DOMAIN sales \subseteq DOMAIN sales'
      /\ \A i \in DOMAIN sales : sales'[i] = sales[i]
      /\ \A i \in DOMAIN sales' \ DOMAIN sales : sales'[i] = sale
  <2> HIDE DEF sale
  <2> QED BY <1>1, <1>2, <1>3 DEF LedgerTypes
<1>5. Marked' = Marked
  BY <1>4 DEF Marked
<1>6. LedgerTypes'
  <2>1. taken' \subseteq DOMAIN sales'
    BY <1>1, <1>3, <1>4 DEF LedgerTypes
  <2> QED BY <1>1, <1>3, <1>4, <2>1 DEF LedgerTypes
<1>7. \A x : \A S \in SUBSET DOMAIN sales : WorthOf(S, x)' = WorthOf(S, x)
  <2>1. \A i \in DOMAIN sales : sales'[i].content = sales[i].content /\ sales'[i].worth = sales[i].worth
    BY <1>4
  <2> QED BY <1>4, <2>1, WorthStays
<1>8. /\ \A x : Written(x)' = Written(x) /\ Unwritten(x)' = Unwritten(x) /\ RevenueOf(x)' = RevenueOf(x)
      /\ \A x : Marked \cup Written(x) \in SUBSET DOMAIN sales /\ taken \ Unwritten(x) \in SUBSET DOMAIN sales
      /\ \A w \in Ledgers : flush[w].ids \in SUBSET DOMAIN sales
  <2>1. \A x : Written(x)' = Written(x) /\ Unwritten(x)' = Unwritten(x) /\ RevenueOf(x)' = RevenueOf(x)
    BY <1>3 DEF Written, Unwritten, RevenueOf
  <2>2. \A x : Marked \cup Written(x) \in SUBSET DOMAIN sales /\ taken \ Unwritten(x) \in SUBSET DOMAIN sales
    BY <1>1, UnionsAreTaken
  <2>3. \A w \in Ledgers : flush[w].ids \in SUBSET DOMAIN sales
    BY <1>1 DEF LedgerTypes
  <2> QED BY <2>1, <2>2, <2>3
<1> QED BY <1>3, <1>5, <1>6, <1>7, <1>8, Zenon DEF CreditInv, Held, Covering, Apart, Covered, Amount

LEMMA FlushIs ==
  ASSUME LedgerTypes, NEW w \in Ledgers
  PROVE  /\ flush[w] = [step |-> flush[w].step, ids |-> flush[w].ids, acc |-> flush[w].acc]
         /\ flush[w].step \in {"idle", "write", "mark"} /\ flush[w].ids \in SUBSET Nat
         /\ flush[w].acc \in [DOMAIN flush[w].acc -> Credits] /\ DOMAIN flush[w].acc \subseteq Contents
         /\ flush[w].ids \in SUBSET DOMAIN sales
<1>1. flush[w] \in Flushes /\ flush[w].ids \in SUBSET DOMAIN sales
  BY DEF LedgerTypes
<1>2. /\ flush[w] = [step |-> flush[w].step, ids |-> flush[w].ids, acc |-> flush[w].acc]
      /\ flush[w].step \in {"idle", "write", "mark"} /\ flush[w].ids \in SUBSET Nat
      /\ flush[w].acc \in UNION {[D -> Credits] : D \in SUBSET Contents}
  BY <1>1 DEF Flushes
<1>3. PICK D \in SUBSET Contents : flush[w].acc \in [D -> Credits]
  BY <1>2
<1> QED BY <1>1, <1>2, <1>3

LEMMA IsFlush ==
  ASSUME NEW step \in {"idle", "write", "mark"}, NEW ids \in SUBSET Nat,
         NEW D \in SUBSET Contents, NEW acc \in [D -> Credits]
  PROVE  [step |-> step, ids |-> ids, acc |-> acc] \in Flushes
<1>1. acc \in UNION {[E -> Credits] : E \in SUBSET Contents}
  OBVIOUS
<1> QED BY <1>1 DEF Flushes

\* A process that ends forgets its flush; what it has not written is lost.
LEMMA DeathKeepsCredit ==
  ASSUME CreditInv, NEW w \in Ledgers, LedgerDies(w)
  PROVE  CreditInv'
<1>1. LedgerTypes
  BY DEF CreditInv
<1>2. UNCHANGED <<touches, sales, credit, taken, again, lost>>
  BY DEF LedgerDies
<1>3. NoFlush \in Flushes /\ NoFlush.ids = {} /\ DOMAIN NoFlush.acc = {}
  <2>1. DOMAIN <<>> = {} /\ <<>> \in [{} -> Credits]
    OBVIOUS
  <2>2. <<>> \in UNION {[D -> Credits] : D \in SUBSET Contents}
    BY <2>1
  <2> QED BY <2>1, <2>2 DEF NoFlush, Flushes
<1>4. /\ flush' \in [Ledgers -> Flushes] /\ flush'[w] = NoFlush
      /\ \A v \in Ledgers : v # w => flush'[v] = flush[v]
  BY <1>1, <1>3 DEF LedgerDies, LedgerTypes
<1>5. LedgerTypes'
  <2>1. seen' \in [Ledgers -> [Contents -> (0..MaxTouches) \cup {NotCached}]]
    <3>1. seen' = [seen EXCEPT ![w] = [c \in Contents |-> NotCached]]
      BY DEF LedgerDies
    <3>2. [c \in Contents |-> NotCached] \in [Contents -> (0..MaxTouches) \cup {NotCached}]
      OBVIOUS
    <3> QED BY <1>1, <3>1, <3>2 DEF LedgerTypes
  <2>2. \A v \in Ledgers : /\ flush'[v].ids \subseteq taken'
                           /\ flush'[v].step # "write" => DOMAIN flush'[v].acc = {}
    BY <1>1, <1>2, <1>3, <1>4 DEF LedgerTypes
  <2> QED BY <1>1, <1>2, <1>4, <2>1, <2>2 DEF LedgerTypes
<1>6. \A v \in Ledgers : \A c \in DOMAIN flush'[v].acc : v # w /\ flush'[v] = flush[v]
  BY <1>3, <1>4
<1>7. Held'
  <2>1. ASSUME NEW v \in Ledgers, NEW c \in DOMAIN flush'[v].acc
        PROVE  Amount(flush'[v].acc[c]) = WorthOf(flush[v].ids, c)'
    <3>1. flush'[v] = flush[v]
      BY <1>6
    <3>2. Amount(flush[v].acc[c]) = WorthOf(flush[v].ids, c)
      BY <3>1 DEF CreditInv, Held
    <3> QED BY <1>2, WorthIsSame, <3>1, <3>2
  <2> QED BY <2>1 DEF Held, Amount
<1>8. Marked' = Marked /\ \A c : Written(c)' \subseteq Written(c) /\ Unwritten(c)' \subseteq Unwritten(c)
  BY <1>2, <1>3, <1>4 DEF Marked, Written, Unwritten
<1>9. \A c \in Contents : RevenueOf(c)' = RevenueOf(c) /\ lost'[c] = lost[c]
  BY <1>2 DEF RevenueOf
<1>10. Apart'
  BY <1>2, <1>3, <1>4 DEF CreditInv, Apart
<1>11. Covering' /\ Covered'
  <2>1. \A c \in Contents : Of((Marked \cup Written(c))', c) \subseteq Of(Marked \cup Written(c), c)
    BY <1>8 DEF Of
  <2>2. \A c \in Contents : taken \ Unwritten(c) \subseteq taken' \ Unwritten(c)'
    BY <1>2, <1>8
  <2>3. DOMAIN sales' = DOMAIN sales /\ \A c : \A S \in SUBSET DOMAIN sales : WorthOf(S, c)' = WorthOf(S, c)
    BY <1>2, WorthIsSame
  <2> QED BY <1>2, <1>5, <1>9, <2>1, <2>2, <2>3, BoundsMove
<1> QED BY <1>5, <1>7, <1>10, <1>11 DEF CreditInv

\* Marking changes no worth; what it marks, or forgets, has been written.
LEMMA MarkKeepsCredit ==
  ASSUME CreditInv, NEW w \in Ledgers, MarkAttributed(w)
  PROVE  CreditInv'
<1> DEFINE ids == flush[w].ids
<1>1. LedgerTypes
  BY DEF CreditInv
<1>2. UNCHANGED <<touches, credit, seen, taken, again, lost>>
  BY DEF MarkAttributed
<1>3. NoFlush \in Flushes /\ NoFlush.ids = {} /\ DOMAIN NoFlush.acc = {}
  <2>1. DOMAIN <<>> = {} /\ <<>> \in [{} -> Credits]
    OBVIOUS
  <2>2. <<>> \in UNION {[D -> Credits] : D \in SUBSET Contents}
    BY <2>1
  <2> QED BY <2>1, <2>2 DEF NoFlush, Flushes
<1>4. /\ flush' \in [Ledgers -> Flushes] /\ flush'[w] = NoFlush
      /\ \A v \in Ledgers : v # w => flush'[v] = flush[v]
  BY <1>1, <1>3 DEF MarkAttributed, LedgerTypes
<1>5. DOMAIN flush[w].acc = {} /\ ids \subseteq taken
  BY <1>1 DEF LedgerTypes, MarkAttributed
<1>6. /\ sales' \in Seq(Sales) /\ DOMAIN sales' = DOMAIN sales
      /\ \A i \in DOMAIN sales : /\ sales'[i].content = sales[i].content /\ sales'[i].worth = sales[i].worth
                                 /\ sales'[i].attributed => sales[i].attributed \/ i \in ids
  <2>1. \A i \in DOMAIN sales : sales[i] \in Sales
    BY <1>1 DEF LedgerTypes
  <2>2. CASE sales' = sales
    BY <1>1, <2>2 DEF LedgerTypes
  <2>3. CASE sales' = [i \in DOMAIN sales |-> IF i \in ids THEN [sales[i] EXCEPT !.attributed = TRUE] ELSE sales[i]]
    <3>1. DOMAIN sales = 1..Len(sales) /\ Len(sales) \in Nat
      BY <1>1 DEF LedgerTypes
    <3>2. \A i \in DOMAIN sales : /\ [sales[i] EXCEPT !.attributed = TRUE] \in Sales
                                  /\ [sales[i] EXCEPT !.attributed = TRUE].content = sales[i].content
                                  /\ [sales[i] EXCEPT !.attributed = TRUE].worth = sales[i].worth
      BY <2>1 DEF Sales
    <3>3. DOMAIN sales' = DOMAIN sales /\ sales' \in [1..Len(sales) -> Sales]
      BY <2>1, <2>3, <3>1, <3>2
    <3>4. sales' \in Seq(Sales)
      BY <3>1, <3>3
    <3> QED BY <2>3, <3>2, <3>3, <3>4
  <2> QED BY <2>2, <2>3 DEF MarkAttributed
<1>7. LedgerTypes'
  <2>1. \A v \in Ledgers : /\ flush'[v].ids \subseteq taken'
                           /\ flush'[v].step # "write" => DOMAIN flush'[v].acc = {}
    BY <1>1, <1>2, <1>3, <1>4 DEF LedgerTypes
  <2> QED BY <1>1, <1>2, <1>4, <1>6, <2>1 DEF LedgerTypes
<1>8. \A c : \A S \in SUBSET DOMAIN sales : WorthOf(S, c)' = WorthOf(S, c)
  <2>1. sales \in Seq(Sales)
    BY <1>1 DEF LedgerTypes
  <2> QED BY <1>6, <2>1, WorthStays
<1>9. Held'
  <2>1. ASSUME NEW v \in Ledgers, NEW c \in DOMAIN flush'[v].acc
        PROVE  Amount(flush'[v].acc[c]) = WorthOf(flush[v].ids, c)'
    <3>1. flush'[v] = flush[v] /\ flush[v].ids \in SUBSET DOMAIN sales
      BY <1>1, <1>3, <1>4, FlushIs
    <3>2. Amount(flush[v].acc[c]) = WorthOf(flush[v].ids, c)
      BY <3>1 DEF CreditInv, Held
    <3> QED BY <1>8, <3>1, <3>2
  <2>2. \A v \in Ledgers : \A c \in DOMAIN flush'[v].acc : flush'[v] = flush[v]
    BY <1>3, <1>4
  <2> QED BY <2>1, <2>2 DEF Held, Amount
<1>10. \A c : ids \subseteq Written(c)
  BY <1>5 DEF Written
<1>11. Marked' \subseteq Marked \cup ids
  BY <1>6 DEF Marked
<1>12. \A c : Written(c)' \subseteq Written(c) /\ Unwritten(c)' \subseteq Unwritten(c)
  BY <1>3, <1>4 DEF Written, Unwritten
<1>13. Apart'
  BY <1>2, <1>3, <1>4 DEF CreditInv, Apart
<1>14. Covering' /\ Covered'
  <2>1. \A c \in Contents : RevenueOf(c)' = RevenueOf(c) /\ lost'[c] = lost[c]
    BY <1>2 DEF RevenueOf
  <2>2. \A c \in Contents : Of((Marked \cup Written(c))', c) \subseteq Of(Marked \cup Written(c), c)
    BY <1>10, <1>11, <1>12 DEF Of
  <2>3. \A c \in Contents : taken \ Unwritten(c) \subseteq taken' \ Unwritten(c)'
    BY <1>2, <1>12
  <2> QED BY <1>2, <1>6, <1>7, <1>8, <2>1, <2>2, <2>3, BoundsMove
<1> QED BY <1>7, <1>9, <1>13, <1>14 DEF CreditInv

\* Writing what is held for a content, or failing to, moves the flush's sales
\* from those yet to be written to the written ones.
LEMMA WriteKeepsCredit ==
  ASSUME CreditInv, NEW w \in Ledgers, NEW costs, WriteCredit(w, costs)
  PROVE  CreditInv'
<1> DEFINE ids == flush[w].ids
<1>1. LedgerTypes /\ sales \in Seq(Sales)
  BY DEF CreditInv, LedgerTypes
<1>2. UNCHANGED <<touches, sales, seen, taken, again>>
  BY DEF WriteCredit
<1>3. PICK c \in DOMAIN flush[w].acc :
        LET due == flush[w].acc[c]
            unpaid == DOMAIN flush[w].acc \ {c}
        IN /\ \/ credit' = [credit EXCEPT ![c] = Plus(@, due)] /\ UNCHANGED lost
              \/ lost' = [lost EXCEPT ![c] = @ + due.last + due.assist] /\ UNCHANGED credit
           /\ flush' = [flush EXCEPT ![w] = [step |-> IF unpaid = {} THEN "mark" ELSE "write", ids |-> @.ids,
                                            acc |-> Restrict(@.acc, unpaid)]]
  BY DEF WriteCredit
<1> DEFINE due == flush[w].acc[c]
           unpaid == DOMAIN flush[w].acc \ {c}
           rest == [x \in unpaid |-> flush[w].acc[x]]
<1>4. /\ flush[w] = [step |-> flush[w].step, ids |-> ids, acc |-> flush[w].acc]
      /\ flush[w].step \in {"idle", "write", "mark"} /\ ids \in SUBSET Nat /\ ids \in SUBSET DOMAIN sales
      /\ flush[w].acc \in [DOMAIN flush[w].acc -> Credits] /\ DOMAIN flush[w].acc \subseteq Contents
  BY <1>1, FlushIs
<1>5. c \in Contents /\ due \in Credits /\ Amount(due) = WorthOf(ids, c)
  BY <1>4 DEF CreditInv, Held
<1>6. flush'[w] = [step |-> IF unpaid = {} THEN "mark" ELSE "write", ids |-> ids, acc |-> rest]
  <2> DEFINE new == [step |-> IF unpaid = {} THEN "mark" ELSE "write", ids |-> ids, acc |-> rest]
  <2>1. flush' = [flush EXCEPT ![w] = new]
    BY <1>3 DEF Restrict
  <2>2. flush'[w] = new
    <3> HIDE DEF new
    <3> QED BY <1>1, <2>1 DEF LedgerTypes
  <2> QED BY <2>2
<1>7. /\ flush'[w] \in Flushes /\ flush'[w].ids = ids /\ DOMAIN flush'[w].acc = unpaid
      /\ flush'[w].step # "write" => unpaid = {}
      /\ \A x \in unpaid : flush'[w].acc[x] = flush[w].acc[x]
  <2>1. rest \in [unpaid -> Credits] /\ unpaid \in SUBSET Contents
    BY <1>4
  <2>2. (IF unpaid = {} THEN "mark" ELSE "write") \in {"idle", "write", "mark"}
    OBVIOUS
  <2>3. flush'[w] \in Flushes
    BY <1>4, <1>6, <2>1, <2>2, IsFlush
  <2> QED BY <1>6, <2>3
<1>8. flush' \in [Ledgers -> Flushes] /\ \A v \in Ledgers : v # w => flush'[v] = flush[v]
  BY <1>1, <1>3, <1>7 DEF LedgerTypes
<1>9. /\ credit' \in [Contents -> Credits] /\ lost' \in [Contents -> Int]
      /\ RevenueOf(c)' + lost'[c] = RevenueOf(c) + lost[c] + WorthOf(ids, c)
      /\ \A x \in Contents \ {c} : RevenueOf(x)' = RevenueOf(x) /\ lost'[x] = lost[x]
      /\ RevenueOf(c) \in Int /\ lost[c] \in Int
  <2>1. /\ credit \in [Contents -> Credits] /\ lost \in [Contents -> Int]
        /\ credit[c] \in [{"clicks", "sold", "last", "assist"} -> Int]
        /\ due \in [{"clicks", "sold", "last", "assist"} -> Int]
    BY <1>1, <1>5 DEF LedgerTypes, Credits, NoCredit
  <2>2. due.last + due.assist = WorthOf(ids, c) /\ due.last \in Int /\ due.assist \in Int
    BY <1>5, <2>1 DEF Amount
  <2>3. RevenueOf(c) = credit[c].last + credit[c].assist /\ credit[c].last \in Int /\ credit[c].assist \in Int /\ lost[c] \in Int
    BY <1>5, <2>1 DEF RevenueOf
  <2> HIDE DEF due
  <2>4. CASE credit' = [credit EXCEPT ![c] = Plus(@, due)] /\ UNCHANGED lost
    <3> DEFINE sum == Plus(credit[c], due)
    <3>1. sum = [k \in {"clicks", "sold", "last", "assist"} |-> credit[c][k] + due[k]]
      BY <2>1 DEF Plus
    <3>2. sum.last = credit[c].last + due.last /\ sum.assist = credit[c].assist + due.assist
      BY <3>1
    <3>3. sum \in Credits
      BY <2>1, <3>1 DEF Credits, NoCredit
    <3>4. credit' = [credit EXCEPT ![c] = sum]
      BY <2>4
    <3> HIDE DEF sum
    <3>5. credit' \in [Contents -> Credits] /\ credit'[c] = sum /\ \A x \in Contents \ {c} : credit'[x] = credit[x]
      BY <1>5, <2>1, <3>3, <3>4
    <3>6. RevenueOf(c)' = sum.last + sum.assist
      BY <3>5 DEF RevenueOf
    <3>7. \A x \in Contents \ {c} : RevenueOf(x)' = RevenueOf(x) /\ lost'[x] = lost[x]
      BY <2>4, <3>5 DEF RevenueOf
    <3>8. RevenueOf(c)' + lost'[c] = RevenueOf(c) + lost[c] + WorthOf(ids, c)
      BY <2>2, <2>3, <2>4, <3>2, <3>6
    <3> QED BY <2>1, <2>3, <2>4, <3>5, <3>7, <3>8
  <2>5. CASE lost' = [lost EXCEPT ![c] = @ + due.last + due.assist] /\ UNCHANGED credit
    <3>1. lost'[c] = lost[c] + due.last + due.assist /\ \A x \in Contents \ {c} : lost'[x] = lost[x]
      BY <1>5, <2>1, <2>5
    <3>2. lost' \in [Contents -> Int]
      BY <1>5, <2>1, <2>2, <2>5
    <3>3. \A x : RevenueOf(x)' = RevenueOf(x)
      BY <2>5 DEF RevenueOf
    <3> QED BY <2>1, <2>2, <2>3, <2>5, <3>1, <3>2, <3>3
  <2> QED BY <1>3, <2>4, <2>5 DEF due
<1> HIDE DEF due, unpaid, rest
<1>10. LedgerTypes'
  <2>1. \A v \in Ledgers : flush'[v].ids \subseteq taken' /\ (flush'[v].step # "write" => DOMAIN flush'[v].acc = {})
    BY <1>1, <1>2, <1>7, <1>8 DEF LedgerTypes
  <2> QED BY <1>1, <1>2, <1>8, <1>9, <2>1 DEF LedgerTypes
<1>11. \A S, x : WorthOf(S, x)' = WorthOf(S, x)
  BY <1>2, WorthIsSame
<1>12. Held'
  <2>1. ASSUME NEW v \in Ledgers, NEW x \in DOMAIN flush'[v].acc
        PROVE  Amount(flush'[v].acc[x]) = WorthOf(flush[v].ids, x)' /\ flush'[v].ids = flush[v].ids
    <3>1. x \in DOMAIN flush[v].acc /\ flush'[v].acc[x] = flush[v].acc[x] /\ flush'[v].ids = flush[v].ids
      BY <1>7, <1>8 DEF unpaid
    <3>2. Amount(flush[v].acc[x]) = WorthOf(flush[v].ids, x)
      BY <3>1 DEF CreditInv, Held
    <3> QED BY <1>11, <3>1, <3>2
  <2> QED BY <2>1 DEF Held, Amount
<1>13. \A v \in Ledgers : flush'[v].ids = flush[v].ids
  BY <1>7, <1>8
<1>14. Apart'
  BY <1>2, <1>13 DEF CreditInv, Apart
<1>15. Marked' = Marked
  BY <1>2 DEF Marked
<1>16. \A v \in Ledgers : \A x \in Contents \ {c} : x \in DOMAIN flush'[v].acc <=> x \in DOMAIN flush[v].acc
  BY <1>7, <1>8 DEF unpaid
<1>17. \A x \in Contents \ {c} : Written(x)' = Written(x) /\ Unwritten(x)' = Unwritten(x)
  BY <1>13, <1>16 DEF Written, Unwritten
<1>18. Written(c)' \subseteq Written(c) \cup ids
  BY <1>7, <1>8 DEF Written
<1>19. ids \subseteq Unwritten(c) /\ ids \subseteq taken
  BY <1>1 DEF Unwritten, LedgerTypes
<1>20. ~again => ids \cap Unwritten(c)' = {} /\ Unwritten(c)' \subseteq Unwritten(c)
  BY <1>7, <1>8 DEF Unwritten, CreditInv, Apart, unpaid
<1>21. \A x \in Contents : /\ Marked \cup Written(x) \in SUBSET DOMAIN sales
                           /\ taken \ Unwritten(x) \in SUBSET DOMAIN sales
  BY <1>1, UnionsAreTaken
<1>22. Covering'
  <2>1. WorthOf(Marked' \cup Written(c)', c) <= RevenueOf(c)' + lost'[c]
    <3> DEFINE S == Marked \cup Written(c)
    <3>1. WorthOf(S \cup ids, c) <= WorthOf(S, c) + WorthOf(ids, c)
      BY <1>1, <1>4, <1>5, <1>21, WorthIs
    <3>2. Marked' \cup Written(c)' \subseteq S \cup ids /\ S \cup ids \in SUBSET DOMAIN sales
      BY <1>4, <1>5, <1>15, <1>18, <1>21
    <3>3. WorthOf(Marked' \cup Written(c)', c) <= WorthOf(S \cup ids, c)
      BY <1>1, <3>2, WorthIs
    <3>4. /\ WorthOf(S, c) \in Nat /\ WorthOf(ids, c) \in Nat /\ WorthOf(S \cup ids, c) \in Nat
          /\ WorthOf(Marked' \cup Written(c)', c) \in Nat
      BY <1>1, <1>4, <1>5, <1>21, <3>2, WorthIs
    <3>5. WorthOf(S, c) <= RevenueOf(c) + lost[c]
      BY <1>5 DEF CreditInv, Covering
    <3> HIDE DEF S
    <3> QED BY <1>9, <3>1, <3>3, <3>4, <3>5
  <2>2. (WorthOf(Marked \cup Written(c), c))' = WorthOf(Marked' \cup Written(c)', c)
    BY <1>11, Zenon
  <2>3. ASSUME NEW x \in Contents \ {c}
        PROVE  (WorthOf(Marked \cup Written(x), x))' <= RevenueOf(x)' + lost'[x]
    <3>1. WorthOf(Marked \cup Written(x), x) <= RevenueOf(x) + lost[x]
      BY DEF CreditInv, Covering
    <3>2. (WorthOf(Marked \cup Written(x), x))' = WorthOf(Marked \cup Written(x), x)
      BY <1>11, <1>15, <1>17, Zenon
    <3> QED BY <1>9, <3>1, <3>2
  <2> QED BY <2>1, <2>2, <2>3 DEF Covering
<1>23. Covered'
  <2> SUFFICES ASSUME ~again' PROVE \A x \in Contents : RevenueOf(x)' + lost'[x] <= WorthOf(taken \ Unwritten(x), x)'
    BY DEF Covered
  <2>1. RevenueOf(c)' + lost'[c] <= WorthOf(taken' \ Unwritten(c)', c)
    <3> DEFINE S == taken \ Unwritten(c)
    <3>1. S \cap ids = {} /\ S \cup ids \subseteq taken' \ Unwritten(c)' /\ taken' \ Unwritten(c)' \in SUBSET DOMAIN sales
      BY <1>1, <1>2, <1>19, <1>20 DEF LedgerTypes
    <3>2. WorthOf(S \cup ids, c) = WorthOf(S, c) + WorthOf(ids, c)
      BY <1>1, <1>4, <1>5, <1>21, <3>1, WorthIs
    <3>3. WorthOf(S \cup ids, c) <= WorthOf(taken' \ Unwritten(c)', c)
      BY <1>1, <3>1, WorthIs
    <3>4. /\ WorthOf(S, c) \in Nat /\ WorthOf(ids, c) \in Nat /\ WorthOf(S \cup ids, c) \in Nat
          /\ WorthOf(taken' \ Unwritten(c)', c) \in Nat
      BY <1>1, <1>4, <1>5, <1>21, <3>1, WorthIs
    <3>5. RevenueOf(c) + lost[c] <= WorthOf(S, c)
      BY <1>2, <1>5 DEF CreditInv, Covered
    <3> HIDE DEF S
    <3> QED BY <1>9, <3>2, <3>3, <3>4, <3>5
  <2>2. (WorthOf(taken \ Unwritten(c), c))' = WorthOf(taken' \ Unwritten(c)', c)
    BY <1>11, Zenon
  <2>3. ASSUME NEW x \in Contents \ {c}
        PROVE  RevenueOf(x)' + lost'[x] <= (WorthOf(taken \ Unwritten(x), x))'
    <3>1. RevenueOf(x) + lost[x] <= WorthOf(taken \ Unwritten(x), x)
      BY <1>2 DEF CreditInv, Covered
    <3>2. (WorthOf(taken \ Unwritten(x), x))' = WorthOf(taken \ Unwritten(x), x)
      BY <1>2, <1>11, <1>17, Zenon
    <3> QED BY <1>9, <3>1, <3>2
  <2> QED BY <2>1, <2>2, <2>3
<1> QED BY <1>10, <1>12, <1>14, <1>22, <1>23 DEF CreditInv

LEMMA ShareIs ==
  ASSUME NEW n \in Nat, NEW worth \in Nat
  PROVE  ShareOf(n, worth) \in [{"clicks", "sold", "last", "assist"} -> Int]
<1>1. CASE n <= 1
  BY <1>1 DEF ShareOf
<1>2. CASE ~(n <= 1)
  <2> DEFINE each == (worth * 3) \div (10 * (n - 1))
  <2>1. 10 * (n - 1) \in Int /\ 10 * (n - 1) > 0 /\ worth * 3 \in Int /\ n - 1 \in Int
    BY <1>2
  <2>2. each \in Int
    BY <2>1
  <2> HIDE DEF each
  <2>3. (n - 1) * each \in Int
    BY <2>1, <2>2
  <2>4. (worth * 7) \div 10 \in Int
    OBVIOUS
  <2>5. ShareOf(n, worth) = [clicks |-> n, sold |-> 1, last |-> (worth * 7) \div 10, assist |-> (n - 1) * each]
    BY <1>2 DEF ShareOf, each
  <2> QED BY <2>3, <2>4, <2>5
<1> QED BY <1>1, <1>2

\* What a flush credits a content with adds up to the worth of its sales.
LEMMA CreditOfIs ==
  ASSUME LedgerTypes, NEW w \in Ledgers, NEW c \in Contents, NEW S \in SUBSET DOMAIN sales,
         \A i \in S : sales[i].content = c
  PROVE  CreditOf(w, S, c) \in Credits /\ Amount(CreditOf(w, S, c)) = WorthOf(S, c)
<1> DEFINE n == TouchesOf(w, c)
           share(i) == ShareOf(n, sales[i].worth)
           part(k) == [i \in S |-> share(i)[k]]
           Fields == {"clicks", "sold", "last", "assist"}
<1>1. n \in 0..MaxTouches
  BY DEF LedgerTypes, TouchesOf, NotCached
<1>2. IsFiniteSet(S) /\ \A i \in S : sales[i].worth \in Worths /\ Worth[i] = sales[i].worth
  <2>1. sales \in Seq(Sales)
    BY DEF LedgerTypes
  <2>2. IsFiniteSet(DOMAIN sales) /\ \A i \in DOMAIN sales : sales[i] \in Sales /\ Worth[i] = sales[i].worth
    BY <2>1, SalesAre
  <2>3. IsFiniteSet(S)
    BY <2>2, FS_Subset
  <2> QED BY <2>2, <2>3 DEF Sales
<1>3. MaxTouches \in Nat /\ Worths \subseteq Nat
  BY LedgerAssumption, Zenon
<1>4. \A i \in S : share(i) \in [Fields -> Int]
  <2> HIDE DEF n, share
  <2>1. n \in Nat
    BY <1>1, <1>3
  <2>2. \A i \in S : sales[i].worth \in Nat
    BY <1>2, <1>3
  <2> QED BY <2>1, <2>2, ShareIs DEF share
<1>5. \A i \in S : share(i).last + share(i).assist = sales[i].worth
  <2> HIDE DEF n
  <2> QED BY <1>1, <1>2, LedgerAssumption
<1> HIDE DEF share, n
<1>6. CreditOf(w, S, c) = [k \in Fields |-> SumOver(part(k), S)]
  BY SumOfIs DEF CreditOf, NoCredit, share, n
<1>7. \A k \in Fields : \A i \in S : part(k)[i] \in Int
  BY <1>4
<1>8. \A k \in Fields : SumOver(part(k), S) \in Int
  <2> HIDE DEF part, Fields
  <2> QED BY <1>2, <1>7, SumType
<1>9. CreditOf(w, S, c) \in Credits
  BY <1>6, <1>8 DEF Credits, NoCredit
<1>10. Amount(CreditOf(w, S, c)) = SumOver(part("last"), S) + SumOver(part("assist"), S)
  <2> HIDE DEF part
  <2> QED BY <1>6 DEF Amount
<1>11. SumOver(Worth, S) = SumOver(part("last"), S) + SumOver(part("assist"), S)
  <2>1. \A i \in S : part("last")[i] \in Int /\ part("assist")[i] \in Int /\ Worth[i] = part("last")[i] + part("assist")[i]
    <3>1. \A i \in S : part("last")[i] = share(i).last /\ part("assist")[i] = share(i).assist
      OBVIOUS
    <3>2. \A i \in S : part("last")[i] \in Int /\ part("assist")[i] \in Int
      BY <1>7
    <3> HIDE DEF part
    <3> QED BY <1>2, <1>5, <3>1, <3>2
  <2> HIDE DEF part
  <2> QED BY <1>2, <2>1, SumAdds
<1>12. WorthOf(S, c) = SumOver(Worth, S)
  <2>1. Of(S, c) = S
    BY DEF Of
  <2>2. WorthOf(S, c) = SumOver(Worth, Of(S, c))
    BY SumOfIs DEF WorthOf, Worth, Of
  <2> QED BY <2>1, <2>2
<1> QED BY <1>9, <1>10, <1>11, <1>12

\* A flush takes up the pending sales; none of them is credited before it
\* writes, and all of them are its own unless another flush has them.
LEMMA TakeKeepsCredit ==
  ASSUME CreditInv, NEW w \in Ledgers, TakePending(w)
  PROVE  CreditInv'
<1> DEFINE sold == {sales[i].content : i \in Pending}
           ofContent(c) == {i \in Pending : sales[i].content = c}
           acc == [c \in sold |-> CreditOf(w, ofContent(c), c)]
<1>1. LedgerTypes /\ sales \in Seq(Sales)
  BY DEF CreditInv, LedgerTypes
<1>2. UNCHANGED <<touches, sales, credit, lost>>
  BY DEF TakePending
<1>3. Pending \in SUBSET DOMAIN sales /\ Pending \in SUBSET Nat /\ sold \in SUBSET Contents
  <2>1. Pending \in SUBSET DOMAIN sales /\ DOMAIN sales \subseteq Nat
    BY <1>1 DEF Pending
  <2>2. \A i \in DOMAIN sales : sales[i].content \in Contents
    <3>1. \A i \in DOMAIN sales : sales[i] \in Sales
      BY <1>1
    <3> QED BY <3>1 DEF Sales
  <2> QED BY <2>1, <2>2
<1>4. \A c \in sold : acc[c] \in Credits /\ Amount(acc[c]) = WorthOf(ofContent(c), c)
  <2>1. \A c \in sold : c \in Contents /\ ofContent(c) \in SUBSET DOMAIN sales /\ \A i \in ofContent(c) : sales[i].content = c
    BY <1>3
  <2>2. \A c \in sold : CreditOf(w, ofContent(c), c) \in Credits
                        /\ Amount(CreditOf(w, ofContent(c), c)) = WorthOf(ofContent(c), c)
    <3> HIDE DEF sold, ofContent
    <3> QED BY <1>1, <2>1, CreditOfIs
  <2>3. \A c \in sold : acc[c] = CreditOf(w, ofContent(c), c)
    OBVIOUS
  <2> HIDE DEF acc, sold, ofContent
  <2> QED BY <2>2, <2>3
<1>5. \A c : WorthOf(ofContent(c), c) = WorthOf(Pending, c)
  <2>1. \A c : Of(ofContent(c), c) = Of(Pending, c)
    BY DEF Of
  <2>2. \A X, c : WorthOf(X, c) = SumOf(Worth, Of(X, c))
    BY DEF WorthOf, Worth, Of
  <2> HIDE DEF ofContent
  <2> QED BY <2>1, <2>2
<1>6. acc \in [sold -> Credits] /\ DOMAIN acc = sold
  BY <1>4
<1>7. flush' = [flush EXCEPT ![w] = [step |-> "write", ids |-> Pending, acc |-> acc]]
  BY DEF TakePending
<1>8. seen' = [seen EXCEPT ![w] = [c \in Contents |-> IF c \in sold THEN TouchesOf(w, c) ELSE @[c]]]
  BY DEF TakePending
<1>9. taken' = taken \cup Pending /\ again' = (again \/ Pending \cap taken # {}) /\ flush[w].step = "idle"
  BY DEF TakePending
<1> HIDE DEF sold, acc
<1>10. /\ flush' \in [Ledgers -> Flushes]
       /\ flush'[w] = [step |-> "write", ids |-> Pending, acc |-> acc]
       /\ \A v \in Ledgers : v # w => flush'[v] = flush[v]
  <2>1. [step |-> "write", ids |-> Pending, acc |-> acc] \in Flushes
    BY <1>3, <1>6, IsFlush
  <2> QED BY <1>1, <1>7, <2>1 DEF LedgerTypes
<1>11. DOMAIN flush[w].acc = {} /\ flush'[w].ids = Pending /\ DOMAIN flush'[w].acc = sold /\ flush'[w].step = "write"
  <2>1. DOMAIN flush[w].acc = {}
    BY <1>1, <1>9 DEF LedgerTypes
  <2> QED BY <1>6, <1>10, <2>1
<1>12. LedgerTypes'
  <2>1. seen' \in [Ledgers -> [Contents -> (0..MaxTouches) \cup {NotCached}]]
    <3>1. \A c \in Contents : TouchesOf(w, c) \in (0..MaxTouches) \cup {NotCached}
      BY <1>1 DEF TouchesOf, LedgerTypes
    <3>2. seen[w] \in [Contents -> (0..MaxTouches) \cup {NotCached}]
      BY <1>1 DEF LedgerTypes
    <3> DEFINE row == [c \in Contents |-> IF c \in sold THEN TouchesOf(w, c) ELSE seen[w][c]]
    <3>3. row \in [Contents -> (0..MaxTouches) \cup {NotCached}]
      BY <3>1, <3>2
    <3>4. seen' = [seen EXCEPT ![w] = row]
      BY <1>8
    <3> HIDE DEF row
    <3> QED BY <1>1, <3>3, <3>4 DEF LedgerTypes
  <2>2. taken' \subseteq DOMAIN sales'
    BY <1>1, <1>2, <1>3, <1>9 DEF LedgerTypes
  <2>3. again' \in BOOLEAN
    BY <1>9, Zenon
  <2>4. \A v \in Ledgers : flush'[v].ids \subseteq taken' /\ (flush'[v].step # "write" => DOMAIN flush'[v].acc = {})
    BY <1>1, <1>9, <1>10, <1>11 DEF LedgerTypes
  <2> QED BY <1>1, <1>2, <1>10, <2>1, <2>2, <2>3, <2>4 DEF LedgerTypes
<1>13. \A S, c : WorthOf(S, c)' = WorthOf(S, c)
  BY <1>2, WorthIsSame
<1>14. Held'
  <2>1. ASSUME NEW c \in sold PROVE Amount(flush'[w].acc[c]) = WorthOf(flush[w].ids, c)'
    <3>1. Amount(acc[c]) = WorthOf(Pending, c)
      BY <1>4, <1>5
    <3>2. WorthOf(flush[w].ids, c)' = WorthOf(Pending, c)
      BY <1>11, <1>13, Zenon
    <3> QED BY <1>10, <3>1, <3>2
  <2>2. ASSUME NEW v \in Ledgers, v # w, NEW c \in DOMAIN flush'[v].acc
        PROVE  Amount(flush'[v].acc[c]) = WorthOf(flush[v].ids, c)'
    <3>1. flush'[v] = flush[v]
      BY <1>10, <2>2
    <3>2. Amount(flush[v].acc[c]) = WorthOf(flush[v].ids, c)
      BY <2>2, <3>1 DEF CreditInv, Held
    <3> QED BY <1>13, <3>1, <3>2
  <2> QED BY <1>11, <2>1, <2>2 DEF Held, Amount
<1>15. Marked' = Marked
  BY <1>2 DEF Marked
<1>16. \A c : Written(c)' \subseteq Written(c) \cup Pending /\ (c \in sold => Written(c)' \subseteq Written(c))
  BY <1>10, <1>11 DEF Written
<1>17. \A c : /\ Unwritten(c)' \subseteq Unwritten(c) \cup Pending
              /\ c \notin sold => Unwritten(c)' \subseteq Unwritten(c)
  BY <1>10, <1>11 DEF Unwritten
<1>18. \A c : c \notin sold => Of(Pending, c) = {}
  BY DEF Of, sold
<1>19. ASSUME ~again' PROVE ~again /\ Pending \cap taken = {}
  BY <1>9, <1>19, Zenon
<1>20. Apart'
  <2>1. \A v \in Ledgers : flush[v].ids \subseteq taken
    BY <1>1 DEF LedgerTypes
  <2>2. ASSUME ~again', NEW u \in Ledgers, NEW v \in Ledgers, u # v PROVE flush'[u].ids \cap flush'[v].ids = {}
    <3>1. ~again /\ Pending \cap taken = {}
      BY <1>19, <2>2
    <3>2. flush[u].ids \cap flush[v].ids = {}
      BY <2>2, <3>1 DEF CreditInv, Apart
    <3> QED BY <1>10, <1>11, <2>1, <2>2, <3>1, <3>2
  <2> QED BY <2>2 DEF Apart
<1>21. Covering' /\ Covered'
  <2>1. \A c \in Contents : RevenueOf(c)' = RevenueOf(c) /\ lost'[c] = lost[c]
    BY <1>2 DEF RevenueOf
  <2>2. \A c \in Contents : Of((Marked \cup Written(c))', c) \subseteq Of(Marked \cup Written(c), c)
    BY <1>15, <1>16, <1>18 DEF Of
  <2>3. ASSUME ~again' PROVE ~again /\ \A c \in Contents : taken \ Unwritten(c) \subseteq taken' \ Unwritten(c)'
    <3>1. ~again /\ Pending \cap taken = {}
      BY <1>19, <2>3
    <3> QED BY <1>9, <1>17, <3>1
  <2>4. DOMAIN sales' = DOMAIN sales
    BY <1>2
  <2> QED BY <1>12, <1>13, <2>1, <2>2, <2>3, <2>4, BoundsMove
<1> QED BY <1>12, <1>14, <1>20, <1>21 DEF CreditInv

\* What contents are credited with follows their sales (CreditMatchesSales):
\* whatever flushes interleave, die or are refused, no marked sale goes
\* uncredited, and no sale is credited twice that was not taken up twice.
THEOREM CreditFollowsSales == LedgerSpec => []CreditMatchesSales
<1>1. LedgerInit => CreditInv
  BY CreditStarts
<1>2. CreditInv /\ [LedgerNext]_ledgerVars => CreditInv'
  <2> SUFFICES ASSUME CreditInv, [LedgerNext]_ledgerVars PROVE CreditInv'
    OBVIOUS
  <2>1. ASSUME NEW c \in Contents, RecordClick(c) PROVE CreditInv'
    BY <2>1, ClickKeepsCredit
  <2>2. ASSUME NEW c \in Contents, NEW worth \in Worths, RecordConversion(c, worth) PROVE CreditInv'
    BY <2>2, SaleKeepsCredit
  <2>3. ASSUME NEW w \in Ledgers, LedgerStep(w) PROVE CreditInv'
    <3>1. CASE TakePending(w)
      BY <3>1, TakeKeepsCredit
    <3>2. CASE WriteCredit(w, <<>>)
      BY <3>2, WriteKeepsCredit
    <3>3. CASE MarkAttributed(w)
      BY <3>3, MarkKeepsCredit
    <3>4. CASE LedgerDies(w)
      BY <3>4, DeathKeepsCredit
    <3>5. CASE CacheExpires(w)
      BY <3>5, ExpiryKeepsCredit
    <3> QED BY <2>3, <3>1, <3>2, <3>3, <3>4, <3>5 DEF LedgerStep
  <2>4. CASE UNCHANGED ledgerVars
    <3>1. LedgerTypes' /\ UNCHANGED <<sales, credit, flush, taken, again, lost>>
      BY <2>4 DEF ledgerVars, CreditInv, LedgerTypes
    <3> QED BY <3>1, BooksDontMatter
  <2> QED BY <2>1, <2>2, <2>3, <2>4 DEF LedgerNext
<1>3. CreditInv => CreditMatchesSales
  BY CreditIsRead
<1> QED BY <1>1, <1>2, <1>3, PTL DEF LedgerSpec

-----------------------------------------------------------------------------
(* The AI keys: a working key answers                                      *)

\* A candidate of a request is accounted for.
Accounted(c, i) ==
  \/ line[c][i] \in Faulty \/ i \in unwritten[c]
  \/ \A a \in 1..Attempts[c] : <<i, a>> \in astray[c]

\* A request stands at a candidate of its line and has accounted for those it
\* left behind. Its key fails, or the attempts before this one went astray; and
\* the library has another key's configuration only while the request is marked.
AtCandidate(c) ==
  /\ nth[c] \in 1..Len(line[c]) /\ left[c] \in 1..Attempts[c]
  /\ \A i \in 1..nth[c] - 1 : Accounted(c, i)
  /\ \/ Candidate(c) \in Faulty
     \/ \A a \in left[c] + 1..Attempts[c] : <<nth[c], a>> \in astray[c]
  /\ c \notin mixed => configured = Candidate(c)

RouterInv ==
  /\ keyOn \subseteq Keys /\ modelOn \subseteq Models
  /\ line \in [Callers -> Seq(Keys)] /\ nth \in [Callers -> Nat] /\ left \in [Callers -> Nat]
  /\ asking \in [Callers -> {"no", "configured", "answered", "failed", "broken"}]
  /\ astray \in [Callers -> SUBSET (Nat \X Nat)] /\ unwritten \in [Callers -> SUBSET Nat]
  /\ \A c \in Callers : asking[c] = "configured" => AtCandidate(c)
  /\ WorkingKeyAnswers

LEMMA LinesAreKeys ==
  ASSUME keyOn \subseteq Keys, modelOn \subseteq Models, NEW s \in CandidateLines
  PROVE  s \in Seq(Keys)
<1>1. IsFiniteSet(keyOn) /\ IsFiniteSet(modelOn)
  BY RouterAssumption, FS_Subset
<1>2. Cardinality(keyOn) \in Nat /\ Rounds \in Nat
  BY <1>1, FS_CardinalityType DEF Rounds
<1>3. PICK t \in SetToSeqs(keyOn) : s = [i \in 1 .. Rounds * Len(t) |-> t[((i - 1) % Len(t)) + 1]]
  BY DEF CandidateLines
<1>4. t \in [1..Cardinality(keyOn) -> keyOn]
  BY <1>3 DEF SetToSeqs
<1>5. t \in Seq(Keys) /\ Len(t) \in Nat /\ \A j \in 1..Len(t) : t[j] \in Keys
  BY <1>2, <1>4
<1>6. Rounds * Len(t) \in Nat
  BY <1>2, <1>5
<1>7. ASSUME NEW i \in 1 .. Rounds * Len(t) PROVE t[((i - 1) % Len(t)) + 1] \in Keys
  <2>1. Len(t) > 0
    <3>1. Rounds * Len(t) >= 1
      BY <1>6
    <3>2. Len(t) = 0 => Rounds * Len(t) = 0
      BY <1>2
    <3> QED BY <1>5, <3>1, <3>2
  <2>2. i - 1 \in Int
    BY <1>6
  <2>3. (i - 1) % Len(t) \in 0 .. Len(t) - 1
    BY <1>5, <2>1, <2>2
  <2>4. ((i - 1) % Len(t)) + 1 \in 1..Len(t)
    BY <1>5, <2>3
  <2> QED BY <1>5, <2>4
<1> HIDE DEF Rounds
<1> QED BY <1>3, <1>6, <1>7

\* What the others stand at is not disturbed when one of them steps: those whose
\* configuration it replaces are marked.
LEMMA OtherRequestsKeep ==
  ASSUME RouterInv, NEW c \in Callers, NEW d \in Callers \ {c},
         line'[d] = line[d], nth'[d] = nth[d], left'[d] = left[d], asking'[d] = asking[d],
         astray'[d] = astray[d], unwritten'[d] = unwritten[d],
         \/ UNCHANGED configured /\ (d \in mixed' <=> d \in mixed)
         \/ \E k \in Keys : Configure(c, k)
  PROVE  /\ asking'[d] = "configured" => AtCandidate(d)'
         /\ asking'[d] = "failed" => \A i \in DOMAIN line'[d] : Accounted(d, i)'
<1>1. asking[d] = "failed" => \A i \in DOMAIN line[d] : Accounted(d, i)
  BY DEF RouterInv, WorkingKeyAnswers, Accounted
<1>2. \A i : Accounted(d, i)' <=> Accounted(d, i)
  BY DEF Accounted
<1>3. ASSUME asking[d] = "configured" PROVE d \notin mixed' => configured' = configured /\ d \notin mixed
  BY <1>3 DEF Configure
<1>4. asking[d] = "configured" => AtCandidate(d)
  BY DEF RouterInv
<1> QED BY <1>1, <1>2, <1>3, <1>4 DEF AtCandidate, Candidate

\* A step of one request: what it writes is well typed and its own.
RequestMoves(c) ==
  /\ keyOn' = keyOn /\ modelOn' = modelOn
  /\ line' \in [Callers -> Seq(Keys)] /\ nth' \in [Callers -> Nat] /\ left' \in [Callers -> Nat]
  /\ asking' \in [Callers -> {"no", "configured", "answered", "failed", "broken"}]
  /\ astray' \in [Callers -> SUBSET (Nat \X Nat)] /\ unwritten' \in [Callers -> SUBSET Nat]
  /\ \A d \in Callers \ {c} :
       /\ line'[d] = line[d] /\ nth'[d] = nth[d] /\ left'[d] = left[d] /\ asking'[d] = asking[d]
       /\ astray'[d] = astray[d] /\ unwritten'[d] = unwritten[d]
  /\ \/ UNCHANGED configured /\ \A d \in Callers \ {c} : d \in mixed' <=> d \in mixed
     \/ \E k \in Keys : Configure(c, k)

\* It keeps the invariant if it leaves that request in order.
LEMMA RequestKeeps ==
  ASSUME RouterInv, NEW c \in Callers, RequestMoves(c),
         asking'[c] = "configured" => AtCandidate(c)',
         asking'[c] = "failed" => \A i \in DOMAIN line'[c] : Accounted(c, i)'
  PROVE  RouterInv'
<1>1. ASSUME NEW d \in Callers \ {c}
      PROVE  /\ asking'[d] = "configured" => AtCandidate(d)'
             /\ asking'[d] = "failed" => \A i \in DOMAIN line'[d] : Accounted(d, i)'
  BY <1>1, OtherRequestsKeep DEF RequestMoves
<1>2. \A d \in Callers : asking'[d] = "configured" => AtCandidate(d)'
  BY <1>1
<1>3. \A d \in Callers : asking'[d] = "failed" => \A i \in DOMAIN line'[d] : Accounted(d, i)'
  BY <1>1
<1>4. WorkingKeyAnswers'
  BY <1>3 DEF WorkingKeyAnswers, Accounted
<1> QED BY <1>2, <1>4 DEF RouterInv, RequestMoves

LEMMA AttemptsAreMade ==
  ASSUME NEW c \in Callers PROVE Attempts[c] \in Nat /\ Attempts[c] > 0
<1>1. Attempts[c] \in Nat \ {0}
  BY RouterAssumption
<1> QED BY <1>1

\* What a request has on record when one of its candidates is passed over.
RecordOf(c, A, U) ==
  \A i \in 1..nth[c] : \/ line[c][i] \in Faulty \/ i \in U
                        \/ \A a \in 1..Attempts[c] : <<i, a>> \in A

LEMMA PassingKeeps ==
  ASSUME RouterInv, NEW c \in Callers, asking[c] = "configured", PassesOver(c) \/ MarkRaises(c),
         NEW A \in SUBSET (Nat \X Nat), NEW U \in SUBSET Nat, RecordOf(c, A, U),
         keyOn' = keyOn, modelOn' = modelOn, line' = line,
         astray' = [astray EXCEPT ![c] = A], unwritten' = [unwritten EXCEPT ![c] = U]
  PROVE  RouterInv'
<1>0. /\ line[c] \in Seq(Keys) /\ Len(line[c]) \in Nat /\ DOMAIN line[c] = 1..Len(line[c])
      /\ nth[c] \in 1..Len(line[c]) /\ nth[c] \in Nat
      /\ line'[c] = line[c] /\ astray'[c] = A /\ unwritten'[c] = U
  BY DEF RouterInv, AtCandidate
<1>1. /\ line[c] \in Seq(Keys) /\ Len(line[c]) \in Nat /\ DOMAIN line[c] = 1..Len(line[c])
      /\ nth[c] \in 1..Len(line[c]) /\ nth[c] \in Nat /\ Attempts[c] \in Nat /\ Attempts[c] > 0
      /\ line'[c] = line[c] /\ astray'[c] = A /\ unwritten'[c] = U
  BY <1>0, AttemptsAreMade
<1>2. \A i \in 1..nth[c] : Accounted(c, i)'
  BY <1>1 DEF RecordOf, Accounted
<1>3. CASE MarkRaises(c)
  <2>1. RequestMoves(c) /\ asking'[c] = "broken"
    BY <1>3 DEF MarkRaises, RouterInv, RequestMoves
  <2> QED BY <2>1, RequestKeeps
<1>4. CASE PassesOver(c) /\ nth[c] = Len(line[c])
  <2>1. RequestMoves(c) /\ asking'[c] = "failed"
    BY <1>1, <1>4 DEF PassesOver, RouterInv, RequestMoves
  <2>2. \A i \in DOMAIN line'[c] : Accounted(c, i)'
    BY <1>1, <1>2, <1>4
  <2> QED BY <2>1, <2>2, RequestKeeps
<1>5. CASE PassesOver(c) /\ nth[c] # Len(line[c])
  <2>1. /\ nth' = [nth EXCEPT ![c] = nth[c] + 1] /\ left' = [left EXCEPT ![c] = Attempts[c]]
        /\ asking' = asking /\ Configure(c, line[c][nth[c] + 1])
    BY <1>5 DEF PassesOver, RouterInv
  <2>2. nth[c] + 1 \in 1..Len(line[c]) /\ nth[c] + 1 \in Nat /\ line[c][nth[c] + 1] \in Keys
    BY <1>1, <1>5
  <2>3. AtCandidate(c)'
    <3>1. nth'[c] = nth[c] + 1 /\ left'[c] = Attempts[c] /\ configured' = line[c][nth[c] + 1]
      BY <2>1 DEF RouterInv, Configure
    <3>2. \A i \in 1..nth'[c] - 1 : Accounted(c, i)'
      BY <1>1, <1>2, <3>1
    <3>3. left'[c] + 1..Attempts[c] = {} /\ left'[c] \in 1..Attempts[c]
      BY <1>1, <3>1
    <3> QED BY <1>1, <2>2, <3>1, <3>2, <3>3 DEF AtCandidate, Candidate
  <2>4. RequestMoves(c)
    <3>1. \E k \in Keys : Configure(c, k)
      BY <2>1, <2>2
    <3> QED BY <1>1, <2>1, <2>2, <3>1 DEF RouterInv, RequestMoves
  <2>5. asking'[c] = "configured"
    BY <2>1
  <2> QED BY <2>3, <2>4, <2>5, RequestKeeps
<1> QED BY <1>3, <1>4, <1>5

\* A failed call is on record: its key fails, or it went astray.
AstrayOf(c) == astray[c] \cup (IF c \in mixed THEN {<<nth[c], left[c]>>} ELSE {})

LEMMA CallRecorded ==
  ASSUME RouterInv, NEW c \in Callers, CallFails(c)
  PROVE  /\ AstrayOf(c) \in SUBSET (Nat \X Nat)
         /\ Candidate(c) \in Faulty \/ \A a \in left[c]..Attempts[c] : <<nth[c], a>> \in AstrayOf(c)
         /\ \A i \in 1..nth[c] - 1 : \/ line[c][i] \in Faulty \/ i \in unwritten[c]
                                     \/ \A a \in 1..Attempts[c] : <<i, a>> \in AstrayOf(c)
         /\ astray' = [astray EXCEPT ![c] = AstrayOf(c)]
<1>1. AtCandidate(c) /\ nth[c] \in Nat /\ left[c] \in Nat /\ astray[c] \in SUBSET (Nat \X Nat)
  BY DEF RouterInv, CallFails
<1>2. astray[c] \subseteq AstrayOf(c) /\ (c \in mixed => <<nth[c], left[c]>> \in AstrayOf(c))
  BY DEF AstrayOf
<1>3. c \notin mixed => Candidate(c) \in Faulty
  BY <1>1 DEF AtCandidate, CallFails
<1>4. ASSUME Candidate(c) \notin Faulty, NEW a \in left[c]..Attempts[c] PROVE <<nth[c], a>> \in AstrayOf(c)
  <2>1. a = left[c] \/ a \in left[c] + 1..Attempts[c]
    BY <1>1, <1>4, AttemptsAreMade
  <2> QED BY <1>1, <1>2, <1>3, <1>4, <2>1 DEF AtCandidate
<1>5. AstrayOf(c) \in SUBSET (Nat \X Nat)
  BY <1>1 DEF AstrayOf
<1>6. astray' = [astray EXCEPT ![c] = AstrayOf(c)]
  BY DEF CallFails, AstrayOf
<1> QED BY <1>1, <1>2, <1>4, <1>5, <1>6 DEF AtCandidate, Accounted

LEMMA RouterStepKeeps ==
  ASSUME RouterInv, NEW c \in Callers, RouterStep(c) PROVE RouterInv'
<1>0. asking[c] = "configured" /\ AtCandidate(c)
  BY DEF RouterStep, Answered, TriesAgain, FallsBack, CallFails, AnswerUnwritten, RouterInv
<1>1. /\ line[c] \in Seq(Keys) /\ nth[c] \in 1..Len(line[c]) /\ nth[c] \in Nat
      /\ left[c] \in 1..Attempts[c] /\ left[c] \in Nat /\ Attempts[c] \in Nat /\ Candidate(c) \in Keys
      /\ astray[c] \in SUBSET (Nat \X Nat) /\ unwritten[c] \in SUBSET Nat
  BY <1>0, RouterAssumption DEF AtCandidate, Candidate, RouterInv
<1> DEFINE A == AstrayOf(c)
<1>2. CASE Answered(c)
  <2>1. RequestMoves(c) /\ asking'[c] = "answered"
    BY <1>2 DEF Answered, RouterInv, RequestMoves
  <2> QED BY <2>1, RequestKeeps
<1>3. ASSUME CallFails(c)
      PROVE  /\ A \in SUBSET (Nat \X Nat)
             /\ Candidate(c) \in Faulty \/ \A a \in left[c]..Attempts[c] : <<nth[c], a>> \in A
             /\ \A i \in 1..nth[c] - 1 : \/ line[c][i] \in Faulty \/ i \in unwritten[c]
                                         \/ \A a \in 1..Attempts[c] : <<i, a>> \in A
             /\ astray' = [astray EXCEPT ![c] = A]
  BY <1>3, CallRecorded
<1> HIDE DEF A
<1>5. CASE TriesAgain(c)
  <2>1. /\ keyOn' = keyOn /\ modelOn' = modelOn /\ line' = line /\ nth' = nth /\ asking' = asking
        /\ unwritten' = unwritten /\ left' = [left EXCEPT ![c] = left[c] - 1]
        /\ Configure(c, Candidate(c)) /\ CallFails(c) /\ left[c] > 1
    BY <1>5 DEF TriesAgain, CallFails
  <2>2. left[c] - 1 \in Nat /\ left[c] - 1 \in 1..Attempts[c]
    BY <1>1, <2>1
  <2>3. AtCandidate(c)'
    <3>1. /\ line'[c] = line[c] /\ nth'[c] = nth[c] /\ left'[c] = left[c] - 1 /\ astray'[c] = A
          /\ unwritten'[c] = unwritten[c] /\ configured' = Candidate(c)
      BY <1>3, <2>1 DEF RouterInv, Configure
    <3>2. left'[c] + 1 = left[c]
      BY <1>1, <3>1
    <3> QED BY <1>1, <1>3, <2>1, <2>2, <3>1, <3>2 DEF AtCandidate, Candidate, Accounted
  <2>4. RequestMoves(c)
    <3>1. \E k \in Keys : Configure(c, k)
      BY <1>1, <2>1
    <3> QED BY <1>1, <1>3, <2>1, <2>2, <3>1 DEF RouterInv, RequestMoves
  <2> QED BY <1>0, <2>1, <2>3, <2>4, RequestKeeps
<1>6. CASE FallsBack(c)
  <2>1. /\ keyOn' = keyOn /\ modelOn' = modelOn /\ line' = line /\ CallFails(c) /\ left[c] = 1
        /\ PassesOver(c) \/ MarkRaises(c)
        /\ unwritten' = unwritten
    BY <1>6 DEF FallsBack, CallFails
  <2>2. unwritten' = [unwritten EXCEPT ![c] = unwritten[c]]
    BY <2>1 DEF RouterInv
  <2>3. RecordOf(c, A, unwritten[c])
    <3>1. \A i \in 1..nth[c] : i \in 1..nth[c] - 1 \/ i = nth[c]
      BY <1>1
    <3> QED BY <1>3, <2>1, <3>1 DEF RecordOf, Candidate
  <2>4. astray' = [astray EXCEPT ![c] = A] /\ A \in SUBSET (Nat \X Nat)
    BY <1>3, <2>1
  <2> QED BY <1>0, <1>1, <2>1, <2>2, <2>3, <2>4, PassingKeeps
<1>7. CASE AnswerUnwritten(c)
  <2> DEFINE U == unwritten[c] \cup {nth[c]}
  <2>1. /\ keyOn' = keyOn /\ modelOn' = modelOn /\ line' = line /\ astray' = astray
        /\ unwritten' = [unwritten EXCEPT ![c] = U]
        /\ PassesOver(c) \/ MarkRaises(c)
    BY <1>7 DEF AnswerUnwritten
  <2>2. U \in SUBSET Nat
    BY <1>1
  <2>3. RecordOf(c, astray[c], U)
    <3>1. \A i \in 1..nth[c] : i \in 1..nth[c] - 1 \/ i = nth[c]
      BY <1>1
    <3> QED BY <1>0, <3>1 DEF RecordOf, AtCandidate, Accounted
  <2>4. astray' = [astray EXCEPT ![c] = astray[c]]
    BY <2>1 DEF RouterInv
  <2> HIDE DEF U
  <2> QED BY <1>0, <1>1, <2>1, <2>2, <2>3, <2>4, PassingKeeps
<1> QED BY <1>2, <1>5, <1>6, <1>7 DEF RouterStep

LEMMA AskKeeps ==
  ASSUME RouterInv, NEW c \in Callers, AskFor(c), asking[c] = "no" PROVE RouterInv'
<1>1. PICK s \in CandidateLines :
        /\ line' = [line EXCEPT ![c] = s] /\ nth' = [nth EXCEPT ![c] = 1]
        /\ left' = [left EXCEPT ![c] = Attempts[c]]
        /\ IF s = <<>> THEN asking' = [asking EXCEPT ![c] = "failed"] /\ UNCHANGED <<configured, mixed>>
           ELSE asking' = [asking EXCEPT ![c] = "configured"] /\ Configure(c, Head(s))
        /\ UNCHANGED <<storeVars, astray, unwritten>>
  BY DEF AskFor
<1>2. /\ s \in Seq(Keys) /\ 1 \in Nat /\ Attempts[c] \in Nat /\ Attempts[c] > 0
      /\ line'[c] = s /\ nth'[c] = 1 /\ left'[c] = Attempts[c]
  <2>1. s \in Seq(Keys)
    BY LinesAreKeys DEF RouterInv
  <2> QED BY <1>1, <2>1, AttemptsAreMade DEF RouterInv
<1>3. CASE s = <<>>
  <2>1. DOMAIN s = {}
    BY <1>3
  <2>2. RequestMoves(c) /\ asking'[c] = "failed"
    BY <1>1, <1>2, <1>3 DEF RequestMoves, RouterInv, storeVars
  <2> QED BY <1>2, <2>1, <2>2, RequestKeeps
<1>4. CASE s # <<>>
  <2>1. Head(s) = s[1] /\ 1 \in 1..Len(s) /\ s[1] \in Keys /\ Configure(c, s[1])
    BY <1>1, <1>2, <1>4
  <2>2. AtCandidate(c)'
    <3>1. left'[c] \in 1..Attempts[c] /\ left'[c] + 1..Attempts[c] = {} /\ 1..nth'[c] - 1 = {}
      BY <1>2
    <3>2. configured' = s[1]
      BY <2>1 DEF Configure
    <3> QED BY <1>2, <2>1, <3>1, <3>2 DEF AtCandidate, Candidate
  <2>3. RequestMoves(c)
    BY <1>1, <1>2, <1>4, <2>1 DEF RequestMoves, RouterInv, storeVars
  <2>4. asking'[c] = "configured"
    BY <1>1, <1>4 DEF RouterInv
  <2> QED BY <2>2, <2>3, <2>4, RequestKeeps
<1> QED BY <1>3, <1>4

LEMMA RouterKeeps ==
  ASSUME RouterInv, [TikTokNext]_tikTokVars PROVE RouterInv'
<1>1. ASSUME UNCHANGED routerVars PROVE RouterInv'
  BY <1>1 DEF RouterInv, AtCandidate, Candidate, Accounted, WorkingKeyAnswers, routerVars, storeVars, callVars
<1>2. ASSUME NEW c \in Callers, InfoStep(c) PROVE RouterInv'
  <2>1. CASE OpenShop(c) \/ ReadShop(c)
    BY <1>1, <2>1 DEF OpenShop, ReadShop
  <2>2. CASE AskAi(c)
    BY <2>2, AskKeeps DEF AskAi
  <2>3. CASE AiAnswers(c)
    BY <2>3, RouterStepKeeps DEF AiAnswers
  <2>4. ASSUME Forgets(c) PROVE RouterInv'
    <3>1. RequestMoves(c) /\ asking'[c] = "no"
      BY <2>4 DEF Forgets, RequestMoves, RouterInv, storeVars
    <3> QED BY <3>1, RequestKeeps
  <2> QED BY <1>2, <2>1, <2>2, <2>3, <2>4 DEF InfoStep, Refine, TakeAnswer
<1>3. CASE OperatorEdits
  <2>1. keyOn' \subseteq Keys /\ modelOn' \subseteq Models
    BY <1>3 DEF OperatorEdits, MakeDefault, RouterInv
  <2> QED BY <1>3, <2>1 DEF OperatorEdits, callVars, RouterInv, AtCandidate, Candidate, Accounted, WorkingKeyAnswers
<1>4. CASE UNCHANGED tikTokVars
  BY <1>1, <1>4 DEF tikTokVars
<1> QED BY <1>1, <1>2, <1>3, <1>4 DEF TikTokNext

\* However the requests, the operator's edits, the library's one configuration
\* and the refused writes of the store interleave: "all providers failed" is true
\* of each candidate by itself.
THEOREM WorkingKeysAnswer == TikTokSpec => []WorkingKeyAnswers
<1>1. TikTokInit => RouterInv
  BY DEF TikTokInit, RouterInit, RouterInv, WorkingKeyAnswers
<1>2. RouterInv /\ [TikTokNext]_tikTokVars => RouterInv'
  BY RouterKeeps
<1>3. RouterInv => WorkingKeyAnswers
  BY DEF RouterInv
<1> QED BY <1>1, <1>2, <1>3, PTL DEF TikTokSpec

-----------------------------------------------------------------------------
(* The words of a product: what is handed on can be searched               *)

Texts == Seq(Words)

\* A list of queries as search_tiktok wants them.
Searchable ==
  {qs \in Seq(Texts) : /\ Len(qs) <= MaxQueries
                       /\ \A i, j \in 1..Len(qs) : qs[i] = qs[j] => i = j
                       /\ \A i \in 1..Len(qs) : ValidSearchQuery(qs[i])}

\* What is left of a sequence is a sequence of what it kept.
LEMMA SiftedFacts ==
  ASSUME NEW C, NEW s \in Seq(C), NEW A \in SUBSET DOMAIN s
  PROVE  /\ Sifted(s, A) \in Seq({s[i] : i \in A})
         /\ Sifted(s, A) \in Seq(C)
<1> DEFINE p == [n \in 1..Cardinality(A) |-> CHOOSE i \in A : Rank(A, i) = n]
<1>1. DOMAIN s = 1..Len(s) /\ Len(s) \in Nat /\ \A i \in A : s[i] \in C
  OBVIOUS
<1>2. IsFiniteSet(A) /\ A \subseteq Nat \ {0} /\ Cardinality(A) \in Nat
  <2>1. IsFiniteSet(1..Len(s)) /\ A \subseteq 1..Len(s)
    BY <1>1, FS_Interval
  <2> QED BY <2>1, FS_Subset, FS_CardinalityType
<1>3. p \in Bijection(1..Cardinality(A), A)
  BY <1>2, PlacesInOrder
<1>4. \A n \in 1..Cardinality(A) : p[n] \in A
  BY <1>3 DEF Bijection, Injection
<1>5. Sifted(s, A) = [n \in 1..Cardinality(A) |-> s[p[n]]]
  BY DEF Sifted, Rank
<1> HIDE DEF p
<1>6. [n \in 1..Cardinality(A) |-> s[p[n]]] \in Seq({s[i] : i \in A})
  <2> DEFINE V == {s[i] : i \in A}
  <2>1. \A n \in 1..Cardinality(A) : s[p[n]] \in V
    BY <1>4
  <2> HIDE DEF V
  <2>2. [n \in 1..Cardinality(A) |-> s[p[n]]] \in Seq(V)
    BY <1>2, <2>1
  <2> QED BY <2>2 DEF V
<1>7. [n \in 1..Cardinality(A) |-> s[p[n]]] \in Seq(C)
  <2>1. \A n \in 1..Cardinality(A) : s[p[n]] \in C
    BY <1>1, <1>4
  <2> QED BY <1>2, <2>1
<1> QED BY <1>5, <1>6, <1>7

\* A query that _clean_search_query lets through is one search_tiktok accepts:
\* two to five words, none of them blank.
LEMMA Cleaned ==
  ASSUME NEW q \in Texts
  PROVE  CleanQuery(q) \in Texts /\ (CleanQuery(q) # <<>> => ValidSearchQuery(CleanQuery(q)))
<1> DEFINE A == {i \in DOMAIN q : q[i] \notin Blanks \cup Stops}
           ts == Sifted(q, A)
<1>1. CleanQuery(q) = IF Len(ts) \in 2..5 /\ (Telling(ts) \/ \E w \in Range(ts) : w \in Wordy) THEN ts ELSE <<>>
  BY DEF CleanQuery, Those
<1>2. ts \in Seq({q[i] : i \in A}) /\ ts \in Texts
  BY SiftedFacts DEF Texts
<1>3. \A i \in 1..Len(ts) : ts[i] \notin Blanks
  <2> DEFINE V == {q[i] : i \in A}
  <2>1. \A w \in V : w \notin Blanks
    OBVIOUS
  <2> HIDE DEF V, ts
  <2>2. \A i \in 1..Len(ts) : ts[i] \in V
    BY <1>2 DEF V
  <2> QED BY <2>1, <2>2
<1> HIDE DEF ts
<1>4. Len(ts) \in 2..5 => \E w \in Range(ts) : w \notin Blanks
  <2>1. DOMAIN ts = 1..Len(ts)
    BY <1>2 DEF Texts
  <2> QED BY <1>3, <2>1 DEF Range
<1>5. <<>> \in Texts
  BY DEF Texts
<1> QED BY <1>1, <1>2, <1>4, <1>5 DEF ValidSearchQuery

\* _add_query keeps a list within its limit and without repetitions.
LEMMA QueryAdded ==
  ASSUME NEW qs \in Searchable, NEW q \in Texts
  PROVE  AddQuery(qs, q) \in Searchable
<1> DEFINE c == CleanQuery(q)
<1>1. c \in Texts /\ (c # <<>> => ValidSearchQuery(c))
  BY Cleaned
<1>2. AddQuery(qs, q) = IF c = <<>> \/ Contains(qs, c) \/ Len(qs) = 5 THEN qs ELSE Append(qs, c)
  BY DEF AddQuery, MaxQueries
<1> HIDE DEF c
<1>3. CASE c # <<>> /\ ~Contains(qs, c) /\ Len(qs) # 5
  <2>1. qs \in Seq(Texts) /\ Len(qs) \in Nat /\ Len(qs) <= 5
    BY DEF Searchable, MaxQueries
  <2>2. \A i, j \in 1..Len(qs) : qs[i] = qs[j] => i = j
    BY DEF Searchable
  <2>3. \A i \in 1..Len(qs) : ValidSearchQuery(qs[i]) /\ qs[i] # c
    BY <1>3 DEF Searchable, Contains
  <2>4. /\ Append(qs, c) \in Seq(Texts) /\ Len(Append(qs, c)) = Len(qs) + 1
        /\ \A i \in 1..Len(qs) : Append(qs, c)[i] = qs[i]
        /\ Append(qs, c)[Len(qs) + 1] = c
    BY <1>1, <2>1
  <2>5. \A i \in 1..Len(qs) + 1 : i \in 1..Len(qs) \/ i = Len(qs) + 1
    BY <2>1
  <2> DEFINE a == Append(qs, c)
  <2> HIDE DEF a
  <2>6. a \in Seq(Texts) /\ Len(a) = Len(qs) + 1 /\ a[Len(qs) + 1] = c /\ \A i \in 1..Len(qs) : a[i] = qs[i]
    BY <2>4 DEF a
  <2>7. \A i, j \in 1..Len(a) : a[i] = a[j] => i = j
    BY <2>2, <2>3, <2>5, <2>6
  <2>8. \A i \in 1..Len(a) : ValidSearchQuery(a[i])
    BY <1>1, <1>3, <2>3, <2>5, <2>6
  <2>9. Len(a) <= 5
    <3> DEFINE l == Len(qs)
    <3>1. l \in Nat /\ l <= 5 /\ l # 5 /\ Len(a) = l + 1
      BY <1>3, <2>1, <2>6 DEF MaxQueries
    <3> HIDE DEF l
    <3> QED BY <3>1
  <2> QED BY <1>2, <1>3, <2>6, <2>7, <2>8, <2>9 DEF Searchable, MaxQueries, a
<1> QED BY <1>2, <1>3

\* Whatever is proposed, in whatever order.
LEMMA QueriesAdded ==
  ASSUME NEW proposed \in Seq(Texts)
  PROVE  FoldLeft(AddQuery, <<>>, proposed) \in Searchable
<1> DEFINE D == DOMAIN proposed
           none == <<>>
           Raw(g) == g = [s \in SUBSET D |-> IF s = {} THEN none
                                             ELSE AddQuery(g[s \ {Max(s)}], proposed[Max(s)])]
           made == CHOOSE g : Raw(g)
           step == [p \in D \X Searchable |-> AddQuery(p[2], proposed[p[1]])]
<1>1. FoldLeft(AddQuery, <<>>, proposed) = made[D]
  BY DEF FoldLeft, MapThenFoldSet
<1>2. FiniteInts(D)
  BY FS_Interval DEF FiniteInts
<1>3. none \in Searchable
  BY DEF Searchable, MaxQueries
<1>4. \A i \in D, v \in Searchable : AddQuery(v, proposed[i]) \in Searchable
  BY QueryAdded
<1>5. step \in [D \X Searchable -> Searchable]
  BY <1>4
<1> HIDE DEF D, none, step
<1>6. \E h \in [SUBSET D -> Searchable] : LeftFolded(h, D, none, step)
  BY <1>2, <1>3, <1>5, LeftFoldExists
<1>6a. PICK h \in [SUBSET D -> Searchable] : LeftFolded(h, D, none, step)
  BY <1>6
<1>7. Raw(h)
  <2>1. \A s \in SUBSET D : s # {} => h[s] = AddQuery(h[s \ {Max(s)}], proposed[Max(s)])
    BY <1>6a DEF step, LeftFolded
  <2> QED BY <1>6a, <2>1 DEF LeftFolded
<1>8. Raw(made)
  BY <1>7 DEF made
<1> HIDE DEF made
<1>9. StaysIn(made, D, Searchable)
  <2>1. made[{}] \in Searchable
    BY <1>3, <1>8
  <2>2. ASSUME NEW s \in SUBSET D, s # {}, Max(s) \in s, made[s \ {Max(s)}] \in Searchable
        PROVE  made[s] \in Searchable
    <3>1. made[s] = AddQuery(made[s \ {Max(s)}], proposed[Max(s)])
      BY <1>8, <2>2
    <3>2. Max(s) \in D
      BY <2>2
    <3> QED BY <1>4, <2>2, <3>1, <3>2
  <2> QED BY <2>1, <2>2 DEF StaysIn
<1>10. made[D] \in Searchable
  BY <1>2, <1>9, LeftFoldStays
<1> QED BY <1>1, <1>10

\* _add_keyword adds a text or nothing.
LEMMA KeywordAdded ==
  ASSUME NEW ks \in Seq(Texts), NEW k \in Texts
  PROVE  AddKeyword(ks, k) \in Seq(Texts)
<1>1. CleanKeyword(k) = <<>> \/ CleanKeyword(k) = k
  BY DEF CleanKeyword
<1> QED BY <1>1 DEF AddKeyword

\* A list of keywords stays one, whatever is added to it.
LEMMA KeywordsFolded ==
  ASSUME NEW base \in Seq(Texts), NEW more \in Seq(Texts)
  PROVE  FoldLeft(AddKeyword, base, more) \in Seq(Texts)
<1> DEFINE D == DOMAIN more
           Raw(g) == g = [s \in SUBSET D |-> IF s = {} THEN base
                                             ELSE AddKeyword(g[s \ {Max(s)}], more[Max(s)])]
           made == CHOOSE g : Raw(g)
           step == [p \in D \X Seq(Texts) |-> AddKeyword(p[2], more[p[1]])]
<1>1. FoldLeft(AddKeyword, base, more) = made[D]
  BY DEF FoldLeft, MapThenFoldSet
<1>2. FiniteInts(D)
  BY FS_Interval DEF FiniteInts
<1>3. \A i \in D, v \in Seq(Texts) : AddKeyword(v, more[i]) \in Seq(Texts)
  BY KeywordAdded
<1>4. step \in [D \X Seq(Texts) -> Seq(Texts)]
  BY <1>3
<1> HIDE DEF D, step
<1>5. \E h \in [SUBSET D -> Seq(Texts)] : LeftFolded(h, D, base, step)
  BY <1>2, <1>4, LeftFoldExists
<1>6. PICK h \in [SUBSET D -> Seq(Texts)] : LeftFolded(h, D, base, step)
  BY <1>5
<1>7. Raw(h)
  <2>1. \A s \in SUBSET D : s # {} => h[s] = AddKeyword(h[s \ {Max(s)}], more[Max(s)])
    BY <1>6 DEF step, LeftFolded
  <2> QED BY <1>6, <2>1 DEF LeftFolded
<1>8. Raw(made)
  BY <1>7 DEF made
<1> HIDE DEF made
<1>9. StaysIn(made, D, Seq(Texts))
  <2>1. made[{}] \in Seq(Texts)
    BY <1>8
  <2>2. ASSUME NEW s \in SUBSET D, s # {}, Max(s) \in s, made[s \ {Max(s)}] \in Seq(Texts)
        PROVE  made[s] \in Seq(Texts)
    <3>1. made[s] = AddKeyword(made[s \ {Max(s)}], more[Max(s)])
      BY <1>8, <2>2
    <3>2. Max(s) \in D
      BY <2>2
    <3> QED BY <1>3, <2>2, <3>1, <3>2
  <2> QED BY <2>1, <2>2 DEF StaysIn
<1>10. made[D] \in Seq(Texts)
  BY <1>2, <1>9, LeftFoldStays
<1> QED BY <1>1, <1>10

\* The title and the keywords, read as one text.
LEMMA TextsJoined ==
  ASSUME NEW base \in Texts, NEW ks \in Seq(Texts)
  PROVE  FoldLeft(LAMBDA text, k : text \o k, base, ks) \in Texts
<1> DEFINE D == DOMAIN ks
           Raw(g) == g = [s \in SUBSET D |-> IF s = {} THEN base
                                             ELSE g[s \ {Max(s)}] \o ks[Max(s)]]
           made == CHOOSE g : Raw(g)
           step == [p \in D \X Texts |-> p[2] \o ks[p[1]]]
<1>1. FoldLeft(LAMBDA text, k : text \o k, base, ks) = made[D]
  BY DEF FoldLeft, MapThenFoldSet
<1>2. FiniteInts(D)
  BY FS_Interval DEF FiniteInts
<1>3. \A i \in D, v \in Texts : v \o ks[i] \in Texts
  BY DEF Texts
<1>4. step \in [D \X Texts -> Texts]
  BY <1>3
<1> HIDE DEF D, step
<1>5. \E h \in [SUBSET D -> Texts] : LeftFolded(h, D, base, step)
  BY <1>2, <1>4, LeftFoldExists
<1>6. PICK h \in [SUBSET D -> Texts] : LeftFolded(h, D, base, step)
  BY <1>5
<1>7. Raw(h)
  <2>1. \A s \in SUBSET D : s # {} => h[s] = h[s \ {Max(s)}] \o ks[Max(s)]
    BY <1>6 DEF step, LeftFolded
  <2> QED BY <1>6, <2>1 DEF LeftFolded
<1>8. Raw(made)
  BY <1>7 DEF made
<1> HIDE DEF made
<1>9. StaysIn(made, D, Texts)
  <2>1. made[{}] \in Texts
    BY <1>8
  <2>2. ASSUME NEW s \in SUBSET D, s # {}, Max(s) \in s, made[s \ {Max(s)}] \in Texts
        PROVE  made[s] \in Texts
    <3>1. made[s] = made[s \ {Max(s)}] \o ks[Max(s)]
      BY <1>8, <2>2
    <3>2. Max(s) \in D
      BY <2>2
    <3> QED BY <1>3, <2>2, <3>1, <3>2
  <2> QED BY <2>1, <2>2 DEF StaysIn
<1>10. made[D] \in Texts
  BY <1>2, <1>9, LeftFoldStays
<1> QED BY <1>1, <1>10

\* The first elements of a sequence are a sequence of its elements.
LEMMA CutShort ==
  ASSUME NEW C, NEW s \in Seq(C), NEW n \in Nat
  PROVE  UpToLen(n, s) \in Seq(C)
<1> DEFINE m == IF Len(s) < n THEN Len(s) ELSE n
<1>1. m \in Nat /\ m <= Len(s)
  OBVIOUS
<1>2. UpToLen(n, s) = SubSeq(s, 1, m)
  BY DEF UpToLen
<1> HIDE DEF m
<1> QED BY <1>1, <1>2

\* _add_keywords, with its limit, returns keywords.
LEMMA KeywordsAdded ==
  ASSUME NEW ks \in Seq(Texts), NEW more \in Seq(Texts), NEW limit \in Nat
  PROVE  AddKeywords(ks, more, limit) \in Seq(Texts)
<1>1. FoldLeft(AddKeyword, ks, more) \in Seq(Texts)
  BY KeywordsFolded
<1>2. UpToLen(limit, FoldLeft(AddKeyword, ks, more)) \in Seq(Texts)
  BY <1>1, CutShort
<1> QED BY <1>2 DEF AddKeywords

\* Neighbouring words of a text are texts.
LEMMA PhrasesAreTexts ==
  ASSUME NEW ts \in Texts, NEW n \in Nat \ {0}
  PROVE  Windows(ts, n) \in Seq(Texts) /\ Singles(ts) \in Seq(Texts)
<1> DEFINE l == IF Len(ts) < n THEN 0 ELSE Len(ts) - n + 1
<1>1. ts \in Seq(Words) /\ Len(ts) \in Nat /\ DOMAIN ts = 1..Len(ts)
  BY DEF Texts
<1>2. l \in Nat /\ (l # 0 => l + n - 1 = Len(ts))
  BY <1>1
<1>3. Windows(ts, n) = [i \in 1..l |-> SubSeq(ts, i, i + n - 1)]
  BY DEF Windows
<1> HIDE DEF l
<1>4. ASSUME NEW i \in 1..l PROVE SubSeq(ts, i, i + n - 1) \in Texts
  <2>1. i \in Int /\ 1 <= i /\ i + n - 1 <= Len(ts) /\ i + n - 1 \in Int
    BY <1>1, <1>2
  <2> DEFINE j == i + n - 1
  <2>2. j \in Int /\ j <= Len(ts)
    BY <2>1
  <2> HIDE DEF j
  <2>3. SubSeq(ts, i, j) \in Seq(Words)
    BY <1>1, <2>1, <2>2
  <2> QED BY <2>3 DEF Texts, j
<1>5. Windows(ts, n) \in Seq(Texts)
  BY <1>2, <1>3, <1>4
<1>6. \A i \in 1..Len(ts) : <<ts[i]>> \in Texts
  BY <1>1 DEF Texts
<1>7. Singles(ts) \in Seq(Texts)
  BY <1>1, <1>6 DEF Singles
<1> QED BY <1>5, <1>7

\* The keywords a title gives are texts.
LEMMA TitleKeywordsAreTexts ==
  ASSUME NEW name \in Texts
  PROVE  TitleKeywords(name) \in Seq(Texts)
<1> DEFINE ts == Those(name, LAMBDA w : w \notin Stops)
           all == Windows(ts, 5) \o Windows(ts, 4) \o Windows(ts, 3) \o Windows(ts, 2)
           phrases == Those(all, Telling)
           telling == AddKeywords(<<>>, phrases, MaxKeywords)
           own == Those(ts, LAMBDA w : w \in Nouns \cup Longish)
           named == IF Len(telling) < 5 THEN AddKeywords(telling, Singles(own), MaxKeywords) ELSE telling
           rest == Windows(ts, 3) \o Windows(ts, 2) \o Singles(ts)
<1>1. TitleKeywords(name) = IF Len(named) < 3 THEN AddKeywords(named, rest, 5) ELSE named
  BY DEF TitleKeywords
<1>2. ts \in Texts
  BY SiftedFacts DEF Those, Texts
<1> HIDE DEF ts
<1>3. Windows(ts, 5) \in Seq(Texts) /\ Windows(ts, 4) \in Seq(Texts) /\ Windows(ts, 3) \in Seq(Texts)
      /\ Windows(ts, 2) \in Seq(Texts) /\ Singles(ts) \in Seq(Texts)
  BY <1>2, PhrasesAreTexts
<1>4. all \in Seq(Texts) /\ rest \in Seq(Texts)
  BY <1>3
<1> HIDE DEF all, rest
<1>5. phrases \in Seq(Texts)
  BY <1>4, SiftedFacts DEF Those
<1> HIDE DEF phrases
<1>6. MaxKeywords \in Nat /\ 5 \in Nat
  BY DEF MaxKeywords
<1>6a. <<>> \in Seq(Texts)
  OBVIOUS
<1>7. telling \in Seq(Texts)
  BY <1>5, <1>6, <1>6a, KeywordsAdded
<1> HIDE DEF telling
<1>8. own \in Texts
  BY <1>2, SiftedFacts DEF Those, Texts
<1> HIDE DEF own
<1>9. Singles(own) \in Seq(Texts)
  BY <1>6, <1>8, PhrasesAreTexts
<1>10. named \in Seq(Texts)
  BY <1>6, <1>7, <1>9, KeywordsAdded
<1> HIDE DEF named
<1>11. AddKeywords(named, rest, 5) \in Seq(Texts)
  BY <1>4, <1>6, <1>10, KeywordsAdded
<1> QED BY <1>1, <1>10, <1>11

\* What surrounds a noun is a text.
LEMMA NearbyIsText ==
  ASSUME NEW source \in Texts, NEW noun
  PROVE  Nearby(source, noun) \in Texts
<1> DEFINE near == Those(source, LAMBDA w : w = noun \/ w \in Digits \cup Longish)
<1>1. near \in Texts
  BY SiftedFacts DEF Those, Texts
<1> HIDE DEF near
<1>2. UpToLen(5, near) \in Texts /\ <<>> \in Texts
  BY <1>1, CutShort DEF Texts
<1>3. Nearby(source, noun) = IF Len(near) >= 2 THEN UpToLen(5, near) ELSE <<>>
  BY DEF Nearby, near
<1> QED BY <1>2, <1>3

\* The order in which Python's set of nouns comes is a sequence of them.
LEMMA OrdersAreSequences ==
  ASSUME NEW order \in SetToSeqs(Nouns)
  PROVE  order \in Seq(Nouns)
<1>1. Cardinality(Nouns) \in Nat
  BY WordsAssumption, FS_CardinalityType
<1>2. order \in [1..Cardinality(Nouns) -> Nouns]
  BY DEF SetToSeqs
<1> QED BY <1>1, <1>2

\* derive_search_queries and the AI's answer, validated, give searchable lists.
LEMMA QueriesAreTexts ==
  ASSUME NEW name \in Texts, NEW keywords \in Seq(Texts), NEW order \in SetToSeqs(Nouns)
  PROVE  /\ Queries(name, keywords, order) \in Searchable
         /\ \A answers \in Seq(Texts) : Validated(answers, name, keywords, order) \in Searchable
<1> DEFINE joined == FoldLeft(LAMBDA text, k : text \o k, name, keywords)
           source == Those(joined, LAMBDA w : w \notin Stops)
           ts == Those(name, LAMBDA w : w \notin Stops)
           known == Those(Phrases, LAMBDA p : Len(p) > 1 /\ Range(p) \subseteq Range(source))
           all == Windows(ts, 5) \o Windows(ts, 4) \o Windows(ts, 3) \o Windows(ts, 2)
           phrases == Those(all, Telling)
           nouns == Those(order, LAMBDA n : n \in Range(source))
           around == [i \in DOMAIN nouns |-> Nearby(source, nouns[i])]
<1>1. Queries(name, keywords, order) = FoldLeft(AddQuery, <<>>, known \o keywords \o phrases \o around)
  BY DEF Queries
<1>2. joined \in Texts
  BY TextsJoined
<1> HIDE DEF joined
<1>3. source \in Texts /\ ts \in Texts
  BY <1>2, SiftedFacts DEF Those, Texts
<1> HIDE DEF source, ts
<1>4. known \in Seq(Texts)
  BY SiftedFacts, WordsAssumption DEF Those, Texts
<1>5. Windows(ts, 5) \in Seq(Texts) /\ Windows(ts, 4) \in Seq(Texts) /\ Windows(ts, 3) \in Seq(Texts)
      /\ Windows(ts, 2) \in Seq(Texts)
  BY <1>3, PhrasesAreTexts
<1>6. all \in Seq(Texts)
  BY <1>5
<1> HIDE DEF all, known
<1>7. phrases \in Seq(Texts)
  BY <1>6, SiftedFacts DEF Those
<1>8. nouns \in Seq(Nouns)
  BY OrdersAreSequences, SiftedFacts DEF Those
<1> HIDE DEF phrases, nouns
<1>9. around \in Seq(Texts)
  <2>1. DOMAIN nouns = 1..Len(nouns) /\ Len(nouns) \in Nat
    BY <1>8
  <2>2. \A i \in 1..Len(nouns) : Nearby(source, nouns[i]) \in Texts
    BY <1>3, NearbyIsText
  <2> QED BY <2>1, <2>2
<1> HIDE DEF around
<1>10. known \o keywords \o phrases \o around \in Seq(Texts)
  BY <1>4, <1>7, <1>9
<1>11. Queries(name, keywords, order) \in Searchable
  BY <1>1, <1>10, QueriesAdded
<1>12. ASSUME NEW answers \in Seq(Texts)
       PROVE  Validated(answers, name, keywords, order) \in Searchable
  <2>1. answers \o Queries(name, keywords, order) \in Seq(Texts)
    BY <1>11 DEF Searchable
  <2> QED BY <2>1, QueriesAdded DEF Validated
<1>13. \A answers \in Seq(Texts) : Validated(answers, name, keywords, order) \in Searchable
  BY <1>12
<1> HIDE DEF joined, source, ts, known, all, phrases, nouns, around
<1> QED BY <1>11, <1>13

-----------------------------------------------------------------------------
(* The handler                                                             *)

\* Whatever was described holds texts and a list of queries that can be searched.
WordsInv ==
  /\ read \in [1..2 -> Titles]
  /\ described \in [state : {"none", "fetched", "dom", "done", "retry", "fatal"}, title : Texts,
                    keywords : Seq(Texts), queries : Searchable]
  /\ described.state \in {"dom", "done"} => described.queries # <<>>

\* What the page and the AI give is made of words.
LEMMA WordsFacts ==
  /\ \A t \in Titles : t \in Texts
  /\ AiQueries \subseteq Seq(Texts) /\ AiKeywords \subseteq Seq(Texts)
  /\ <<>> \in Texts /\ <<>> \in Seq(Texts) /\ <<>> \in Searchable
  BY WordsAssumption DEF Texts, Searchable, MaxQueries

\* The title that was chosen is one of the candidates, or none.
LEMMA ChosenIsText ==
  ASSUME NEW candidates \in [1..2 -> Titles]
  PROVE  ChosenTitle(candidates) \in Texts
<1> DEFINE telling == Those(candidates, MeaningfulTitle)
<1>1. candidates \in Seq(Texts)
  <2>1. \A i \in 1..2 : candidates[i] \in Texts
    BY WordsFacts
  <2>2. candidates = [i \in 1..2 |-> candidates[i]] /\ 2 \in Nat
    OBVIOUS
  <2> QED BY <2>1, <2>2
<1>2. telling \in Seq(Texts)
  BY <1>1, SiftedFacts DEF Those
<1>3. ChosenTitle(candidates) = IF telling = <<>> THEN <<>> ELSE Head(telling)
  BY DEF ChosenTitle
<1> HIDE DEF telling
<1>4. telling # <<>> => Head(telling) \in Texts
  BY <1>2
<1> QED BY <1>3, <1>4, WordsFacts

\* The handler begins with nothing described.
LEMMA WordsStart == WordsInit => WordsInv
  BY WordsFacts DEF WordsInit, WordsInv, NoProductInfo

\* Reading the page: a product without a query is fatal, so "dom" has one.
LEMMA ReadsTitleKeeps == WordsInv /\ ReadsTitle => WordsInv'
<1> SUFFICES ASSUME WordsInv, ReadsTitle PROVE WordsInv'
  OBVIOUS
<1> DEFINE name == ChosenTitle(read)
           keywords == TitleKeywords(name)
<1>1. name \in Texts
  BY ChosenIsText DEF WordsInv
<1>2. PICK order \in SetToSeqs(Nouns) :
        described' = IF name = <<>> THEN Info("fetched", name, <<>>, <<>>)
                  ELSE IF Queries(name, keywords, order) = <<>> THEN Info("fatal", name, keywords, Queries(name, keywords, order))
                  ELSE Info("dom", name, keywords, Queries(name, keywords, order))
  BY DEF ReadsTitle
<1> HIDE DEF name
<1>3. keywords \in Seq(Texts)
  BY <1>1, TitleKeywordsAreTexts
<1> HIDE DEF keywords
<1> DEFINE queries == Queries(name, keywords, order)
<1>4. queries \in Searchable
  BY <1>1, <1>3, QueriesAreTexts
<1>5. described' = IF name = <<>> THEN Info("fetched", name, <<>>, <<>>)
                  ELSE IF queries = <<>> THEN Info("fatal", name, keywords, queries)
                  ELSE Info("dom", name, keywords, queries)
  BY <1>2
<1> HIDE DEF queries
<1> QED BY <1>1, <1>3, <1>4, <1>5, WordsFacts DEF WordsInv, ReadsTitle, Info

\* The AI's list replaces the page's only if it has a query.
LEMMA RefinesTitleKeeps == WordsInv /\ RefinesTitle => WordsInv'
<1> SUFFICES ASSUME WordsInv, RefinesTitle PROVE WordsInv'
  OBVIOUS
<1>1. CASE described' = [described EXCEPT !.state = "done"]
  BY <1>1 DEF WordsInv, RefinesTitle
<1>2. ASSUME NEW more \in AiKeywords, NEW answers \in AiQueries, NEW order \in SetToSeqs(Nouns),
             described' = Info("done", described.title,
               IF more = <<>> THEN described.keywords ELSE Merged(described.keywords, more),
               IF Validated(answers, described.title, Merged(described.keywords, more), order) = <<>>
               THEN described.queries ELSE Validated(answers, described.title, Merged(described.keywords, more), order))
      PROVE  WordsInv'
  <2> DEFINE merged == Merged(described.keywords, more)
             queries == Validated(answers, described.title, merged, order)
  <2>1. described.title \in Texts /\ described.keywords \in Seq(Texts) /\ described.queries \in Searchable
    BY DEF WordsInv
  <2>2. more \in Seq(Texts) /\ answers \in Seq(Texts)
    BY WordsFacts
  <2>3. merged \in Seq(Texts)
    <3>1. described.keywords \o more \in Seq(Texts) /\ <<>> \in Seq(Texts) /\ MaxKeywords \in Nat
      BY <2>1, <2>2 DEF MaxKeywords
    <3> QED BY <3>1, KeywordsAdded DEF Merged
  <2>4. described' = Info("done", described.title, IF more = <<>> THEN described.keywords ELSE merged,
                          IF queries = <<>> THEN described.queries ELSE queries)
    BY <1>2
  <2> HIDE DEF merged
  <2>5. queries \in Searchable
    BY <2>1, <2>2, <2>3, QueriesAreTexts
  <2> HIDE DEF queries
  <2>6. described.queries # <<>>
    BY DEF WordsInv, RefinesTitle
  <2> QED BY <2>1, <2>3, <2>4, <2>5, <2>6 DEF WordsInv, RefinesTitle, Info
<1> QED BY <1>1, <1>2 DEF RefinesTitle

\* The AI alone: done only with a query.
LEMMA AiDescribesKeeps == WordsInv /\ AiDescribes => WordsInv'
<1> SUFFICES ASSUME WordsInv, AiDescribes PROVE WordsInv'
  OBVIOUS
<1>1. PICK name \in Titles, more \in AiKeywords :
        \E answers \in AiQueries, order \in SetToSeqs(Nouns) :
          LET keywords == UpToLen(MaxKeywords, IF more = <<>> THEN TitleKeywords(name) ELSE Merged(more, <<>>))
              queries == Validated(answers, name, keywords, order) IN
          described' =
            IF ~MeaningfulTitle(name) \/ Len(keywords) < 3 THEN Info("retry", name, keywords, queries)
            ELSE IF queries = <<>> THEN Info("fatal", name, keywords, queries)
            ELSE Info("done", name, keywords, queries)
  BY DEF AiDescribes
<1> DEFINE all == IF more = <<>> THEN TitleKeywords(name) ELSE Merged(more, <<>>)
           keywords == UpToLen(MaxKeywords, all)
<1>2. PICK answers \in AiQueries, order \in SetToSeqs(Nouns) :
          LET queries == Validated(answers, name, keywords, order) IN
          described' =
            IF ~MeaningfulTitle(name) \/ Len(keywords) < 3 THEN Info("retry", name, keywords, queries)
            ELSE IF queries = <<>> THEN Info("fatal", name, keywords, queries)
            ELSE Info("done", name, keywords, queries)
  BY <1>1
<1>3. name \in Texts /\ more \in Seq(Texts) /\ answers \in Seq(Texts)
  BY WordsFacts
<1>4. MaxKeywords \in Nat /\ <<>> \in Seq(Texts) /\ more \o <<>> \in Seq(Texts)
  BY <1>3 DEF MaxKeywords
<1>5. all \in Seq(Texts)
  <2>1. Merged(more, <<>>) \in Seq(Texts)
    BY <1>4, KeywordsAdded DEF Merged
  <2>2. TitleKeywords(name) \in Seq(Texts)
    BY <1>3, TitleKeywordsAreTexts
  <2> QED BY <2>1, <2>2
<1> HIDE DEF all
<1>6. keywords \in Seq(Texts)
  BY <1>4, <1>5, CutShort
<1> DEFINE queries == Validated(answers, name, keywords, order)
<1>7. described' =
            IF ~MeaningfulTitle(name) \/ Len(keywords) < 3 THEN Info("retry", name, keywords, queries)
            ELSE IF queries = <<>> THEN Info("fatal", name, keywords, queries)
            ELSE Info("done", name, keywords, queries)
  BY <1>2
<1> HIDE DEF keywords
<1>8. queries \in Searchable
  BY <1>3, <1>6, QueriesAreTexts
<1> HIDE DEF queries
<1> QED BY <1>3, <1>6, <1>7, <1>8 DEF WordsInv, AiDescribes, Info

WordsSpec == WordsInit /\ [][WordsNext]_wordVars

\* What extract_product_info hands on, search_tiktok can search: a product has
\* at most five queries and at least one, none twice and each with a word that
\* is not blank, whatever the page and the AI call it and in whatever order
\* Python's set lists the nouns.
THEOREM QueriesCanBeSearched == WordsSpec => []QueriesAreSearchable
<1>1. WordsInv /\ [WordsNext]_wordVars => WordsInv'
  <2>1. WordsInv /\ UNCHANGED wordVars => WordsInv'
    BY DEF WordsInv, wordVars
  <2> QED BY <2>1, ReadsTitleKeeps, RefinesTitleKeeps, AiDescribesKeeps DEF WordsNext
<1>2. WordsInv => QueriesAreSearchable
  <2> SUFFICES ASSUME WordsInv, described.state \in {"dom", "done"}
               PROVE  /\ described.queries # <<>> /\ Len(described.queries) <= MaxQueries
                      /\ IsInjective(described.queries)
                      /\ \A i \in DOMAIN described.queries : ValidSearchQuery(described.queries[i])
    BY DEF QueriesAreSearchable
  <2> DEFINE qs == described.queries
  <2>1. qs \in Searchable /\ qs # <<>>
    BY DEF WordsInv
  <2> HIDE DEF qs
  <2>2. DOMAIN qs = 1..Len(qs) /\ Len(qs) <= MaxQueries
    BY <2>1 DEF Searchable
  <2>3. IsInjective(qs)
    BY <2>1, <2>2 DEF IsInjective, Searchable
  <2>4. \A i \in DOMAIN qs : ValidSearchQuery(qs[i])
    BY <2>1, <2>2 DEF Searchable
  <2> QED BY <2>1, <2>2, <2>3, <2>4 DEF qs
<1> QED BY <1>1, <1>2, WordsStart, PTL DEF WordsSpec
=============================================================================
