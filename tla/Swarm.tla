-------------------------------- MODULE Swarm --------------------------------
(***************************************************************************)
(* The clusters the pipeline's accounts fall into and the selection among  *)
(* them: fitness, weak streaks, extinction, waves, resources, daughters    *)
(* and rebirth (core/swarm_dynamics.py), and the clustering that names     *)
(* them anew (core/account_clustering.py). A fitness is one of Levels, in  *)
(* thousandths, and moves by one level a cycle, as its average does; the   *)
(* genome, the lineage and the niche capital are data: they decide the     *)
(* niche, the extinction threshold and the weight, picked from sets.       *)
(***************************************************************************)
EXTENDS Integers, Sequences, FiniteSets, FiniteSetsExt, TLC

CONSTANTS
  Clusters,            \* the names k-means gives: c0, c1, ...
  Newborns,            \* names for daughters and reborn clusters (bound)
  Accounts,            \* of the pipeline
  Levels,              \* of fitness
  WeakFitness, WaveFitness, BreedFitness,  \* FITNESS_WEAK_THRESHOLD, 0.6, REPRODUCTION_FITNESS_MIN
  WeakLimit, SoftStreak, HardStreaks,      \* WEAK_STREAK_LIMIT, SOFT_EXTINCTION_STREAK, the thresholds lineage allows
  WaveAfter, WaveLength, \* cycles before the first wave; cycles a wave lasts
  BreedSize,           \* REPRODUCTION_SIZE_MIN
  Niches,              \* of behaviour
  Boosts,              \* what the lineage makes of a weight, thousandths
  Cap,                 \* RESOURCE_DOMINANCE_CAP, thousandths
  CapRounds,           \* iterations that spread what exceeds the cap
  MaxCycle             \* bound

ASSUME Thresholds ==
  /\ WeakLimit \in Nat /\ SoftStreak \in Nat /\ WeakLimit < SoftStreak
  /\ IsFiniteSet(HardStreaks) /\ HardStreaks # {}
  /\ \A t \in HardStreaks : t \in Nat /\ SoftStreak < t

ASSUME SwarmAssumption ==
  /\ IsFiniteSet(Clusters) /\ IsFiniteSet(Newborns) /\ Clusters \cap Newborns = {}
  /\ IsFiniteSet(Levels) /\ Levels # {} /\ Levels \subseteq Nat \ {0}
  /\ Boosts \subseteq Int /\ Cap \in Nat /\ CapRounds \in Nat /\ WeakFitness \in Nat

VARIABLES
  clusterOf,           \* _CLUSTER_IDS
  eco,                 \* the dictionaries and sets of swarm_dynamics
  age,                 \* _SYSTEM_CYCLE
  wave,                \* _EXTINCTION_WAVE_DURATION
  weakRun,             \* ghost: weak cycles on end, as the rewards made them
  waved                \* ghost: clusters killed by a wave

swarmVars == <<clusterOf, eco, age, wave, weakRun, waved>>

Names == Clusters \cup Newborns
NoShare == -1
NoNiche == "none"

SwarmInit ==
  /\ clusterOf \in [Accounts -> Clusters]
  /\ eco = [fit |-> [n \in Names |-> 0],          \* _CLUSTER_FITNESS, 0 without an entry
            streak |-> [n \in Names |-> 0],
            idle |-> {}, soft |-> {}, dead |-> {},  \* inactive, soft extinct, hard extinct
            genome |-> {},                          \* the names with one
            niche |-> [n \in Names |-> NoNiche],
            rivals |-> [n \in Names |-> {}],
            share |-> [n \in Names |-> NoShare]]    \* _CLUSTER_RESOURCE
  /\ age = 0 /\ wave = 0
  /\ weakRun = [n \in Names |-> 0] /\ waved = {}

Known(e) == {n \in Names : e.fit[n] > 0}
Active(e) == {n \in Known(e) : n \notin e.idle \cup e.dead}
\* The function itself, each value of it evaluated once.
Table(f) == CHOOSE g \in {f} : g = f
Total(f) == MapThenSumSet(LAMBDA n : f[n], DOMAIN f)
Weak(e, n) == e.fit[n] < WeakFitness

\* is_cluster_inactive, get_cluster_resource: a name without an entry gets everything.
Silenced(n) == n \in eco.idle
Resource(n) == IF n \in eco.idle THEN 0 ELSE IF eco.share[n] = NoShare THEN 1000 ELSE eco.share[n]

-----------------------------------------------------------------------------
(* Clustering                                                              *)

\* run_clustering: k-means, split and merge leave any assignment; a merge
\* pops a centroid, so that the later ones take over the names before them.
Recluster == clusterOf' \in [Accounts -> Clusters]

-----------------------------------------------------------------------------
(* The cycle, step by step: each takes the ecosystem and returns it changed *)

Above(f) == {l \in Levels : l > f}
Below(f) == {l \in Levels : l < f}
LevelAt(x) == Max({Min(Levels)} \cup {l \in Levels : l <= x})

\* update_cluster_fitness: a cluster without rewards drifts to 1.0, the level
\* a new one starts from.
FirstLevel == LevelAt(1000)
NextFits(f, rewarded) ==
  LET old == IF f = 0 THEN FirstLevel ELSE f
      up == IF Above(old) = {} THEN {} ELSE {Min(Above(old))}
      down == IF Below(old) = {} THEN {} ELSE {Max(Below(old))}
  IN IF rewarded THEN {old} \cup up \cup down
     ELSE IF old < FirstLevel THEN {old} \cup up ELSE IF old > FirstLevel THEN {old} \cup down ELSE {old}

\* record_cluster_genome for those at work; what the genes are is left out.
Recorded(e, named) == [e EXCEPT !.genome = @ \cup named]

\* The fitness after a cycle.
Fitted(e, fits, named) ==
  [Recorded(e, named) EXCEPT !.fit = Table([n \in Names |-> IF n \in DOMAIN fits THEN fits[n] ELSE @[n]])]

\* trigger_extinction_wave: the weakest 30 %, three survive; resources shrink.
WaveDue(e) ==
  /\ age + 1 > WaveAfter /\ wave = 0
  /\ Active(e) = {} \/ MapThenSumSet(LAMBDA n : e.fit[n], Active(e)) < WaveFitness * Cardinality(Active(e))
KillCount(e) == LET n == Cardinality(Active(e)) IN Min({(n * 3) \div 10, Max({0, n - 3})})
Weakest(e) == {k \in SUBSET Active(e) : Cardinality(k) = KillCount(e)
                 /\ \A a \in k, b \in Active(e) \ k : e.fit[a] <= e.fit[b]}
Waved(e, k) ==
  [e EXCEPT !.dead = @ \cup k, !.idle = @ \cup k, !.soft = @ \ k, !.genome = @ \ k,
            !.share = Table([n \in Names |-> IF n \in k THEN 0
                                             ELSE IF @[n] = NoShare \/ n \in e.idle THEN @[n] ELSE (@[n] * 8) \div 10])]

\* Mutant: a good cycle leaves the count as it is.
StreakKept(e, n) == IF Weak(e, n) THEN Min({e.streak[n] + 1, Max(HardStreaks) + 1}) ELSE e.streak[n]

\* tick_weak_streak
Streak(e, n) == IF Weak(e, n) THEN Min({e.streak[n] + 1, Max(HardStreaks) + 1}) ELSE 0

\* get_rivalry_shield_survivor spares the fittest of a weak group that is
\* still active, which a cluster that weak no longer is.
Shielded(e, n) ==
  LET group == {n} \cup e.rivals[n]
      alive == group \ (e.idle \cup e.dead)
  IN e.rivals[n] # {} /\ n \in alive /\ \A m \in alive : Weak(e, m) /\ e.fit[m] <= e.fit[n]

\* maybe_eliminate for every known cluster: hard, else soft extinction, and
\* the older limit that only silences.
Culled(e, threshold) ==
  LET streak == Table([n \in Names |-> IF n \in Known(e) THEN Streak(e, n) ELSE e.streak[n]])
      hard == {n \in Known(e) \ e.dead : streak[n] > threshold[n] /\ ~Shielded(e, n)}
      soft == {n \in Known(e) \ (hard \cup e.dead \cup e.idle) : streak[n] > SoftStreak}
      idle == {n \in Known(e) \ e.idle : streak[n] > WeakLimit}
      well == {n \in Known(e) : ~Weak(e, n)}
  IN [e EXCEPT !.streak = streak, !.dead = @ \cup hard, !.idle = @ \cup hard \cup idle,
               !.soft = ((@ \ well) \ hard) \cup soft, !.genome = @ \ hard,
               !.share = Table([n \in Names |-> IF n \in hard \cup idle THEN 0 ELSE @[n]])]

\* update_cluster_niche, then update_rivalry_groups: same niche, shares alike.
ShareOr0(e, n) == IF e.share[n] = NoShare THEN 0 ELSE e.share[n]
Close(e, a, b) == ShareOr0(e, a) - ShareOr0(e, b) < 150 /\ ShareOr0(e, b) - ShareOr0(e, a) < 150
AlikeIn(e, n) == {m \in Active(e) \ {n} : n \in Active(e) /\ e.niche[m] = e.niche[n] /\ Close(e, m, n)}
\* Each takes the first two of them, in the order of the names.
First(S) == CHOOSE m \in S : TRUE
FirstTwo(S) == IF Cardinality(S) <= 2 THEN S ELSE {m \in S : m \in {First(S), First(S \ {First(S)})}}
RivalsIn(e) == Table([n \in Names |-> FirstTwo(AlikeIn(e, n))])
Settled(e, niche) == LET placed == [e EXCEPT !.niche = niche] IN [placed EXCEPT !.rivals = RivalsIn(placed)]

-----------------------------------------------------------------------------
(* Resources                                                               *)

\* The blend of the global, the niche and the fair share, in its first years.
NicheShare(e, n) ==
  LET peers == {m \in Active(e) : e.niche[m] = e.niche[n]}
      part == (1000 * e.fit[n]) \div MapThenSumSet(LAMBDA m : e.fit[m], peers)
  IN IF \A m \in peers : e.fit[m] <= e.fit[n] THEN Min({(part * 11) \div 10, 1000}) ELSE part
Blend(e, n) ==
  LET global == (1000 * e.fit[n]) \div MapThenSumSet(LAMBDA m : e.fit[m], Active(e))
      fair == 1000 \div Cardinality(Active(e))
  IN (4 * global + 4 * NicheShare(e, n) + 2 * fair) \div 10
WeightOf(e, n, boost) ==
  LET half == IF Weak(e, n) THEN 2 ELSE 1
      tenth == IF n \in e.soft THEN 10 ELSE 1
  IN Max({1, (Blend(e, n) * boost) \div (1000 * half * tenth)})

\* Mutant: no cap.
SpreadFreely(raw, rounds) == [n \in DOMAIN raw |-> (raw[n] * 1000) \div Max({1, Total(raw)})]

\* A share of the total each, and what exceeds the cap spread over the others.
Divisor(f) == Max({1, Total(f)})
Normed(raw) == LET total == Divisor(raw) IN Table([n \in DOMAIN raw |-> (raw[n] * 1000) \div total])
SpreadOnce(raw) ==
  LET total == Divisor(raw)
      norm == Normed(raw)
      over == {n \in DOMAIN raw : norm[n] > Cap}
      under == Divisor([n \in DOMAIN raw \ over |-> norm[n]])
      surplus == Total([n \in over |-> ((norm[n] - Cap) * total) \div 1000])
  IN IF over = {} THEN raw
     ELSE Table([n \in DOMAIN raw |-> IF n \in over THEN (Cap * total) \div 1000
                                      ELSE raw[n] + (surplus * norm[n]) \div under])

\* So many rounds of it at most; what still exceeds the cap then is cut off.
Spread(raw, rounds) ==
  LET after[k \in 0..rounds] == IF k = 0 THEN raw ELSE SpreadOnce(after[k - 1])
      norm == Normed(after[rounds])
  IN [n \in DOMAIN raw |-> IF norm[n] > Cap THEN Cap ELSE norm[n]]

Shares(e, boost) ==
  IF Cardinality(Active(e)) = 1 THEN [n \in Active(e) |-> 1000]
  ELSE Spread(Table([n \in Active(e) |-> WeightOf(e, n, boost[n])]), CapRounds)

\* allocate_resources leaves everything as it is when nothing is active.
Allocated(e, boost) ==
  IF Active(e) = {} THEN e
  ELSE LET shares == Shares(e, boost)
       IN [e EXCEPT !.share = Table([n \in Names |-> IF n \in e.idle \cup e.dead THEN 0
                                                     ELSE IF n \in Active(e) THEN shares[n] ELSE @[n]])]

-----------------------------------------------------------------------------
(* Births                                                                  *)

Born(e, n, fit) == [e EXCEPT !.fit[n] = LevelAt(fit), !.genome = @ \cup {n}]
Unborn(e) == Newborns \ Known(e)

\* maybe_reproduce: at most one daughter a cycle, of a fit and large cluster.
Breeders(e, sizes) == {n \in DOMAIN sizes : n \notin e.idle /\ e.fit[n] >= BreedFitness /\ sizes[n] >= BreedSize}
Bred(e, sizes) ==
  IF Breeders(e, sizes) = {} \/ Unborn(e) = {} THEN {e}
  ELSE {Born(e, CHOOSE d \in Unborn(e) : TRUE, (e.fit[n] * 8) \div 10) : n \in Breeders(e, sizes)}

\* maybe_rebirth: in every cycle once any known cluster is extinct, from the
\* two fittest that are active and have a genome.
Parents(e, known) == {n \in known : n \notin e.idle \cup e.dead /\ n \in e.genome}
Reborn(e, known) ==
  IF known \cap e.dead = {} \/ Cardinality(Parents(e, known)) < 2 \/ Unborn(e) = {} THEN e
  ELSE LET top == CHOOSE p \in kSubset(2, Parents(e, known)) :
                    \A a \in p, b \in Parents(e, known) \ p : e.fit[a] >= e.fit[b]
       IN Born(e, CHOOSE d \in Unborn(e) : TRUE, (3 * MapThenSumSet(LAMBDA n : e.fit[n], top)) \div 8)

-----------------------------------------------------------------------------
(* run_darwin_cycle, for the clusters that had accounts at work            *)

DarwinCycle(sizes) ==
  /\ age < MaxCycle /\ age' = age + 1
  /\ LET known == DOMAIN sizes \cup Known(eco) IN
     \E fits \in [known -> Levels] :
       /\ \A n \in known : fits[n] \in NextFits(eco.fit[n], n \in DOMAIN sizes)
       /\ LET e1 == Fitted(eco, fits, DOMAIN sizes)
          IN \E k \in (IF WaveDue(e1) THEN Weakest(e1) ELSE {{}}), t \in [known -> HardStreaks] :
               LET e2 == Culled(IF WaveDue(e1) THEN Waved(e1, k) ELSE e1, t)
               IN \E niche \in [Active(e2) -> Niches], boost \in [Active(e2) -> Boosts] :
                    LET e3 == Settled(e2, Table([n \in Names |-> IF n \in Active(e2) THEN niche[n] ELSE e2.niche[n]]))
                    IN \E e4 \in Bred(Allocated(e3, boost), sizes) :
                         /\ eco' = Reborn(e4, known)
                         /\ waved' = waved \cup k
                         /\ wave' = Max({0, (IF WaveDue(e1) THEN WaveLength ELSE wave) - 1})
                         /\ weakRun' = [n \in Names |-> IF n \in known /\ fits[n] < WeakFitness
                                                        THEN Min({weakRun[n] + 1, WeakLimit + 1}) ELSE 0]

-----------------------------------------------------------------------------
(* Properties                                                              *)

\* "No single cluster can hold >40% globally" (allocate_resources), as
\* get_cluster_resource answers it: a name without an entry gets everything.
\* A daughter or a reborn cluster is born after the cycle's shares are spread
\* and so starts above the cap; the excess lasts a cycle. When a cycle has
\* ended, whoever takes more than the cap was born in it, or has only those
\* born in it beside it.
ExcessLastsACycle ==
  [][age' # age =>
       \A n \in Active(eco)' : Resource(n)' > Cap =>
         n \in Unborn(eco) \/ Active(eco)' \ {n} \subseteq Unborn(eco)]_swarmVars

\* A cluster is silenced only after more than WeakLimit weak cycles on end,
\* or by a wave: one good cycle starts the count again.
SilencedForWeakness ==
  [][\A n \in eco'.idle \ eco.idle : weakRun'[n] > WeakLimit \/ n \in waved']_swarmVars
=============================================================================
