----------------------------- MODULE FiniteFolds -----------------------------
(***************************************************************************)
(* What the folds of the community modules compute over a finite set: they *)
(* are recursive functions, given by CHOOSE, and these lemmas show that    *)
(* the functions exist, where their values lie, and what a sum does when   *)
(* its terms or its set change.  An induction over the subsets of a finite *)
(* set looks at a least counterexample.                                    *)
(***************************************************************************)
EXTENDS Integers, Functions, FiniteSetsExt, FiniteSetTheorems, TLAPS

\* What holds of a set whenever it holds of all its proper subsets holds of
\* all subsets of a finite set.
LEMMA SubsetInduction ==
  ASSUME NEW S, IsFiniteSet(S), NEW Good,
         \A s \in SUBSET S : (SUBSET s) \ {s} \subseteq Good => s \in Good
  PROVE  SUBSET S \subseteq Good
<1> DEFINE Bad == (SUBSET S) \ Good
<1>1. FiniteSubsetsOf(S) = SUBSET S
  BY FS_Subset DEF FiniteSubsetsOf
<1>2. IsWellFoundedOn(StrictSubsetOrdering(S), SUBSET S)
  BY <1>1, FS_StrictSubsetOrderingWellFounded
<1>3. SUFFICES ASSUME Bad # {} PROVE FALSE
  OBVIOUS
<1>4. \E s \in Bad : \A r \in Bad : <<r, s>> \notin StrictSubsetOrdering(S)
  <2>1. Bad \subseteq SUBSET S
    OBVIOUS
  <2> HIDE DEF Bad
  <2> QED BY <1>2, <1>3, <2>1, WFMin
<1>5. PICK s \in Bad : \A r \in Bad : <<r, s>> \notin StrictSubsetOrdering(S)
  BY <1>4
<1>6. ASSUME NEW r \in (SUBSET s) \ {s} PROVE r \in Good
  <2>1. r \in SUBSET S
    BY <1>5
  <2>2. <<r, s>> \in StrictSubsetOrdering(S)
    BY <1>5, <2>1 DEF StrictSubsetOrdering
  <2> QED BY <1>5, <2>1, <2>2
<1> QED BY <1>5, <1>6

-----------------------------------------------------------------------------
(* The recursion behind a fold                                             *)

\* pick[s] is the element of s the fold takes first, step[<<x, v>>] what it
\* makes of it and of the value v of the rest.
Folded(g, S, base, step, pick) ==
  g = [s \in SUBSET S |-> IF s = {} THEN base ELSE step[<<pick[s], g[s \ {pick[s]}]>>]]

\* Whatever satisfies the recursion has its values where step leaves them.
LEMMA FoldedType ==
  ASSUME NEW S, IsFiniteSet(S), NEW V, NEW base \in V, NEW step, NEW pick,
         \A s \in SUBSET S : s # {} => pick[s] \in s,
         \A x \in S, v \in V : step[<<x, v>>] \in V,
         NEW g, Folded(g, S, base, step, pick)
  PROVE  g \in [SUBSET S -> V]
<1> DEFINE Good == {s \in SUBSET S : g[s] \in V}
<1>1. ASSUME NEW s \in SUBSET S, (SUBSET s) \ {s} \subseteq Good PROVE s \in Good
  <2>1. g[s] = IF s = {} THEN base ELSE step[<<pick[s], g[s \ {pick[s]}]>>]
    BY DEF Folded
  <2>2. s # {} => g[s \ {pick[s]}] \in V
    BY <1>1
  <2> QED BY <2>1, <2>2
<1>2. SUBSET S \subseteq Good
  <2> HIDE DEF Good
  <2> QED BY <1>1, SubsetInduction
<1>3. DOMAIN g = SUBSET S /\ g = [s \in DOMAIN g |-> g[s]]
  BY DEF Folded
<1> QED BY <1>2, <1>3

\* Two solutions agree where both are defined.
LEMMA FoldedAgree ==
  ASSUME NEW S, IsFiniteSet(S), NEW T, NEW base, NEW step, NEW pick,
         \A s \in SUBSET S : s # {} => pick[s] \in s,
         NEW g, Folded(g, S, base, step, pick),
         NEW h, Folded(h, T, base, step, pick), S \subseteq T
  PROVE  \A s \in SUBSET S : g[s] = h[s]
<1> DEFINE Good == {s \in SUBSET S : g[s] = h[s]}
<1>1. ASSUME NEW s \in SUBSET S, (SUBSET s) \ {s} \subseteq Good PROVE s \in Good
  <2>1. g[s] = IF s = {} THEN base ELSE step[<<pick[s], g[s \ {pick[s]}]>>]
    BY DEF Folded
  <2>2. h[s] = IF s = {} THEN base ELSE step[<<pick[s], h[s \ {pick[s]}]>>]
    BY DEF Folded
  <2>3. s # {} => g[s \ {pick[s]}] = h[s \ {pick[s]}]
    BY <1>1
  <2> QED BY <2>1, <2>2, <2>3
<1>2. SUBSET S \subseteq Good
  <2> HIDE DEF Good
  <2> QED BY <1>1, SubsetInduction
<1> QED BY <1>2

\* The recursion has a solution: those on the proper subsets of s give one on s.
LEMMA FoldExists ==
  ASSUME NEW S, IsFiniteSet(S), NEW base, NEW step, NEW pick,
         \A s \in SUBSET S : s # {} => pick[s] \in s
  PROVE  \E g : Folded(g, S, base, step, pick)
<1> DEFINE Good == {s \in SUBSET S : \E g : Folded(g, s, base, step, pick)}
           Part(r) == CHOOSE g : Folded(g, r, base, step, pick)
           Rest(r) == r \ {pick[r]}
<1>1. ASSUME NEW s \in SUBSET S, (SUBSET s) \ {s} \subseteq Good PROVE s \in Good
  <2> DEFINE G == [r \in SUBSET s |-> IF r = {} THEN base
                                      ELSE step[<<pick[r], Part(Rest(r))[Rest(r)]>>]]
  <2>1. \A r \in (SUBSET s) \ {s} : Folded(Part(r), r, base, step, pick)
    BY <1>1
  <2>2. ASSUME NEW u \in (SUBSET s) \ {s} PROVE G[u] = Part(u)[u]
    <3>1. Part(u)[u] = IF u = {} THEN base ELSE step[<<pick[u], Part(u)[Rest(u)]>>]
      <4>1. Folded(Part(u), u, base, step, pick)
        BY <2>1, <2>2
      <4> HIDE DEF Part
      <4> QED BY <4>1 DEF Folded
    <3>2. CASE u # {}
      <4>1. Rest(u) \in (SUBSET s) \ {s} /\ Rest(u) \subseteq u /\ u \in SUBSET S
        BY <2>2, <3>2
      <4>2. IsFiniteSet(Rest(u)) /\ \A r \in SUBSET Rest(u) : r # {} => pick[r] \in r
        BY <4>1, FS_Subset
      <4>3. Part(Rest(u))[Rest(u)] = Part(u)[Rest(u)]
        <5> HIDE DEF Part, Rest
        <5>1. \A r \in SUBSET Rest(u) : Part(Rest(u))[r] = Part(u)[r]
          BY <2>1, <2>2, <4>1, <4>2, FoldedAgree
        <5> QED BY <5>1
      <4> HIDE DEF Part, Rest
      <4> QED BY <2>2, <3>1, <3>2, <4>3
    <3>3. CASE u = {}
      BY <3>1, <3>3
    <3> QED BY <3>2, <3>3
  <2>3. G = [r \in SUBSET s |-> IF r = {} THEN base ELSE step[<<pick[r], G[Rest(r)]>>]]
    <3>1. ASSUME NEW r \in SUBSET s, r # {} PROVE G[Rest(r)] = Part(Rest(r))[Rest(r)]
      <4>1. Rest(r) \in (SUBSET s) \ {s}
        BY <3>1
      <4> HIDE DEF G, Rest, Part
      <4> QED BY <2>2, <4>1
    <3> HIDE DEF Part, Rest
    <3> QED BY <3>1
  <2>4. Folded(G, s, base, step, pick)
    <3> HIDE DEF G
    <3> QED BY <2>3 DEF Folded
  <2> QED BY <2>4
<1>2. SUBSET S \subseteq Good
  <2> HIDE DEF Good
  <2> QED BY <1>1, SubsetInduction
<1> QED BY <1>2
-----------------------------------------------------------------------------
(* Sums                                                                    *)

Element(s) == CHOOSE x \in s : TRUE

\* The recursion of a sum of f over a subset of S.
Added(g, S, f) ==
  g = [s \in SUBSET S |-> IF s = {} THEN 0 ELSE f[Element(s)] + g[s \ {Element(s)}]]

SumOver(f, S) == FoldFunctionOnSet(+, 0, f, S)

LEMMA AddedType ==
  ASSUME NEW S, IsFiniteSet(S), NEW f, \A x \in S : f[x] \in Int, NEW g, Added(g, S, f)
  PROVE  g \in [SUBSET S -> Int]
<1> DEFINE Good == {s \in SUBSET S : g[s] \in Int}
<1>1. ASSUME NEW s \in SUBSET S, (SUBSET s) \ {s} \subseteq Good PROVE s \in Good
  <2>1. g[s] = IF s = {} THEN 0 ELSE f[Element(s)] + g[s \ {Element(s)}]
    BY DEF Added
  <2>2. s # {} => f[Element(s)] \in Int /\ g[s \ {Element(s)}] \in Int
    BY <1>1 DEF Element
  <2> QED BY <2>1, <2>2
<1>2. SUBSET S \subseteq Good
  <2> HIDE DEF Good
  <2> QED BY <1>1, SubsetInduction
<1>3. DOMAIN g = SUBSET S /\ g = [s \in DOMAIN g |-> g[s]]
  BY DEF Added
<1> QED BY <1>2, <1>3

LEMMA SumUnfolds ==
  ASSUME NEW S, IsFiniteSet(S), NEW f, \A x \in S : f[x] \in Int
  PROVE  \E g \in [SUBSET S -> Int] : Added(g, S, f) /\ SumOver(f, S) = g[S]
<1> DEFINE g == CHOOSE g : Added(g, S, f)
           pick == [s \in SUBSET S |-> Element(s)]
           step == [p \in S \X Int |-> f[p[1]] + p[2]]
<1>1. SumOver(f, S) = g[S]
  BY DEF SumOver, FoldFunctionOnSet, MapThenFoldSet, Added, Element
<1>2. \A s \in SUBSET S : s # {} => pick[s] \in s
  BY DEF Element
<1>3. \A x \in S, v \in Int : step[<<x, v>>] \in Int /\ step[<<x, v>>] = f[x] + v
  OBVIOUS
<1>4. PICK h : Folded(h, S, 0, step, pick)
  <2> HIDE DEF pick, step
  <2> QED BY <1>2, FoldExists
<1>5. h \in [SUBSET S -> Int]
  <2>1. 0 \in Int /\ \A x \in S, v \in Int : step[<<x, v>>] \in Int
    BY <1>3
  <2> HIDE DEF g, pick, step
  <2> QED BY <1>2, <2>1, <1>4, FoldedType
<1>6. Added(h, S, f)
  <2>1. ASSUME NEW s \in SUBSET S
        PROVE  h[s] = IF s = {} THEN 0 ELSE f[Element(s)] + h[s \ {Element(s)}]
    <3>1. h[s] = IF s = {} THEN 0 ELSE step[<<pick[s], h[s \ {pick[s]}]>>]
      BY <1>4 DEF Folded
    <3>2. pick[s] = Element(s)
      OBVIOUS
    <3>3. s # {} => Element(s) \in S /\ h[s \ {Element(s)}] \in Int
      BY <1>2, <1>5, <3>2
    <3> HIDE DEF pick, step
    <3> QED BY <1>3, <3>1, <3>2, <3>3
  <2> DEFINE G == [s \in SUBSET S |-> IF s = {} THEN 0
                                      ELSE f[Element(s)] + h[s \ {Element(s)}]]
  <2>2. h = [s \in SUBSET S |-> h[s]]
    BY <1>5
  <2>3. \A s \in SUBSET S : G[s] = h[s]
    BY <2>1
  <2>4. G = [s \in SUBSET S |-> G[s]]
    OBVIOUS
  <2>5. G = h
    <3> HIDE DEF G, pick, step
    <3> QED BY <2>2, <2>3, <2>4
  <2> HIDE DEF pick, step
  <2> QED BY <2>5 DEF Added
<1>7. Added(g, S, f)
  BY <1>6
<1> HIDE DEF g
<1>8. g \in [SUBSET S -> Int]
  BY <1>7, AddedType
<1> QED BY <1>1, <1>7, <1>8

\* The sum of a set is that of a part of it, one element taken out, plus the
\* element's term.
LEMMA SumSplits ==
  ASSUME NEW S, IsFiniteSet(S), NEW f, \A x \in S : f[x] \in Int, NEW t \in S
  PROVE  SumOver(f, S) = f[t] + SumOver(f, S \ {t})
<1>1. PICK g \in [SUBSET S -> Int] : Added(g, S, f) /\ SumOver(f, S) = g[S]
  BY SumUnfolds
<1> DEFINE U == S \ {t}
<1>2. IsFiniteSet(U) /\ \A x \in U : f[x] \in Int
  BY FS_RemoveElement
<1>3. PICK h \in [SUBSET U -> Int] : Added(h, U, f) /\ SumOver(f, U) = h[U]
  <2> HIDE DEF U
  <2> QED BY <1>2, SumUnfolds
<1> DEFINE Same == {s \in SUBSET U : g[s] = h[s]}
<1>4. ASSUME NEW s \in SUBSET U, (SUBSET s) \ {s} \subseteq Same PROVE s \in Same
  <2>1. g[s] = IF s = {} THEN 0 ELSE f[Element(s)] + g[s \ {Element(s)}]
    BY <1>1 DEF Added
  <2>2. h[s] = IF s = {} THEN 0 ELSE f[Element(s)] + h[s \ {Element(s)}]
    BY <1>3 DEF Added
  <2>3. s # {} => g[s \ {Element(s)}] = h[s \ {Element(s)}]
    BY <1>4 DEF Element
  <2> QED BY <2>1, <2>2, <2>3
<1>5. SUBSET U \subseteq Same
  <2>1. IsFiniteSet(U)
    BY <1>2
  <2>2. \A s \in SUBSET U : (SUBSET s) \ {s} \subseteq Same => s \in Same
    BY <1>4
  <2> HIDE DEF Same, U
  <2> QED BY <2>1, <2>2, SubsetInduction
<1> DEFINE Good == {s \in SUBSET S : \A x \in s : g[s] = f[x] + g[s \ {x}]}
<1>6. ASSUME NEW s \in SUBSET S, (SUBSET s) \ {s} \subseteq Good PROVE s \in Good
  <2> DEFINE e == Element(s)
  <2>1. SUFFICES ASSUME NEW x \in s PROVE g[s] = f[x] + g[s \ {x}]
    OBVIOUS
  <2>2. g[s] = f[e] + g[s \ {e}] /\ e \in s
    BY <1>1, <2>1 DEF Added, Element
  <2> HIDE DEF e
  <2>3. CASE e # x
    <3>1. s \ {e} \in Good /\ x \in s \ {e} /\ s \ {x} \in Good /\ e \in s \ {x}
      BY <1>6, <2>1, <2>2, <2>3
    <3>2. g[s \ {e}] = f[x] + g[(s \ {e}) \ {x}] /\ g[s \ {x}] = f[e] + g[(s \ {x}) \ {e}]
      BY <3>1
    <3>3. (s \ {e}) \ {x} = (s \ {x}) \ {e} /\ (s \ {x}) \ {e} \in SUBSET S
      OBVIOUS
    <3>4. g[(s \ {x}) \ {e}] \in Int /\ f[x] \in Int /\ f[e] \in Int
      BY <1>1, <2>1, <2>2, <3>3
    <3> DEFINE r == g[(s \ {x}) \ {e}]
    <3>5. g[s \ {e}] = f[x] + r /\ g[s \ {x}] = f[e] + r /\ r \in Int
      BY <3>2, <3>3, <3>4
    <3> HIDE DEF r
    <3> QED BY <2>2, <3>4, <3>5
  <2> QED BY <2>2, <2>3
<1>7. SUBSET S \subseteq Good
  <2> HIDE DEF Good
  <2> QED BY <1>6, SubsetInduction
<1> QED BY <1>1, <1>3, <1>5, <1>7

\* What a sum is of, and the sum of nothing.
LEMMA SumType ==
  ASSUME NEW S, IsFiniteSet(S), NEW f, \A x \in S : f[x] \in Int
  PROVE  SumOver(f, S) \in Int /\ (S = {} => SumOver(f, S) = 0)
<1>1. PICK g \in [SUBSET S -> Int] : Added(g, S, f) /\ SumOver(f, S) = g[S]
  BY SumUnfolds
<1>2. g[S] \in Int /\ (S = {} => g[S] = 0)
  BY <1>1 DEF Added
<1> QED BY <1>1, <1>2

\* An element more.
LEMMA SumJoins ==
  ASSUME NEW S, IsFiniteSet(S), NEW f, NEW t, t \notin S, f[t] \in Int, \A x \in S : f[x] \in Int
  PROVE  SumOver(f, S \cup {t}) = f[t] + SumOver(f, S)
<1> DEFINE U == S \cup {t}
<1>1. IsFiniteSet(U) /\ t \in U /\ U \ {t} = S /\ \A x \in U : f[x] \in Int
  BY FS_AddElement
<1>2. SumOver(f, U) = f[t] + SumOver(f, U \ {t})
  <2> HIDE DEF U
  <2> QED BY <1>1, SumSplits
<1> QED BY <1>1, <1>2

\* Sums of functions that nowhere fall below each other, or agree.
LEMMA SumMonotone ==
  ASSUME NEW S, IsFiniteSet(S), NEW f, NEW g, \A x \in S : f[x] \in Int /\ g[x] \in Int /\ f[x] <= g[x]
  PROVE  SumOver(f, S) <= SumOver(g, S)
<1> DEFINE Good == {s \in SUBSET S : SumOver(f, s) <= SumOver(g, s)}
<1>1. ASSUME NEW s \in SUBSET S, (SUBSET s) \ {s} \subseteq Good PROVE s \in Good
  <2>1. IsFiniteSet(s)
    BY FS_Subset
  <2>2. CASE s = {}
    <3>1. SumOver(f, s) = 0 /\ SumOver(g, s) = 0
      BY <2>1, <2>2, SumType
    <3> QED BY <3>1
  <2>3. ASSUME NEW t \in s PROVE s \in Good
    <3> DEFINE r == s \ {t}
    <3>1. r \in SUBSET S /\ r \in Good /\ IsFiniteSet(r)
      BY <1>1, <2>1, <2>3, FS_RemoveElement
    <3>2. SumOver(f, s) = f[t] + SumOver(f, r) /\ SumOver(g, s) = g[t] + SumOver(g, r)
      BY <2>1, <2>3, SumSplits
    <3> HIDE DEF r
    <3>3. SumOver(f, r) \in Int /\ SumOver(g, r) \in Int
      BY <3>1, SumType
    <3>4. SumOver(f, r) <= SumOver(g, r)
      BY <3>1
    <3> DEFINE F == SumOver(f, r)
               G == SumOver(g, r)
    <3>5. F \in Int /\ G \in Int /\ F <= G /\ f[t] \in Int /\ g[t] \in Int /\ f[t] <= g[t]
      BY <2>3, <3>3, <3>4
    <3>6. SumOver(f, s) = f[t] + F /\ SumOver(g, s) = g[t] + G
      BY <3>2
    <3> HIDE DEF F, G
    <3> QED BY <3>5, <3>6
  <2> QED BY <2>2, <2>3
<1>2. SUBSET S \subseteq Good
  <2> HIDE DEF Good
  <2> QED BY <1>1, SubsetInduction
<1> QED BY <1>2

\* Terms that are no less than 0 have a sum that is not.
LEMMA SumIsNat ==
  ASSUME NEW S, IsFiniteSet(S), NEW f, \A x \in S : f[x] \in Int /\ f[x] >= 0
  PROVE  SumOver(f, S) \in Nat
<1> DEFINE Good == {s \in SUBSET S : SumOver(f, s) >= 0}
<1>1. ASSUME NEW s \in SUBSET S, (SUBSET s) \ {s} \subseteq Good PROVE s \in Good
  <2>1. IsFiniteSet(s)
    BY FS_Subset
  <2>2. CASE s = {}
    BY <2>1, <2>2, SumType
  <2>3. ASSUME NEW t \in s PROVE s \in Good
    <3> DEFINE r == s \ {t}
    <3>1. r \in Good /\ IsFiniteSet(r)
      BY <1>1, <2>1, <2>3, FS_RemoveElement
    <3>2. SumOver(f, s) = f[t] + SumOver(f, r)
      BY <2>1, <2>3, SumSplits
    <3> HIDE DEF r
    <3>3. SumOver(f, r) \in Int /\ SumOver(f, r) >= 0
      BY <3>1, SumType
    <3> DEFINE F == SumOver(f, r)
    <3>4. F \in Int /\ F >= 0 /\ f[t] \in Int /\ f[t] >= 0 /\ SumOver(f, s) = f[t] + F
      BY <2>3, <3>2, <3>3
    <3> HIDE DEF F
    <3>5. SumOver(f, s) >= 0
      BY <3>4
    <3> QED BY <3>5
  <2> QED BY <2>2, <2>3
<1>2. SUBSET S \subseteq Good
  <2> HIDE DEF Good
  <2> QED BY <1>1, SubsetInduction
<1> QED BY <1>2, SumType

LEMMA SumSame ==
  ASSUME NEW S, IsFiniteSet(S), NEW f, NEW g, \A x \in S : f[x] \in Int /\ f[x] = g[x]
  PROVE  SumOver(f, S) = SumOver(g, S)
<1>1. SumOver(f, S) <= SumOver(g, S) /\ SumOver(g, S) <= SumOver(f, S)
  BY SumMonotone
<1>2. SumOver(f, S) \in Int /\ SumOver(g, S) \in Int
  BY SumType
<1> QED BY <1>1, <1>2

\* One term changes: the sum changes by as much, if the term is one of its own.
LEMMA SumChanges ==
  ASSUME NEW D, NEW S \in SUBSET D, IsFiniteSet(S), NEW f \in [D -> Int], NEW g \in [D -> Int],
         NEW t \in D, \A x \in D \ {t} : g[x] = f[x]
  PROVE  SumOver(g, S) = IF t \in S THEN SumOver(f, S) - f[t] + g[t] ELSE SumOver(f, S)
<1>1. CASE t \notin S
  <2>1. \A x \in S : f[x] \in Int /\ f[x] = g[x]
    BY <1>1
  <2> QED BY <1>1, <2>1, SumSame
<1>2. CASE t \in S
  <2> DEFINE R == S \ {t}
  <2>1. IsFiniteSet(R) /\ \A x \in R : f[x] \in Int /\ f[x] = g[x]
    BY FS_RemoveElement
  <2>2. SumOver(f, S) = f[t] + SumOver(f, R) /\ SumOver(g, S) = g[t] + SumOver(g, R)
    BY <1>2, SumSplits
  <2> HIDE DEF R
  <2>3. SumOver(f, R) = SumOver(g, R) /\ SumOver(f, R) \in Int
    BY <2>1, SumSame, SumType
  <2> DEFINE r == SumOver(f, R)
  <2>4. SumOver(f, S) = f[t] + r /\ SumOver(g, S) = g[t] + r /\ r \in Int /\ f[t] \in Int
    BY <2>2, <2>3
  <2> HIDE DEF r
  <2> QED BY <1>2, <2>4
<1> QED BY <1>1, <1>2

\* Terms of one and more have a sum of one and more.
LEMMA SumIsPositive ==
  ASSUME NEW S, IsFiniteSet(S), S # {}, NEW f, \A x \in S : f[x] \in Int /\ f[x] >= 1
  PROVE  SumOver(f, S) \in Int /\ SumOver(f, S) >= 1
<1>1. PICK t \in S : TRUE
  OBVIOUS
<1> DEFINE R == S \ {t}
<1>2. IsFiniteSet(R) /\ \A x \in R : f[x] \in Int /\ f[x] >= 0
  BY FS_RemoveElement
<1>3. SumOver(f, S) = f[t] + SumOver(f, R)
  BY SumSplits
<1> HIDE DEF R
<1>4. SumOver(f, R) \in Nat
  BY <1>2, SumIsNat
<1> QED BY <1>3, <1>4

\* The sums of two terms are the two sums.
LEMMA SumAdds ==
  ASSUME NEW S, IsFiniteSet(S), NEW f, NEW g, NEW h,
         \A x \in S : f[x] \in Int /\ g[x] \in Int /\ h[x] = f[x] + g[x]
  PROVE  SumOver(h, S) = SumOver(f, S) + SumOver(g, S)
<1> DEFINE Good == {s \in SUBSET S : SumOver(h, s) = SumOver(f, s) + SumOver(g, s)}
<1>1. ASSUME NEW s \in SUBSET S, (SUBSET s) \ {s} \subseteq Good PROVE s \in Good
  <2>1. IsFiniteSet(s) /\ \A x \in s : f[x] \in Int /\ g[x] \in Int /\ h[x] \in Int /\ h[x] = f[x] + g[x]
    BY FS_Subset
  <2>2. CASE s = {}
    <3>1. SumOver(f, s) = 0 /\ SumOver(g, s) = 0 /\ SumOver(h, s) = 0
      BY <2>1, <2>2, SumType
    <3> QED BY <3>1
  <2>3. CASE s # {}
    <3>1. PICK t \in s : TRUE
      BY <2>3
    <3> DEFINE r == s \ {t}
    <3>2. r \in (SUBSET s) \ {s} /\ IsFiniteSet(r) /\ \A x \in r : f[x] \in Int /\ g[x] \in Int
      BY <2>1, <3>1, FS_RemoveElement
    <3>3. SumOver(h, r) = SumOver(f, r) + SumOver(g, r)
      BY <1>1, <3>2
    <3>4. /\ SumOver(h, s) = h[t] + SumOver(h, r)
          /\ SumOver(f, s) = f[t] + SumOver(f, r)
          /\ SumOver(g, s) = g[t] + SumOver(g, r)
      BY <2>1, <3>1, SumSplits
    <3> HIDE DEF r
    <3>5. SumOver(f, r) \in Int /\ SumOver(g, r) \in Int
      BY <3>2, SumType
    <3> QED BY <2>1, <3>1, <3>3, <3>4, <3>5
  <2> QED BY <2>2, <2>3
<1>2. SUBSET S \subseteq Good
  <2> HIDE DEF Good
  <2> QED BY <1>1, SubsetInduction
<1> QED BY <1>2

\* The sum over two sets that share nothing is the two sums.
LEMMA SumUnion ==
  ASSUME NEW S, NEW T, IsFiniteSet(S), IsFiniteSet(T), S \cap T = {}, NEW f, \A x \in S \cup T : f[x] \in Int
  PROVE  SumOver(f, S \cup T) = SumOver(f, S) + SumOver(f, T)
<1> DEFINE Good == {s \in SUBSET T : SumOver(f, S \cup s) = SumOver(f, S) + SumOver(f, s)}
<1>0. SumOver(f, S) \in Int
  BY SumType
<1>1. ASSUME NEW s \in SUBSET T, (SUBSET s) \ {s} \subseteq Good PROVE s \in Good
  <2>1. IsFiniteSet(s) /\ \A x \in s : f[x] \in Int
    BY FS_Subset
  <2>2. CASE s = {}
    <3>1. SumOver(f, s) = 0 /\ S \cup s = S
      BY <2>1, <2>2, SumType
    <3>2. SumOver(f, S \cup s) = SumOver(f, S)
      BY <3>1
    <3> HIDE DEF Good
    <3>3. SumOver(f, S \cup s) = SumOver(f, S) + SumOver(f, s)
      BY <1>0, <3>1, <3>2
    <3> QED BY <3>3 DEF Good
  <2>3. CASE s # {}
    <3>1. PICK t \in s : TRUE
      BY <2>3
    <3> DEFINE r == s \ {t}
               u == S \cup r
    <3>2. r \in (SUBSET s) \ {s} /\ IsFiniteSet(r) /\ \A x \in r : f[x] \in Int
      BY <2>1, <3>1, FS_RemoveElement
    <3>3. SumOver(f, u) = SumOver(f, S) + SumOver(f, r)
      BY <1>1, <3>2
    <3>4. SumOver(f, s) = f[t] + SumOver(f, r)
      BY <2>1, <3>1, SumSplits
    <3>5. IsFiniteSet(u) /\ t \notin u /\ f[t] \in Int /\ (\A x \in u : f[x] \in Int) /\ S \cup s = u \cup {t}
      BY <2>1, <3>1, <3>2, FS_Union
    <3> HIDE DEF r, u
    <3>6. SumOver(f, u \cup {t}) = f[t] + SumOver(f, u)
      BY <3>5, SumJoins
    <3>7. SumOver(f, r) \in Int
      BY <3>2, SumType
    <3>8. SumOver(f, S \cup s) = f[t] + SumOver(f, u)
      BY <3>5, <3>6
    <3> HIDE DEF Good
    <3>9. SumOver(f, S \cup s) = SumOver(f, S) + SumOver(f, s)
      BY <1>0, <3>3, <3>4, <3>5, <3>7, <3>8
    <3> QED BY <3>9 DEF Good
  <2> QED BY <2>2, <2>3
<1>2. SUBSET T \subseteq Good
  <2> HIDE DEF Good
  <2> QED BY <1>1, SubsetInduction
<1> QED BY <1>2

\* With more terms of zero and more a sum does not fall, and a union's is at
\* most the two sums.
LEMMA SumGrows ==
  ASSUME NEW S, NEW T, IsFiniteSet(T), S \subseteq T, NEW f, \A x \in T : f[x] \in Int /\ f[x] >= 0
  PROVE  SumOver(f, S) <= SumOver(f, T)
<1> DEFINE R == T \ S
<1>1. IsFiniteSet(S) /\ IsFiniteSet(R) /\ S \cap R = {} /\ S \cup R = T
  BY FS_Subset
<1>2. SumOver(f, T) = SumOver(f, S) + SumOver(f, R)
  <2>1. \A x \in S \cup R : f[x] \in Int
    OBVIOUS
  <2> HIDE DEF R
  <2> QED BY <1>1, <2>1, SumUnion
<1>3. SumOver(f, S) \in Nat /\ SumOver(f, R) \in Nat
  BY <1>1, SumIsNat
<1> QED BY <1>2, <1>3

LEMMA SumCovers ==
  ASSUME NEW S, NEW T, IsFiniteSet(S), IsFiniteSet(T), NEW f, \A x \in S \cup T : f[x] \in Int /\ f[x] >= 0
  PROVE  SumOver(f, S \cup T) <= SumOver(f, S) + SumOver(f, T)
<1> DEFINE R == T \ S
<1>1. IsFiniteSet(R) /\ S \cap R = {} /\ S \cup R = S \cup T /\ R \subseteq T
  BY FS_Subset
<1>2. SumOver(f, S \cup T) = SumOver(f, S) + SumOver(f, R)
  <2>1. \A x \in S \cup R : f[x] \in Int
    OBVIOUS
  <2>2. SumOver(f, S \cup R) = SumOver(f, S) + SumOver(f, R)
    <3> HIDE DEF R
    <3> QED BY <1>1, <2>1, SumUnion
  <2> QED BY <1>1, <2>2
<1>3. SumOver(f, R) <= SumOver(f, T)
  BY <1>1, SumGrows
<1>4. SumOver(f, S) \in Nat /\ SumOver(f, R) \in Nat /\ SumOver(f, T) \in Nat
  BY <1>1, SumIsNat
<1> QED BY <1>2, <1>3, <1>4

-----------------------------------------------------------------------------
(* Extremes                                                                *)

LEMMA MaxIn ==
  ASSUME NEW S, IsFiniteSet(S), S # {}, S \subseteq Int
  PROVE  Max(S) \in S /\ \A y \in S : Max(S) >= y
<1> DEFINE Good == {s \in SUBSET S : s # {} => \E x \in s : \A y \in s : x >= y}
<1>1. ASSUME NEW s \in SUBSET S, (SUBSET s) \ {s} \subseteq Good PROVE s \in Good
  <2> SUFFICES ASSUME s # {} PROVE \E x \in s : \A y \in s : x >= y
    OBVIOUS
  <2>1. PICK t \in s : TRUE
    OBVIOUS
  <2> DEFINE r == s \ {t}
  <2>2. r \in Good
    BY <1>1, <2>1
  <2>3. CASE r = {}
    BY <2>3
  <2>4. CASE r # {}
    <3>1. PICK x \in r : \A y \in r : x >= y
      BY <2>2, <2>4
    <3>2. x \in Int /\ t \in Int /\ \A y \in s : y \in Int /\ (y = t \/ y \in r)
      BY <2>1, <3>1
    <3>3. CASE x >= t
      BY <3>1, <3>2, <3>3
    <3>4. CASE ~(x >= t)
      <4>1. \A y \in r : t >= y
        BY <3>1, <3>2, <3>4
      <4> QED BY <3>2, <4>1
    <3> QED BY <3>3, <3>4
  <2> QED BY <2>3, <2>4
<1>2. SUBSET S \subseteq Good
  <2> HIDE DEF Good
  <2> QED BY <1>1, SubsetInduction
<1>3. \E x \in S : \A y \in S : x >= y
  BY <1>2
<1> QED BY <1>3 DEF Max

LEMMA MinIn ==
  ASSUME NEW S, IsFiniteSet(S), S # {}, S \subseteq Int
  PROVE  Min(S) \in S /\ \A y \in S : Min(S) <= y
<1> DEFINE Good == {s \in SUBSET S : s # {} => \E x \in s : \A y \in s : x <= y}
<1>1. ASSUME NEW s \in SUBSET S, (SUBSET s) \ {s} \subseteq Good PROVE s \in Good
  <2> SUFFICES ASSUME s # {} PROVE \E x \in s : \A y \in s : x <= y
    OBVIOUS
  <2>1. PICK t \in s : TRUE
    OBVIOUS
  <2> DEFINE r == s \ {t}
  <2>2. r \in Good
    BY <1>1, <2>1
  <2>3. CASE r = {}
    BY <2>3
  <2>4. CASE r # {}
    <3>1. PICK x \in r : \A y \in r : x <= y
      BY <2>2, <2>4
    <3>2. x \in Int /\ t \in Int /\ \A y \in s : y \in Int /\ (y = t \/ y \in r)
      BY <2>1, <3>1
    <3>3. CASE x <= t
      BY <3>1, <3>2, <3>3
    <3>4. CASE ~(x <= t)
      <4>1. \A y \in r : t <= y
        BY <3>1, <3>2, <3>4
      <4> QED BY <3>2, <4>1
    <3> QED BY <3>3, <3>4
  <2> QED BY <2>3, <2>4
<1>2. SUBSET S \subseteq Good
  <2> HIDE DEF Good
  <2> QED BY <1>1, SubsetInduction
<1>3. \E x \in S : \A y \in S : x <= y
  BY <1>2
<1> QED BY <1>3 DEF Min

LEMMA OfTwo ==
  ASSUME NEW a \in Int, NEW b \in Int
  PROVE  /\ Max({a, b}) \in {a, b} /\ Max({a, b}) >= a /\ Max({a, b}) >= b
         /\ Min({a, b}) \in {a, b} /\ Min({a, b}) <= a /\ Min({a, b}) <= b
<1>1. IsFiniteSet({a, b})
  <2>1. IsFiniteSet({b}) /\ {a, b} = {b} \cup {a}
    BY FS_Singleton
  <2> QED BY <2>1, FS_AddElement
<1> QED BY <1>1, MaxIn, MinIn
-----------------------------------------------------------------------------
(* Counting a set of integers through from below                           *)

Rank(A, i) == Cardinality(A \cap (1 .. i))

LEMMA RankGrows ==
  ASSUME NEW A, IsFiniteSet(A), A \subseteq Nat \ {0}, NEW i \in A
  PROVE  /\ Rank(A, i) \in 1..Cardinality(A)
         /\ \A k \in A : i < k => Rank(A, i) < Rank(A, k)
<1> DEFINE Upto(k) == A \cap (1 .. k)
<1>1. \A k \in A : /\ Upto(k) \subseteq A /\ IsFiniteSet(Upto(k)) /\ Cardinality(Upto(k)) \in Nat
                   /\ Cardinality(Upto(k)) <= Cardinality(A)
  BY FS_Subset, FS_CardinalityType
<1>2. Upto(i) # {}
  OBVIOUS
<1>3. Cardinality(Upto(i)) # 0
  BY <1>1, <1>2, FS_EmptySet
<1>4. ASSUME NEW k \in A, i < k PROVE Cardinality(Upto(i)) < Cardinality(Upto(k))
  <2>1. Upto(i) \subseteq Upto(k) /\ k \in Upto(k) /\ k \notin Upto(i)
    <3>1. \A j \in A : j \in Int
      OBVIOUS
    <3>2. i \in Int /\ k \in Int /\ \A j \in A : j <= i => j <= k
      BY <1>4, <3>1
    <3>3. k <= k /\ ~(k <= i)
      BY <1>4, <3>2
    <3> QED BY <3>2, <3>3
  <2>2. /\ Cardinality(Upto(i)) <= Cardinality(Upto(k))
        /\ Cardinality(Upto(i)) = Cardinality(Upto(k)) => Upto(k) = Upto(i)
    BY <1>1, <2>1, FS_Subset
  <2> QED BY <1>1, <2>1, <2>2
<1>5. Cardinality(A) \in Nat
  BY FS_CardinalityType
<1> QED BY <1>1, <1>3, <1>4, <1>5 DEF Rank

\* The n-th smallest element: every one is counted, and once.
LEMMA PlacesInOrder ==
  ASSUME NEW A, IsFiniteSet(A), A \subseteq Nat \ {0}, NEW p,
         p = [n \in 1..Cardinality(A) |-> CHOOSE i \in A : Rank(A, i) = n]
  PROVE  p \in Bijection(1..Cardinality(A), A)
<1> DEFINE r == [i \in A |-> Rank(A, i)]
<1>1. r \in [A -> 1..Cardinality(A)] /\ \A i, k \in A : i < k => r[i] < r[k]
  BY RankGrows
<1>2. \A i, k \in A : r[i] = r[k] => i = k
  <2> SUFFICES ASSUME NEW i \in A, NEW k \in A, r[i] = r[k] PROVE i = k
    OBVIOUS
  <2>1. Cardinality(A) \in Nat
    BY FS_CardinalityType
  <2>2. ~(r[i] < r[k]) /\ ~(r[k] < r[i])
    BY <1>1, <2>1
  <2> QED BY <1>1, <2>2
<1>3. r \in Injection(A, 1..Cardinality(A))
  BY <1>1, <1>2 DEF Injection, IsInjective
<1>4. Cardinality(A) \in Nat /\ IsFiniteSet(1..Cardinality(A)) /\ Cardinality(1..Cardinality(A)) = Cardinality(A)
  BY FS_CardinalityType, FS_Interval
<1>5. r \in Surjection(A, 1..Cardinality(A))
  BY <1>3, <1>4, FS_Injection
<1>6. \A n \in 1..Cardinality(A) : \E i \in A : r[i] = n
  BY <1>5 DEF Surjection
<1>7. \A n \in 1..Cardinality(A) : p[n] \in A /\ r[p[n]] = n
  BY <1>6
<1>8. p \in [1..Cardinality(A) -> A]
  BY <1>7
<1>9. \A n, m \in 1..Cardinality(A) : p[n] = p[m] => n = m
  BY <1>7
<1>10. \A i \in A : \E n \in 1..Cardinality(A) : p[n] = i
  <2> SUFFICES ASSUME NEW i \in A PROVE p[r[i]] = i /\ r[i] \in 1..Cardinality(A)
    OBVIOUS
  <2>1. r[i] \in 1..Cardinality(A)
    BY <1>1
  <2> HIDE DEF r
  <2> QED BY <1>2, <1>7, <2>1
<1> QED BY <1>8, <1>9, <1>10 DEF Bijection, Injection, Surjection, IsInjective

-----------------------------------------------------------------------------
(* A fold of a sequence from the left, as FoldLeft spells it out: the      *)
(* newest element is the one at the greatest index.                        *)

\* Indices.
FiniteInts(D) == IsFiniteSet(D) /\ D \subseteq Int

\* h solves the recursion of a fold from the left.
LeftFolded(h, D, base, step) ==
  /\ h = [s \in SUBSET D |-> h[s]] /\ h[{}] = base
  /\ \A s \in SUBSET D : s # {} => Max(s) \in s /\ h[s] = step[<<Max(s), h[s \ {Max(s)}]>>]

\* The recursion has a solution, with its values where step leaves them.
LEMMA LeftFoldExists ==
  ASSUME NEW D, FiniteInts(D), NEW V, NEW base \in V, NEW step \in [D \X V -> V]
  PROVE  \E h \in [SUBSET D -> V] : LeftFolded(h, D, base, step)
<1> DEFINE pick == [s \in SUBSET D |-> Max(s)]
<1>0. IsFiniteSet(D)
  BY DEF FiniteInts
<1>1. \A s \in SUBSET D : s # {} => Max(s) \in s
  BY FS_Subset, MaxIn DEF FiniteInts
<1>2. \A s \in SUBSET D : s # {} => pick[s] \in s
  BY <1>1
<1> HIDE DEF pick
<1>3. PICK h : Folded(h, D, base, step, pick)
  BY <1>0, <1>2, FoldExists
<1>4. h \in [SUBSET D -> V]
  BY <1>0, <1>2, <1>3, FoldedType
<1>5. \A s \in SUBSET D : h[s] = IF s = {} THEN base ELSE step[<<Max(s), h[s \ {Max(s)}]>>]
  BY <1>3 DEF Folded, pick
<1>6. h = [s \in SUBSET D |-> h[s]]
  BY <1>4
<1>7. LeftFolded(h, D, base, step)
  BY <1>1, <1>5, <1>6 DEF LeftFolded
<1> QED BY <1>4, <1>7

\* made stays in V when each element does not leave it.
StaysIn(made, D, V) ==
  /\ made[{}] \in V
  /\ \A s \in SUBSET D : s # {} /\ Max(s) \in s /\ made[s \ {Max(s)}] \in V => made[s] \in V

\* So the whole fold is in V.
LEMMA LeftFoldStays ==
  ASSUME NEW D, FiniteInts(D), NEW V, NEW made, StaysIn(made, D, V)
  PROVE  made[D] \in V
<1> DEFINE Good == {s \in SUBSET D : made[s] \in V}
<1>0. IsFiniteSet(D)
  BY DEF FiniteInts
<1>1. \A s \in SUBSET D : s # {} => Max(s) \in s
  BY FS_Subset, MaxIn DEF FiniteInts
<1>2. ASSUME NEW s \in SUBSET D, (SUBSET s) \ {s} \subseteq Good PROVE s \in Good
  <2>1. s # {} => s \ {Max(s)} \in Good
    BY <1>1, <1>2
  <2>2. s # {} => made[s] \in V
    BY <1>1, <2>1 DEF StaysIn
  <2>3. made[{}] \in V
    BY DEF StaysIn
  <2> QED BY <2>2, <2>3
<1>3. \A s \in SUBSET D : (SUBSET s) \ {s} \subseteq Good => s \in Good
  BY <1>2
<1>4. SUBSET D \subseteq Good
  <2> HIDE DEF Good
  <2> QED BY <1>0, <1>3, SubsetInduction
<1> QED BY <1>4
==============================================================================
