----------------------------- MODULE Portfolio -----------------------------
(***************************************************************************)
(* What becomes of a content as its numbers come in, how long an account   *)
(* warms up, and the plan that brings the two together                     *)
(* (execution/content_lifecycle.py, account_warmup.py and                  *)
(* portfolio_allocator.py).  A viral score is an average that moves slowly:*)
(* it is low, fair or high, and never passes from low to high at once.     *)
(***************************************************************************)
EXTENDS SequencesExt, Integers

CONSTANTS
  Contents,      \* a sequence: the candidates, best first
  WinCycles, FailCycles, ScaleCycles, DecayCycles,   \* _WIN_CYCLES ..
  MaxCycles,     \* bound: reports on one content
  MaxDays,       \* bound: days of a warm-up
  PostAccounts,
  WarmupEnabled, \* WARMUP_ENABLED
  StageDays,     \* _STAGE_DAYS
  Budgets        \* slots a cycle may ask for

ASSUME PortfolioAssumption ==
  /\ Contents \in Seq(ToSet(Contents)) /\ IsInjective(Contents)
  /\ IsFiniteSet(PostAccounts) /\ Budgets \subseteq Nat
  /\ StageDays \in [0..2 -> Nat]

VARIABLES
  content,       \* rows of table lifecycle
  warm,          \* rows of table warmup; stage -1: no row
  acquainted,    \* days since the row was made
  allotment      \* the last plan: its budget, its slots and whom it did not check

portfolioVars == <<content, warm, acquainted, allotment>>

ReportScores == <<"low", "fair", "high">>
Near(s) == {t \in ToSet(ReportScores) : {s, t} # {"low", "high"}}   \* one step of the average
PostStage == 3   \* _POST_STAGE
Bucket == [winning |-> "winner", scaling |-> "winner", testing |-> "normal",
           saturated |-> "normal", recycle |-> "explore", dead |-> "none"]

NewContent == [state |-> "testing", score |-> "low", wins |-> 0, fails |-> 0, cycles |-> 0, total |-> 0]
NoPlan == [budget |-> 0, unchecked |-> {}, slots |-> <<>>]

PortfolioInit(rows) ==
  /\ content \in [ToSet(Contents) -> rows]
  /\ warm = [a \in PostAccounts |-> [stage |-> -1, days |-> 0]]
  /\ acquainted = [a \in PostAccounts |-> 0]
  /\ allotment = NoPlan

-----------------------------------------------------------------------------
(* advance                                                                 *)

Decayed(n) == IF n > 0 THEN n - 1 ELSE 0

\* The metrics of one report: the counters of a fair cycle decay, they are not reset.
Tallied(l, s) ==
  [l EXCEPT !.score = s, !.cycles = @ + 1, !.total = @ + 1,
     !.wins = CASE s = "high" -> @ + 1 [] s = "low" -> 0 [] s = "fair" -> Decayed(@),
     !.fails = CASE s = "low" -> @ + 1 [] s = "high" -> 0 [] s = "fair" -> Decayed(@)]

\* hook: the hook is strong; drop: views an hour have fallen by _VELOCITY_DROP.
NextState(l, hook, drop) ==
  CASE l.state = "testing" /\ l.wins >= WinCycles -> "winning"
    [] l.state = "testing" /\ l.fails >= FailCycles -> "dead"
    [] l.state = "winning" /\ l.cycles >= ScaleCycles /\ l.wins >= ScaleCycles -> "scaling"
    [] l.state = "winning" /\ l.fails >= DecayCycles -> "saturated"
    [] l.state = "scaling" /\ drop -> "saturated"
    [] l.state = "saturated" /\ l.score = "low" /\ hook -> "recycle"
    [] l.state = "saturated" /\ l.score = "low" /\ ~hook /\ l.fails >= FailCycles -> "dead"
    [] l.state = "recycle" /\ l.score = "high" -> "winning"
    [] l.state = "recycle" /\ l.fails >= 2 * FailCycles -> "dead"
    [] OTHER -> l.state

\* _transition
Transition(l, s) == IF s = l.state THEN l ELSE [l EXCEPT !.state = s, !.cycles = 0]

\* The metrics are written first: if the transition cannot be, they stay.
Advance(c) ==
  /\ content[c].total < MaxCycles
  /\ \E s \in Near(content[c].score), hook, drop, written \in BOOLEAN :
       LET l == Tallied(content[c], s)
           m == IF written THEN Transition(l, NextState(l, hook, drop)) ELSE l
       IN  content' = [content EXCEPT ![c] = m]
  /\ UNCHANGED <<warm, acquainted, allotment>>

-----------------------------------------------------------------------------
(* Warm-up                                                                 *)

\* _ensure_account
Known(w) == IF w.stage = -1 THEN [stage |-> 0, days |-> 0] ELSE w

\* advance_stage_if_ready
Promoted(w) ==
  IF w.stage < PostStage /\ w.days >= StageDays[w.stage]
  THEN [stage |-> w.stage + 1, days |-> 0]
  ELSE w

\* run_warmup_session: the stage moves before the browser opens, so it does not
\* matter how the session goes.
WarmupSession(a) ==
  /\ WarmupEnabled
  /\ warm' = [warm EXCEPT ![a] = Promoted(Known(@))]
  /\ UNCHANGED <<content, acquainted, allotment>>

WarmupDay ==
  /\ \E a \in PostAccounts : warm[a].stage \in 0 .. PostStage - 1
  /\ warm' = [a \in PostAccounts |->
       IF warm[a].stage = -1 \/ warm[a].stage = PostStage THEN warm[a]
       ELSE [warm[a] EXCEPT !.days = IF @ < StageDays[warm[a].stage] THEN @ + 1 ELSE @]]
  /\ acquainted' = [a \in PostAccounts |->
       IF warm[a].stage = -1 \/ warm[a].stage = PostStage THEN acquainted[a] ELSE acquainted[a] + 1]
  /\ \A a \in PostAccounts : acquainted'[a] <= MaxDays
  /\ UNCHANGED <<content, allotment>>

-----------------------------------------------------------------------------
(* allocate                                                                *)

\* Python's round: a half goes to the even neighbour.
Round(n, d) ==
  LET q == n \div d
      r == n % d
  IN  IF 2 * r < d \/ (2 * r = d /\ q % 2 = 0) THEN q ELSE q + 1

\* Mutant: the slot kept for exploration is not taken from the winners.
SharesBeside(b) ==
  LET w == Round(60 * b, 100)
      n == Round(25 * b, 100)
  IN  [winner |-> w, normal |-> n, explore |-> IF b - w - n < 1 THEN 1 ELSE b - w - n]

\* The shares of a budget: exploration keeps a slot, at the winners' expense.
Shares(b) ==
  LET w == Round(60 * b, 100)
      n == Round(25 * b, 100)
      e == IF b - w - n < 1 THEN 1 ELSE b - w - n
      over == w + n + e - b
  IN  [winner |-> IF over > 0 THEN w - over ELSE w, normal |-> n, explore |-> e]

UpTo(s, n) == SubSeq(s, 1, IF n < Len(s) THEN n ELSE Len(s))
Beyond(s, n) == SubSeq(s, n + 1, Len(s))
\* The elements of s at the places A, in their order.
Sifted(s, A) == [n \in 1 .. Cardinality(A) |-> s[CHOOSE i \in A : Cardinality(A \cap (1 .. i)) = n]]
Ranked(b) == Sifted(Contents, {i \in DOMAIN Contents : Bucket[content[Contents[i]].state] = b})   \* rank_content
InBucket(s, b) == [i \in DOMAIN s |-> [content |-> s[i], bucket |-> b]]

\* Which content gets a slot: winners, padded with normals; normals; what is
\* left, shuffled (the order says who gets the slots, not how many there are).
Chosen(b) ==
  LET share == Shares(b)
      winners == Ranked("winner")
      normals == Ranked("normal")
      pad == IF Len(winners) < share.winner THEN UpTo(normals, share.winner - Len(winners)) ELSE <<>>
      rest == Beyond(normals, Len(pad))
  IN  InBucket(UpTo(winners \o pad, share.winner), "winner")
      \o InBucket(UpTo(rest, share.normal), "normal")
      \o InBucket(UpTo(Ranked("explore") \o Beyond(rest, share.normal), share.explore), "explore")

\* rank_accounts: is_ready_to_post makes a row for an account it has not seen.
\* Where the row cannot be written, and with the warm-up switched off, an
\* account is not checked and counts as ready.
Unchecked(free, locked) == IF WarmupEnabled THEN locked ELSE free
RankAccounts(free, locked) ==
  Unchecked(free, locked) \cup {a \in free : Known(warm[a]).stage >= PostStage}

\* free: the accounts that are below the daily limit, as the caller says;
\* locked: those whose row could not be written.
Allocate(b, free, locked) ==
  LET ready == SetToSeq(RankAccounts(free, locked))
      seen == IF b > 0 THEN free \ Unchecked(free, locked) ELSE {}
      picks == IF b = 0 \/ ready = <<>> THEN <<>> ELSE Chosen(b)
  IN  /\ warm' = [a \in PostAccounts |-> IF a \in seen THEN Known(warm[a]) ELSE warm[a]]
      /\ allotment' = [budget |-> b, unchecked |-> Unchecked(free, locked),
                  slots |-> [i \in DOMAIN picks |->
                     [content |-> picks[i].content, bucket |-> picks[i].bucket,
                      account |-> ready[((i - 1) % Len(ready)) + 1]]]]
      /\ UNCHANGED <<content, acquainted>>

WarmUpActs == WarmupDay \/ \E a \in PostAccounts : WarmupSession(a)
AllocateActs ==
  \E b \in Budgets, free \in SUBSET PostAccounts : \E locked \in SUBSET free : Allocate(b, free, locked)

-----------------------------------------------------------------------------
(* Properties                                                              *)

SlotsOf(bucket) == {i \in DOMAIN allotment.slots : allotment.slots[i].bucket = bucket}
ContentOf(slots) == {allotment.slots[i].content : i \in slots}
Explorable ==
  {c \in ToSet(Contents) : Bucket[content[c].state] \in {"normal", "explore"}}
    \ ContentOf(SlotsOf("winner") \cup SlotsOf("normal"))

SoundPlan ==
  /\ Len(allotment.slots) <= allotment.budget
  /\ Cardinality(ContentOf(DOMAIN allotment.slots)) = Len(allotment.slots)
  /\ allotment.slots # <<>> /\ Explorable # {} => SlotsOf("explore") # {}
  /\ \A i \in DOMAIN allotment.slots :
       \/ allotment.slots[i].account \in allotment.unchecked
       \/ acquainted[allotment.slots[i].account] >= StageDays[0] + StageDays[1] + StageDays[2]

\* A plan hands out no more slots than its budget has and no content twice, and
\* leaves the exploration its slot while there is content for it
\* (portfolio_allocator.py:29 "Exploration bucket always includes at least 1
\* slot").  An account that it could check it books only when it has been known
\* for all the days of the warm-up, however plans, sessions and refused writes
\* have made its row.
PlanIsSound == [][allotment' # allotment => SoundPlan']_portfolioVars
=============================================================================
