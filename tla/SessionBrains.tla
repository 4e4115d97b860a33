---------------------------- MODULE SessionBrains ----------------------------
(***************************************************************************)
(* What an account does in its next session, decided in one pass:          *)
(* StealthBrain rates the risk, MutationController changes the             *)
(* fingerprint, BehavioralBrain picks the intent and lays out the steps;   *)
(* the outcome of the session feeds the next decision                      *)
(* (core/stealth_brain.py, core/mutation_controller.py,                    *)
(* core/behavioral_brain.py).                                              *)
(***************************************************************************)
EXTENDS Integers, Sequences, FiniteSets, SequencesExt

CONSTANTS
  Members,         \* the accounts
  WarmupSessions,  \* BehaviorProfile.warmup_sessions
  Daring,          \* aggressiveness: what a healthy account picks its intent from
  Stride,          \* 1 or 2 by mutation_state: a full change of the fingerprint
  MaxPartials,     \* MAX_PARTIALS_BEFORE_FULL (5)
  BadStreak,       \* CONSECUTIVE_BAD_THRESHOLD (3)
  HistoryMax,      \* outcomes kept (10)
  CaptchaLimit,    \* captchas that raise the risk (3)
  Earned           \* uploads that earn the next one (3)

VARIABLES
  past,      \* outcome_history by account, oldest first
  held,      \* fingerprints the account was blocked with (banned_fingerprints)
  shunned,   \* the same of every account: GlobalMemory
  streak,    \* consecutive_bad
  face,      \* the active fingerprint: mutation_state, canvas rotated since
  drift,     \* mutation history: any at all, partials since the last full, skips in a row
  counter      \* _session_counters

brainVars == <<past, held, shunned, streak, face, drift, counter>>

Scores == {"low", "medium", "high"}   \* below .30, .60, above
Signals == [score : Scores, exposed : BOOLEAN, mismatch : BOOLEAN]
Outcomes == {"plain", "uploaded", "captcha", "blocked"}

BrainInit ==
  /\ past = [a \in Members |-> <<>>]
  /\ held = [a \in Members |-> {}]
  /\ shunned = {}
  /\ streak = [a \in Members |-> 0]
  /\ face = [a \in Members |-> [owner |-> a, state |-> 0, rotated |-> FALSE]]
  /\ drift = [a \in Members |-> [any |-> FALSE, partials |-> 0, skips |-> 0]]
  /\ counter = [a \in Members |-> 0]

-----------------------------------------------------------------------------
(* Layer 3: the risk                                                       *)

Recent(n, a) == LET len == Len(past[a]) IN SubSeq(past[a], IF len > n THEN len - n + 1 ELSE 1, len)
Occurrences(outcome, seq) == Cardinality({i \in DOMAIN seq : seq[i] = outcome})

\* Mutant: only the last session is looked back at.
BlockedLatelyShort(a) == Occurrences("blocked", Recent(1, a)) > 0
BlockedLately(a) == Occurrences("blocked", Recent(3, a)) > 0

\* _classify_risk of the score, nudged up by the global ban rate (.06 at most)
\* and either way by the persona (4% at most).
Tiers(score) ==
  CASE score \in {"low", "medium"} -> {"LOW", "MEDIUM"}
    [] OTHER -> {"MEDIUM", "HIGH"}

StreakAfter(a, s) == IF s.score = "low" THEN 0
                     ELSE IF streak[a] < BadStreak THEN streak[a] + 1 ELSE BadStreak

\* A streak of bad signals raises the risk by one tier.
Escalated(tier, bad) ==
  IF bad < BadStreak THEN tier
  ELSE IF tier = "LOW" THEN "MEDIUM" ELSE "HIGH"

Alarm(a, s) ==
  \/ Occurrences("captcha", Recent(5, a)) >= CaptchaLimit
  \/ BlockedLately(a)
  \/ face[a] \in shunned
  \/ face[a] \in held[a]
  \/ s.exposed

\* StealthBrain.evaluate
Risks(a, s) == IF Alarm(a, s) THEN {"HIGH"}
               ELSE {Escalated(t, StreakAfter(a, s)) : t \in Tiers(s.score)}

-----------------------------------------------------------------------------
(* The fingerprint                                                         *)

\* The first change never waits; later ones may fall into the cooldown or the
\* delay of a tired account, or be skipped, but not three times in a row.
Rests(a) == drift[a].any
Skips(a) == drift[a].any /\ drift[a].skips < 2

Untouched(a) == UNCHANGED face /\ drift' = [drift EXCEPT ![a].skips = 0]

\* A full change: new noise seeds under a later state.
Regenerate(a) ==
  /\ face' = [face EXCEPT ![a] = [owner |-> a, state |-> @.state + Stride[@.state % 2], rotated |-> FALSE]]
  /\ drift' = [drift EXCEPT ![a] = [any |-> TRUE, partials |-> 0, skips |-> 0]]

\* A partial one: the canvas seed follows from the state, so a second rotation
\* under the same state changes nothing but the history. sync_geo comes with no
\* place to sync to, and moves nothing.
Rotate(a) ==
  /\ face' = [face EXCEPT ![a].rotated = TRUE]
  /\ drift' = [drift EXCEPT ![a] = [any |-> TRUE, partials |-> @.partials + 1, skips |-> 0]]

\* MutationController.apply; far: the fingerprint's distance from its base.
Mutate(a, risk, mismatch) ==
  \/ risk = "LOW" /\ UNCHANGED <<face, drift>>
  \/ risk # "LOW" /\ Rests(a) /\ UNCHANGED <<face, drift>>
  \/ risk # "LOW" /\ Skips(a)
     /\ drift' = [drift EXCEPT ![a].skips = @ + 1] /\ UNCHANGED face
  \/ /\ risk # "LOW"
     /\ \E far \in {FALSE, drift[a].any} :
          IF risk = "HIGH" \/ far \/ drift[a].partials >= MaxPartials THEN Regenerate(a)
          ELSE IF mismatch THEN Rotate(a) ELSE Untouched(a)

-----------------------------------------------------------------------------
(* Layer 4: the intent and the steps                                       *)

\* decide_intent: the first rule that applies.
Intents(a, s) ==
  IF s.score = "high" \/ s.exposed THEN {"idle"}
  ELSE IF counter[a] < WarmupSessions THEN {"warmup"}
  ELSE IF BlockedLately(a) \/ Occurrences("captcha", past[a]) >= CaptchaLimit THEN {"browse"}
  ELSE IF Occurrences("uploaded", Recent(5, a)) >= Earned /\ s.score = "low" THEN {"upload"}
  ELSE IF s.score = "medium" THEN {"browse", "engage"}
  ELSE Daring

\* HIGH risk leaves an account to idle or browse.
Allowed(intent, risk) ==
  IF risk = "HIGH" /\ intent \notin {"idle", "browse"} THEN "browse" ELSE intent

Scroll == [action |-> "scroll_feed", skippable |-> TRUE]
Must(action) == [action |-> action, skippable |-> FALSE]
May(action) == [action |-> action, skippable |-> TRUE]
Opening == <<Must("open_app"), Must("app_loading")>>

\* _build_browse and the rest; how many scrolls and taps, how long each step and
\* the pauses between them take is drawn from the account's seed.
StepsOf(intent, taps) ==
  CASE intent = "browse" -> Opening \o <<Scroll>>
         \o (IF taps THEN <<May("tap_item"), Must("back_to_feed")>> ELSE <<>>) \o <<Must("close_app")>>
    [] intent = "warmup" -> Opening \o <<Scroll>>
         \o (IF taps THEN <<May("view_profile")>> ELSE <<>>) \o <<Must("idle_exit"), Must("close_app")>>
    [] intent = "engage" -> Opening \o <<Scroll>>
         \o (IF taps THEN <<May("like_item")>> ELSE <<>>) \o <<Scroll, Must("close_app")>>
    [] intent = "upload" -> Opening \o <<Scroll, Must("navigate_upload"), Must("select_content"),
         Must("edit_pause"), Must("fill_metadata"), Must("upload_confirm"), May("post_upload_idle"),
         Scroll, Must("close_app")>>
    [] OTHER -> Opening \o (IF taps THEN <<Scroll>> ELSE <<>>) \o <<Must("close_app")>>

\* The first session of all starts late.
Planned(a, intent, taps) ==
  (IF counter[a] = 0 THEN <<Must("warmup_idle")>> ELSE <<>>) \o StepsOf(intent, taps)

-----------------------------------------------------------------------------
(* SessionOrchestrator: prepare and finalize                               *)

\* What prepare leaves behind when it rated the signals s as this risk.
Decide(a, s, risk) ==
  /\ Mutate(a, risk, s.mismatch)
  /\ streak' = [streak EXCEPT ![a] = StreakAfter(a, s)]
  /\ counter' = [counter EXCEPT ![a] = @ + 1]
  /\ UNCHANGED <<past, held, shunned>>

\* record_outcome: a block bans the fingerprint the session was left with, for
\* the account and, when the store answers, for every other.
Remember(a, outcome, answers) ==
  /\ past' = [past EXCEPT ![a] = LET h == Append(@, outcome)
                                 IN  IF Len(h) > HistoryMax THEN Tail(h) ELSE h]
  /\ held' = IF outcome = "blocked" THEN [held EXCEPT ![a] = @ \cup {face[a]}] ELSE held
  /\ shunned' = IF outcome = "blocked" /\ answers /\ face[a] \notin held[a]
                THEN shunned \cup {face[a]} ELSE shunned
  /\ UNCHANGED <<streak, face, drift, counter>>

\* purge_expired_bans: seven days later the account may wear the fingerprint again.
BansExpire(a) ==
  /\ held[a] # {}
  /\ held' = [held EXCEPT ![a] = {}]
  /\ UNCHANGED <<past, shunned, streak, face, drift, counter>>
=============================================================================
