---------------------------- MODULE FleetSessions ----------------------------
(***************************************************************************)
(* The fleet over its accounts' sessions: sliding windows on session       *)
(* starts, uploads and bans, the SAFE mode after a spike of bans, sticky   *)
(* proxies, and the hint that makes a session differ from the last ones    *)
(* (core/fleet_coordinator.py over core/session_orchestrator.py).          *)
(***************************************************************************)
EXTENDS SessionBrains

CONSTANTS
  MaxStarts,     \* max_sessions_per_minute
  MaxUploads,    \* max_uploads_per_hour
  BanSpike,      \* ban_spike_threshold
  Stickiness,    \* proxy_stickiness_window
  Asking,        \* the accounts whose callers ask for an upload slot
  AlikeMin,      \* sessions before their likeness counts (5)
  MaxSessions    \* bound on the sessions reported, over all accounts

VARIABLES
  mode,       \* _fleet_mode
  window,     \* the events in each sliding window
  health,     \* by account: registered, sessions_today
  proxy,      \* by account: rotation_slot and assigned_at_session, slot -1 without
  hint,       \* accounts with a pending diversity hint
  turn,       \* by account: where its caller is, the plan, the hint it took
  quiet       \* by account: sessions since its last block, MaxSessions without one

fleetVars == <<mode, window, health, proxy, hint, turn, quiet>>
fleetAndBrainVars == <<fleetVars, brainVars>>

NoPlan == [intent |-> "idle", steps |-> <<>>]
Idle == [step |-> "none", plan |-> NoPlan, varied |-> FALSE]

FleetInit ==
  /\ BrainInit
  /\ mode = "NORMAL"
  /\ window = [starts |-> 0, uploads |-> 0, bans |-> 0]
  /\ health = [a \in Members |-> [known |-> FALSE, sessions |-> 0]]
  /\ proxy = [a \in Members |-> [slot |-> -1, since |-> 0]]
  /\ hint = {}
  /\ turn = [a \in Members |-> Idle]
  /\ quiet = [a \in Members |-> MaxSessions]

Reported == FoldFunction(LAMBDA h, n : h.sessions + n, 0, health)

-----------------------------------------------------------------------------
(* A turn: a slot, the start, the plan, the outcome                        *)

\* request_slot: an account not seen before is taken in.
RequestSlot(a) ==
  /\ turn[a].step = "none" /\ Reported < MaxSessions
  /\ health' = [health EXCEPT ![a].known = TRUE]
  /\ turn' = IF mode = "SAFE" \/ window.starts >= MaxStarts THEN turn
             ELSE [turn EXCEPT ![a].step = "allowed"]
  /\ UNCHANGED <<mode, window, proxy, hint, quiet, brainVars>>

\* record_session_start, after the stagger: nobody looks at the mode again. A
\* batch takes the account's hint with it; a caller that follows the module's
\* own usage does not.
Start(a) ==
  /\ turn[a].step = "allowed"
  /\ window' = [window EXCEPT !.starts = @ + 1]
  /\ \E batch \in BOOLEAN :
       /\ turn' = [turn EXCEPT ![a] = [@ EXCEPT !.step = "started", !.varied = batch /\ a \in hint]]
       /\ hint' = IF batch THEN hint \ {a} ELSE hint
  /\ UNCHANGED <<mode, health, proxy, quiet, brainVars>>

\* enforce_diversity: a pause before the first scroll; a plan without a scroll
\* would get a look around before its last step, but only idle ones have none.
FirstScroll(steps) == SelectInSeq(steps, LAMBDA s : s.action = "scroll_feed" /\ s.skippable)

Diverse(plan) ==
  LET i == FirstScroll(plan.steps)
      at == IF i # 0 THEN i ELSE Len(plan.steps)
      extra == IF i # 0 THEN May("micro_idle") ELSE May("micro_browse")
  IN  IF i = 0 /\ plan.intent \in {"idle", "upload"} THEN plan
      ELSE [plan EXCEPT !.steps = InsertAt(@, at, extra)]

\* SessionOrchestrator.prepare, and for a varied session enforce_diversity.
Prepare(a) ==
  /\ turn[a].step = "started"
  /\ \E s \in Signals, taps \in BOOLEAN : \E risk \in Risks(a, s), intent \in Intents(a, s) :
       LET plan == [intent |-> Allowed(intent, risk), steps |-> Planned(a, Allowed(intent, risk), taps)]
       IN  /\ Decide(a, s, risk)
           /\ turn' = [turn EXCEPT ![a].step = "prepared",
                                   ![a].plan = IF turn[a].varied THEN Diverse(plan) ELSE plan]
  /\ UNCHANGED <<mode, window, health, proxy, hint, quiet>>

\* prepare raises: the start stays counted and the hint it took is gone.
PrepareFails(a) ==
  /\ turn[a].step = "started"
  /\ turn' = [turn EXCEPT ![a] = Idle]
  /\ UNCHANGED <<mode, window, health, proxy, hint, quiet, brainVars>>

\* request_upload_slot. A batch never asks: record_upload counts what happened.
MayUpload == mode = "NORMAL" /\ window.uploads < MaxUploads

\* What a session can come to: an upload only where one was planned.
Results(a) == Outcomes \ (IF turn[a].plan.intent = "upload" /\ (a \in Asking => MayUpload)
                          THEN {} ELSE {"uploaded"})

\* _check_ban_spike, and _check_diversity when most of the last sessions were the same
Guarded(bans) == IF bans >= BanSpike THEN "SAFE" ELSE mode
Hinted(a, same) == IF same /\ health[a].sessions + 1 >= AlikeMin THEN hint \cup {a} ELSE hint

\* finalize, then report_result
Report(a) ==
  /\ turn[a].step = "prepared"
  /\ \E outcome \in Results(a), answers \in BOOLEAN, same \in BOOLEAN :
       LET bans == window.bans + (IF outcome = "blocked" THEN 1 ELSE 0)
       IN  /\ Remember(a, outcome, answers)
           /\ window' = [window EXCEPT !.bans = bans,
                                       !.uploads = @ + (IF outcome = "uploaded" THEN 1 ELSE 0)]
           /\ mode' = IF outcome = "blocked" THEN Guarded(bans) ELSE mode
           /\ health' = [health EXCEPT ![a].sessions = @ + 1]
           /\ hint' = Hinted(a, same)
           /\ quiet' = [quiet EXCEPT ![a] = IF outcome = "blocked" THEN 0
                                            ELSE IF @ < MaxSessions THEN @ + 1 ELSE @]
  /\ turn' = [turn EXCEPT ![a] = Idle]
  /\ UNCHANGED proxy

-----------------------------------------------------------------------------
(* Proxies, the passing of time, the operator                              *)

Assigned(a, slot) == [slot |-> slot, since |-> health[a].sessions]

\* get_proxy: the same proxy for Stickiness sessions, then the next slot's.
GetProxy(a) ==
  /\ \/ proxy[a].slot = -1 /\ proxy' = [proxy EXCEPT ![a] = Assigned(a, 0)]
     \/ /\ proxy[a].slot # -1 /\ health[a].sessions - proxy[a].since >= Stickiness
        /\ proxy' = [proxy EXCEPT ![a] = Assigned(a, proxy[a].slot + 1)]
  /\ UNCHANGED <<mode, window, health, hint, turn, quiet, brainVars>>

\* The oldest event leaves its window.
Passes(w) ==
  /\ window[w] > 0
  /\ window' = [window EXCEPT ![w] = @ - 1]
  /\ UNCHANGED <<mode, health, proxy, hint, turn, quiet, brainVars>>

\* set_fleet_mode: the only way out of SAFE.
SetFleetMode(m) ==
  /\ mode # m
  /\ mode' = m
  /\ UNCHANGED <<window, health, proxy, hint, turn, quiet, brainVars>>

FleetNext ==
  \/ \E a \in Members :
       \/ RequestSlot(a) \/ Start(a) \/ Prepare(a) \/ PrepareFails(a) \/ Report(a)
       \/ GetProxy(a)
       \/ BansExpire(a) /\ UNCHANGED fleetVars
  \/ \E w \in DOMAIN window : Passes(w)
  \/ \E m \in {"NORMAL", "SAFE"} : SetFleetMode(m)

-----------------------------------------------------------------------------
(* Properties                                                              *)

\* An account that was blocked uploads in none of its next three sessions,
\* whatever its signals, its fingerprint and its personality say by then.
QuietAfterBlock ==
  \A a \in Members : turn[a].step = "prepared" /\ turn[a].plan.intent = "upload" => quiet[a] >= 3
=============================================================================
