---------------------------- MODULE AccountRisk ----------------------------
(***************************************************************************)
(* The part of the accounts table that decides whether an account may      *)
(* publish: its status, session and risk counters, and the statements of   *)
(* database/database.py that change them.  A record_* method is three      *)
(* autocommitted statements: an UPDATE of a counter, then, in              *)
(* _recalculate_risk, a SELECT and an UPDATE with what was computed from   *)
(* it.  Scores are in hundredths.                                          *)
(***************************************************************************)
EXTENDS Integers

CONSTANTS
  Accounts,
  Proxies,
  NoProxy,       \* the empty proxy_url of a profile-managed browser
  ProxyOf,       \* accounts.proxy_url, which no session changes
  FailedBefore   \* failed_publish_count of the accounts to begin with

ASSUME ProxyAssumption == NoProxy \in Proxies /\ ProxyOf \in [Accounts -> Proxies]

\* The accounts begin healthy, so fewer failures than auto-limit one.
ASSUME RiskAssumption == FailedBefore \in 0 .. 3

Standings == {"healthy", "limited", "banned", "disabled"}
Marks == {"success", "failure", "captcha", "redirect"}
AutoPause == 70
AutoBan == 100

VARIABLES
  standing,   \* accounts.status
  softBan,    \* accounts with soft_ban_detected = 1
  connected,  \* accounts with session_valid = 1
  cooling,    \* accounts that published less than MIN_PUBLISH_INTERVAL_SECONDS ago
  counter,    \* failed_publish_count, captcha_hit_count, login_redirect_count
  score       \* risk_score

riskVars == <<standing, softBan, connected, cooling, counter, score>>

RiskOf(c) ==
  LET s == 20 * c.failed + 30 * c.captchas + 25 * c.redirects
  IN  IF s < 100 THEN s ELSE 100

\* Mutant: asks for the lower threshold first.
EscalatedInOrder(s, now) ==
  IF s >= AutoPause THEN (IF now = "healthy" THEN "limited" ELSE now)
  ELSE IF s >= AutoBan THEN "banned" ELSE now

\* The status _recalculate_risk gives an account of this score and status.
Escalated(s, now) ==
  IF s >= AutoBan THEN "banned"
  ELSE IF s >= AutoPause /\ now = "healthy" THEN "limited" ELSE now

RiskInit ==
  LET c == [failed |-> FailedBefore, captchas |-> 0, redirects |-> 0]
  IN  /\ standing = [x \in Accounts |-> "healthy"]
      /\ softBan = {}
      /\ connected = Accounts
      /\ cooling = {}
      /\ counter = [x \in Accounts |-> c]
      /\ score = [x \in Accounts |-> RiskOf(c)]

-----------------------------------------------------------------------------
(* record_publish_success, record_publish_failure, record_captcha_hit and  *)
(* record_login_redirect                                                   *)

\* Mutant: without MAX(0, ...).
RelievedBelowZero(n) == n - 1

\* MAX(0, failed_publish_count - 1)
Relieved(n) == IF n = 0 THEN 0 ELSE n - 1

Counted(c, mark) ==
  CASE mark = "success"  -> [c EXCEPT !.failed = Relieved(@)]
    [] mark = "failure"  -> [c EXCEPT !.failed = @ + 1]
    [] mark = "captcha"  -> [c EXCEPT !.captchas = @ + 1]
    [] mark = "redirect" -> [c EXCEPT !.redirects = @ + 1]

\* The first UPDATE.
CountMark(x, mark) ==
  /\ counter' = [counter EXCEPT ![x] = Counted(@, mark)]
  /\ connected' = IF mark \in {"captcha", "redirect"} THEN connected \ {x} ELSE connected
  /\ cooling' = IF mark = "success" THEN cooling \cup {x} ELSE cooling
  /\ UNCHANGED <<standing, softBan, score>>

\* What _recalculate_risk makes of the row it has selected.
Recalculated(x) ==
  LET s == RiskOf(counter[x])
  IN  [score |-> s, standing |-> Escalated(s, standing[x])]

\* Its UPDATE, whatever has happened to the row since.
WriteBack(x, new) ==
  /\ score' = [score EXCEPT ![x] = new.score]
  /\ standing' = [standing EXCEPT ![x] = new.standing]
  /\ UNCHANGED <<softBan, connected, cooling, counter>>

-----------------------------------------------------------------------------
(* The operator, and time                                                  *)

\* update_account_status
SetStanding(x, new) ==
  /\ standing' = [standing EXCEPT ![x] = new]
  /\ UNCHANGED <<softBan, connected, cooling, counter, score>>

MarkSoftBan(x) ==
  /\ softBan' = softBan \cup {x}
  /\ standing' = [standing EXCEPT ![x] = "limited"]
  /\ UNCHANGED <<connected, cooling, counter, score>>

ClearSoftBan(x) ==
  /\ softBan' = softBan \ {x}
  /\ standing' = [standing EXCEPT ![x] = "healthy"]
  /\ UNCHANGED <<connected, cooling, counter, score>>

\* save_account_session after a manual login
Reconnect(x) ==
  /\ connected' = connected \cup {x}
  /\ UNCHANGED <<standing, softBan, cooling, counter, score>>

\* invalidate_account_session
Disconnect(x) ==
  /\ connected' = connected \ {x}
  /\ UNCHANGED <<standing, softBan, cooling, counter, score>>

CooldownEnds(x) ==
  /\ x \in cooling
  /\ cooling' = cooling \ {x}
  /\ UNCHANGED <<standing, softBan, connected, counter, score>>
=============================================================================
