--------------------------- MODULE LicenseClient ---------------------------
(***************************************************************************)
(* LicenseService (api/services/license_service.py) and the LicenseGuard   *)
(* that asks it before every request, on the machines of a license: a      *)
(* cache, a state file with a grace period, and calls of the license       *)
(* server that may fail or whose answer may be lost.  A call takes         *)
(* seconds, a cached answer lives for 30, the grace period is counted in   *)
(* days.                                                                   *)
(***************************************************************************)
EXTENDS LicenseServer, Integers

CONSTANTS
  MachineOf,   \* the machine of each request
  Grace        \* LICENSE_OFFLINE_GRACE_DAYS

ASSUME ClientAssumption ==
  MachineOf \in [Requests -> Machines] /\ Grace \in Nat /\ Requests \cap Machines = {}

VARIABLES
  file,        \* license_state.json: license, device, days of grace left
  cache,       \* the cached response of each process
  aged,        \* processes whose cached response, requests whose call is from yesterday
  call,        \* a request's call of the server
  age          \* days since the server confirmed a license on a machine

clientVars == <<file, cache, aged, call, age>>

NoFile == [license |-> Typo, machine |-> "none", left |-> -1]
Unlocks == {"active", "active_offline"}
Answer(s, l) == [status |-> s, license |-> l]
Empty == Answer("none", Typo)
Idle == [kind |-> "idle", state |-> NoFile, reply |-> "none"]

\* The app was used on some machines before; each holds a seat.
ClientInit(before, l) ==
  /\ file = [m \in Machines |-> IF m \in before THEN [license |-> l, machine |-> m, left |-> Grace] ELSE NoFile]
  /\ cache = [m \in Machines |-> Empty]
  /\ aged = {}
  /\ call = [r \in Requests |-> Idle]
  /\ age = [k \in Licenses |-> [m \in Machines |-> IF m \in before /\ k = l THEN 0 ELSE Grace + 3]]

\* What tells statuses apart: NORMAL_CACHEABLE_STATUSES and ERROR_STATUSES
\* are cached, others are not and leave the cache alone.
Class(status) ==
  CASE status \in Unlocks -> status
    [] status \in {"revoked", "device_revoked", "not_activated"} -> "refused"
    [] status = "server_error" -> "error"
    [] OTHER -> "uncached"

Cached(m, r, a) ==
  IF a.status # "uncached"
  THEN cache' = [cache EXCEPT ![m] = a] /\ aged' = aged \ {m, r}
  ELSE UNCHANGED cache /\ aged' = aged \ {r}

Invalidated(m, r) == cache' = [cache EXCEPT ![m] = Empty] /\ aged' = aged \ {m, r}
Refusal(status) == Answer(Class(status), Typo)
Calls(r, kind, state) == call' = [call EXCEPT ![r] = [kind |-> kind, state |-> state, reply |-> "none"]]

-----------------------------------------------------------------------------
\* get_license_status, for the guard (from the cache if it has an answer) or
\* a refresh.
AskStatus(r, refresh) ==
  LET m == MachineOf[r] IN
  /\ call[r] = Idle
  /\ IF ~refresh /\ cache[m] # Empty
     THEN UNCHANGED <<call, cache, aged>>
     ELSE IF file[m] = NoFile
     THEN LET a == Refusal("not_activated") IN Cached(m, r, a) /\ UNCHANGED call
     ELSE /\ Calls(r, IF file[m].machine # m THEN "audit" ELSE "status", file[m])
          /\ IF refresh THEN Invalidated(m, r) ELSE UNCHANGED <<cache, aged>>
  /\ UNCHANGED <<serverVars, file, age>>

\* activate_license and change_license_key.
AskActivation(r, l) ==
  /\ call[r] = Idle
  /\ Invalidated(MachineOf[r], r)
  /\ Calls(r, "activate", [license |-> l, machine |-> MachineOf[r], left |-> Grace])
  /\ UNCHANGED <<serverVars, file, age>>

Confirmed(l, m, verdict) == age' = IF verdict = "active" THEN [age EXCEPT ![l][m] = 0] ELSE age

\* The server's part of a status check.
StatusAnswered(r) ==
  LET c == call[r]
      l == c.state.license
      verdict == CheckStatus(l, c.state.machine, MachineOf[r]) IN
  /\ c.kind = "status" /\ c.reply = "none"
  /\ call' = [call EXCEPT ![r].reply = Class(verdict)]
  /\ Confirmed(l, MachineOf[r], verdict)
  /\ UNCHANGED <<serverVars, file, cache, aged>>

\* The server's part of an activation begins, or is refused: it limits their rate.
ActivationArrives(r) ==
  /\ call[r].kind = "activate" /\ call[r].reply = "none" /\ txn[r] = NoTxn
  /\ \/ ActivationBegins(r, call[r].state.license, MachineOf[r]) /\ UNCHANGED call
     \/ call' = [call EXCEPT ![r].reply = Class("server_error")] /\ UNCHANGED serverVars
  /\ UNCHANGED <<file, cache, aged, age>>

\* The transaction ends; its caller may have given up.
ActivationEnds(r) ==
  LET c == call[r]
      t == txn[r]
      Tells(verdict) ==
        call' = IF c.kind = "activate" /\ c.reply = "none" /\ c.state.license = t.license
                THEN [call EXCEPT ![r].reply = Class(verdict)] ELSE call IN
  /\ \/ ActivationCommits(r) /\ Tells(t.verdict) /\ Confirmed(t.license, t.machine, t.verdict)
     \/ ActivationFails(r) /\ Tells("server_error") /\ UNCHANGED age
  /\ UNCHANGED <<file, cache, aged>>

\* A confirmed license is written with a new grace period, over whatever the
\* file has become meanwhile.
Receives(r) ==
  LET c == call[r]
      m == MachineOf[r]
      a == Answer(c.reply, IF c.reply = "active" THEN c.state.license ELSE Typo) IN
  /\ c.kind \in {"status", "activate"} /\ c.reply # "none"
  /\ file' = IF c.reply = "active" THEN [file EXCEPT ![m] = [c.state EXCEPT !.left = Grace]] ELSE file
  /\ Cached(m, r, a)
  /\ call' = [call EXCEPT ![r] = Idle]
  /\ UNCHANGED <<serverVars, age>>

\* A state file of another machine is reported, in vain or not.
Audited(r) ==
  LET m == MachineOf[r] IN
  /\ call[r].kind = "audit"
  /\ Invalidated(m, r)
  /\ call' = [call EXCEPT ![r] = Idle]
  /\ UNCHANGED <<serverVars, file, age>>

\* Mutant: does not look at the clock.
OfflineAnyway(state, failure) == Answer("active_offline", state.license)

\* _offline_response_from_state
OfflineAnswer(state, failure) ==
  IF state.left >= 0 THEN Answer("active_offline", state.license)
  ELSE Refusal(IF failure = "server" THEN "server_error" ELSE "verification_required")

\* No answer comes: an activation fails uncached, a status check falls back
\* on the state it had read.
CallFails(r) ==
  LET c == call[r]
      m == MachineOf[r] IN
  /\ c.kind \in {"status", "activate"}
  /\ \E failure \in {"network", "server"} :
       LET a == IF c.kind = "status" THEN OfflineAnswer(c.state, failure) ELSE Answer("uncached", Typo) IN
       Cached(m, r, a)
  /\ call' = [call EXCEPT ![r] = Idle]
  /\ UNCHANGED <<serverVars, file, age>>

\* deactivate_local_license
DeactivateLocal(m) ==
  LET a == Refusal("not_activated") IN
  /\ file' = [file EXCEPT ![m] = NoFile]
  /\ Cached(m, m, a)
  /\ UNCHANGED <<serverVars, call, age>>

-----------------------------------------------------------------------------
(* Time, and the disk                                                      *)

CacheExpires(m) ==
  /\ cache[m] # Empty
  /\ Invalidated(m, m)
  /\ UNCHANGED <<serverVars, file, call, age>>

\* The state directory of one machine is put on another.
FileCopied(m, n) ==
  /\ file' = [file EXCEPT ![n] = file[m]]
  /\ UNCHANGED <<serverVars, cache, aged, call, age>>

\* A day less of the grace period.
FileAges(f) == IF f.left >= 0 THEN [f EXCEPT !.left = @ - 1] ELSE f

\* Neither a call nor a cached response lives for two midnights.
DayPasses ==
  /\ aged = {}
  /\ aged' = {m \in Machines : cache[m] # Empty} \cup {r \in Requests : call[r] # Idle}
  /\ file' = [m \in Machines |-> FileAges(file[m])]
  /\ call' = [r \in Requests |-> IF call[r].kind = "status"
                                THEN [call[r] EXCEPT !.state = FileAges(@)] ELSE call[r]]
  /\ age' = [l \in Licenses |-> [m \in Machines |-> IF age[l][m] < Grace + 3 THEN age[l][m] + 1 ELSE Grace + 3]]
  /\ UNCHANGED <<serverVars, cache>>

CallAdvances(r) ==
  \/ StatusAnswered(r) \/ ActivationArrives(r) \/ ActivationEnds(r)
  \/ Receives(r) \/ Audited(r) \/ CallFails(r)

ClientNext ==
  \/ \E r \in Requests :
       \/ \E refresh \in BOOLEAN : AskStatus(r, refresh)
       \/ \E l \in Licenses \cup {Typo} : AskActivation(r, l)
       \/ CallAdvances(r)
  \/ \E m \in Machines :
       DeactivateLocal(m) \/ CacheExpires(m) \/ \E n \in Machines \ {m} : FileCopied(m, n)
  \/ DayPasses
  \/ VendorActs /\ UNCHANGED clientVars

ClientSpec ==
  /\ ServerInit
  /\ \E before \in SUBSET Machines, l \in Licenses : ClientInit(before, l)
  /\ [][ClientNext]_<<serverVars, clientVars>>

-----------------------------------------------------------------------------
(* Properties                                                              *)

\* The guard lets a machine work (every response that does is cached) only
\* with a license that the server has confirmed on that very machine within
\* the grace period (and the midnights that pass before its answer arrives
\* and before the cached one expires), whatever is cached, copied, lost or
\* written back late.
TrustIsBounded ==
  \A m \in Machines :
    cache[m].status \in Unlocks => age[cache[m].license][m] <= Grace + 2
=============================================================================
