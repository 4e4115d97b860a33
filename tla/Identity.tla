------------------------------ MODULE Identity -------------------------------
(***************************************************************************)
(* The digital identity of one account: the profile each process keeps in  *)
(* its IdentityRegistry, the copy in the account's metadata, and what the  *)
(* browser of a login or a publish session shows of it                     *)
(* (core/identity_manager.py, browser_context.py, browser_providers.py,    *)
(* fingerprint_engine.py, api/routes/identity.py and accounts.py).         *)
(***************************************************************************)
EXTENDS Integers

CONSTANTS
  Countries,     \* proxy countries with a time zone of their own
  Local,         \* no country: the machine's own zone
  MaxSalts,      \* bound on regenerations
  MaxBoots,      \* bound on restarts of a process
  MaxEdits       \* bound on what the operator does

VARIABLES
  proxy,         \* accounts.proxy_url and proxy_country, Local without one
  provider,      \* accounts.metadata.browser_provider
  stored,        \* accounts.metadata.identity_profile
  registry,      \* the registry of the API and of the worker
  login,         \* the connect request: the profile its browser was opened with
  session,       \* the publish session: the proxy in the row it has read
  salts, boots, edits,  \* regenerations, restarts, acts of the operator
  shown          \* the devices publish sessions have shown, by provider

identityVars == <<proxy, provider, stored, registry, login, session, salts, boots, edits, shown>>

Processes == {"api", "worker"}
BrowserProviders == {"playwright", "real_chrome", "adspower_manual"}
NoProfile == [device |-> -1, zone |-> Local, proxy |-> Local, locked |-> FALSE, risk |-> "none"]
NotOpen == [step |-> "none", profile |-> NoProfile]
NoSession == [step |-> "none", proxy |-> Local]

IdentityInit ==
  /\ proxy \in Countries \cup {Local}
  /\ provider \in BrowserProviders
  /\ stored = NoProfile
  /\ registry = [p \in Processes |-> NoProfile]
  /\ login = NotOpen /\ session = NoSession
  /\ salts = 0 /\ boots = 0 /\ edits = 0
  /\ shown = [b \in BrowserProviders |-> {}]

-----------------------------------------------------------------------------
(* Profiles                                                                *)

\* Mutant: the device is drawn with the interpreter's own hash, salted per process.
SeededDevicePerProcess(boot) == boot

\* _stable_seed: a SHA-256 of the account's id, the same in every process
SeededDevice(boot) == 0

\* generate_identity_profile: the zone and the locale follow the country, a
\* regenerated device is drawn from the id and a salt.
Generated(device, country) ==
  [device |-> device, zone |-> country, proxy |-> country, locked |-> FALSE, risk |-> "none"]

\* get_or_create
Kept(p, country) ==
  IF registry[p] # NoProfile THEN registry[p] ELSE Generated(SeededDevice(boots), country)

\* check_identity_consistency and identity_risk_from_issues
Issues(profile, seen) ==
  (IF profile.zone # Local /\ profile.proxy # Local /\ profile.zone # profile.proxy THEN {"zone"} ELSE {})
    \cup seen
Risk(issues) == IF issues = {} THEN "none" ELSE IF issues \subseteq {"ip_changed"} THEN "warning" ELSE "critical"

Registers(p, profile) == registry' = [registry EXCEPT ![p] = profile]

\* What fingerprint_engine injects is a function of the profile.
Scripts(profile) == profile.device

-----------------------------------------------------------------------------
(* The operator, through the API's own registry                            *)

\* GET and generate: looking at an account that is not registered creates its profile
Looks(country) ==
  /\ Registers("api", Kept("api", country))
  /\ UNCHANGED <<proxy, provider, stored, login, session, salts, boots, shown>>

Regenerates(country) ==
  /\ ~registry["api"].locked
  /\ salts < MaxSalts
  /\ salts' = salts + 1
  /\ Registers("api", Generated(salts', country))
  /\ UNCHANGED <<proxy, provider, stored, login, session, boots, shown>>

Locks(b) ==
  /\ Registers("api", [Kept("api", Local) EXCEPT !.locked = b])
  /\ UNCHANGED <<proxy, provider, stored, login, session, salts, boots, shown>>

MovesProxy(country) ==
  /\ Registers("api", [Kept("api", Local) EXCEPT !.proxy = country])
  /\ UNCHANGED <<proxy, provider, stored, login, session, salts, boots, shown>>

Validates(seen) ==
  /\ LET profile == Kept("api", Local)
     IN  Registers("api", [profile EXCEPT !.risk = Risk(Issues(profile, seen))])
  /\ UNCHANGED <<proxy, provider, stored, login, session, salts, boots, shown>>

\* PATCH /accounts/{id}
PatchesAccount(country, b) ==
  /\ proxy' = country /\ provider' = b
  /\ UNCHANGED <<stored, registry, login, session, salts, boots, shown>>

-----------------------------------------------------------------------------
(* POST /accounts/{id}/connect                                             *)

\* load_profiles: the first profile a process holds wins
Loaded(p) == IF registry[p] # NoProfile THEN registry[p] ELSE stored

\* _ensure_identity_profile, then create_connect_context; AdsPower opens its own
\* profile and real Chrome shows what it is.
LoginOpens ==
  /\ login.step = "none"
  /\ LET known == IF stored # NoProfile THEN Loaded("api") ELSE Kept("api", proxy)
         profile == [known EXCEPT !.proxy = proxy]
     IN  IF provider = "playwright"
         THEN /\ Registers("api", profile)
              /\ stored' = IF stored # NoProfile /\ known = profile THEN stored ELSE profile
              /\ login' = [step |-> "open", profile |-> profile]
         ELSE /\ login' = [step |-> "open", profile |-> NoProfile]
              /\ UNCHANGED <<registry, stored>>
  /\ UNCHANGED <<proxy, provider, session, salts, boots, edits, shown>>

\* The user has logged in, minutes later: the profile of the browser is stored
\* again, whatever became of the registry meanwhile.
LoginSaves ==
  /\ login.step = "open"
  /\ login' = NotOpen
  /\ stored' = IF login.profile # NoProfile THEN login.profile ELSE stored
  /\ UNCHANGED <<proxy, provider, registry, session, salts, boots, edits, shown>>

LoginFails ==
  /\ login.step = "open"
  /\ login' = NotOpen
  /\ UNCHANGED <<proxy, provider, stored, registry, session, salts, boots, edits, shown>>

-----------------------------------------------------------------------------
(* A publish session of the worker                                         *)

SessionReads ==
  /\ session.step = "none"
  /\ session' = [step |-> "read", proxy |-> proxy]
  /\ UNCHANGED <<proxy, provider, stored, registry, login, salts, boots, edits, shown>>

\* create_publisher_context. The metadata of the row is text here, never a
\* dictionary, so the stored profile is not loaded: the worker makes its own.
SessionOpens ==
  /\ session.step = "read"
  /\ LET profile == [Kept("worker", session.proxy) EXCEPT !.proxy = session.proxy]
     IN  IF provider = "playwright"
         THEN /\ Registers("worker", profile)
              /\ session' = [session EXCEPT !.step = "open"]
              /\ shown' = [shown EXCEPT ![provider] = @ \cup {Scripts(profile)}]
         ELSE /\ session' = [session EXCEPT !.step = "open"]
              /\ UNCHANGED <<registry, shown>>
  /\ UNCHANGED <<proxy, provider, stored, login, salts, boots, edits>>

SessionCloses ==
  /\ session.step = "open"
  /\ session' = NoSession
  /\ UNCHANGED <<proxy, provider, stored, registry, login, salts, boots, edits, shown>>

\* Neither process writes its registry anywhere.
Restarts(p) ==
  /\ boots < MaxBoots
  /\ boots' = boots + 1
  /\ Registers(p, NoProfile)
  /\ IF p = "api" THEN login' = NotOpen /\ UNCHANGED session ELSE session' = NoSession /\ UNCHANGED login
  /\ UNCHANGED <<proxy, provider, stored, salts, edits, shown>>

-----------------------------------------------------------------------------

OperatorActsOnIdentity ==
  /\ edits < MaxEdits /\ edits' = edits + 1
  /\ \/ \E c \in Countries \cup {Local} :
          Looks(c) \/ Regenerates(c) \/ \E b \in BrowserProviders : PatchesAccount(c, b)
     \/ \E c \in Countries : MovesProxy(c)
     \/ \E b \in BOOLEAN : Locks(b)
     \/ \E seen \in {{}, {"ip_changed"}, {"drift"}} : Validates(seen)

IdentityNext ==
  \/ OperatorActsOnIdentity
  \/ LoginOpens \/ LoginSaves \/ LoginFails
  \/ SessionReads \/ SessionOpens \/ SessionCloses
  \/ \E p \in Processes : Restarts(p)

IdentitySpec == IdentityInit /\ [][IdentityNext]_identityVars

-----------------------------------------------------------------------------
(* Properties                                                              *)

\* All publish sessions of an account show the same device, over restarts of the
\* worker and whatever the operator does to the identity in the API meanwhile
\* (identity_manager.py:190-214, 333-381; browser_context.py:219-240).
DeviceIsStable == \A b \in BrowserProviders : \A d, e \in shown[b] : d = e
=============================================================================
