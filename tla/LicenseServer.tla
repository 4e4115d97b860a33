--------------------------- MODULE LicenseServer ---------------------------
(***************************************************************************)
(* The license tables behind the Edge Function license-api: the            *)
(* transaction activate_license_device, which counts the devices of a      *)
(* license and inserts one in later statements, under an advisory lock on  *)
(* the key, and the status check (supabase/functions/license-api/index.ts).*)
(***************************************************************************)
EXTENDS Naturals, FiniteSets

CONSTANTS
  Licenses,
  Machines,
  Requests,    \* concurrent calls of the server
  Seats,       \* max_devices
  Typo         \* a key that belongs to no license

ASSUME SeatsAssumption ==
  /\ IsFiniteSet(Machines)
  /\ Seats \in [Licenses -> Nat]
  /\ Typo \notin Licenses

VARIABLES
  valid,       \* licenses that are active and not expired
  device,      \* license_devices: the status of each machine's row, or "none"
  txn          \* a call's open transaction, and what it will return

serverVars == <<valid, device, txn>>

NoTxn == [license |-> Typo, machine |-> "none", verdict |-> "none"]

ServerInit ==
  /\ valid = Licenses
  /\ device \in [Licenses -> [Machines -> {"none", "active", "revoked"}]]
  /\ \A l \in Licenses : Cardinality({m \in Machines : device[l][m] = "active"}) <= Seats[l]
  /\ txn = [r \in Requests |-> NoTxn]

InUse(l) == {m \in Machines : device[l][m] = "active"}

\* What activate_license_device returns for a key and a machine.
ActivationStatus(l, m) ==
  IF l = Typo THEN "invalid_key"
  ELSE IF l \notin valid THEN "revoked"
  ELSE IF Seats[l] < 1 THEN "server_error"
  ELSE IF device[l][m] = "active" THEN "active"
  ELSE IF device[l][m] = "revoked" THEN "device_revoked"
  ELSE IF Cardinality(InUse(l)) >= Seats[l] THEN "already_activated_on_another_device"
  ELSE "active"

\* Mutant: no advisory lock.
UnlockedAnyway(l) == TRUE

Unlocked(l) == \A q \in Requests : txn[q] = NoTxn \/ txn[q].license # l

\* The transaction gets the lock, looks the key and the machine up and counts.
ActivationBegins(r, l, m) ==
  /\ txn[r] = NoTxn /\ Unlocked(l)
  /\ txn' = [txn EXCEPT ![r] = [license |-> l, machine |-> m, verdict |-> ActivationStatus(l, m)]]
  /\ UNCHANGED <<valid, device>>

Closes(r) == txn[r] # NoTxn /\ txn' = [txn EXCEPT ![r] = NoTxn] /\ UNCHANGED valid

\* A row that is there keeps its status, even one revoked since.
ActivationCommits(r) ==
  LET t == txn[r] IN
  /\ Closes(r)
  /\ device' = IF t.verdict = "active" /\ device[t.license][t.machine] = "none"
               THEN [device EXCEPT ![t.license][t.machine] = "active"] ELSE device

ActivationFails(r) == Closes(r) /\ UNCHANGED device

\* What a status check returns for a license, a device's row and the machine
\* that asks.
CheckStatus(l, owner, m) ==
  IF l \notin valid THEN "revoked"
  ELSE IF device[l][owner] = "none" THEN "device_revoked"
  ELSE IF owner # m THEN "machine_mismatch"
  ELSE IF device[l][owner] # "active" THEN "device_revoked"
  ELSE "active"

\* The vendor, and time: a license ends or is renewed, a device is revoked.
VendorActs ==
  /\ \/ \E l \in valid : valid' = valid \ {l} /\ UNCHANGED device
     \/ \E l \in Licenses \ valid : valid' = valid \cup {l} /\ UNCHANGED device
     \/ \E l \in Licenses : \E m \in InUse(l) :
          device' = [device EXCEPT ![l][m] = "revoked"] /\ UNCHANGED valid
  /\ UNCHANGED txn

ServerNext ==
  \/ \E r \in Requests :
       \/ \E l \in Licenses \cup {Typo}, m \in Machines : ActivationBegins(r, l, m)
       \/ ActivationCommits(r)
       \/ ActivationFails(r)
  \/ VendorActs

ServerSpec == ServerInit /\ [][ServerNext]_serverVars

-----------------------------------------------------------------------------
(* Properties                                                              *)

\* However many machines activate a key at once, each counting before it
\* inserts, no license has more active devices than it was sold for ("prevents
\* count/insert races across machines").
SeatsRespected == \A l \in Licenses : Cardinality(InUse(l)) <= Seats[l]
=============================================================================
