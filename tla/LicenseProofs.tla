---------------------------- MODULE LicenseProofs ----------------------------
(***************************************************************************)
(* Proofs about the license server, for any licenses, machines and seats,  *)
(* and about the clients that call it.                                     *)
(***************************************************************************)
EXTENDS LicenseClient, FiniteSetTheorems, TLAPS

Verdicts ==
  {"none", "invalid_key", "revoked", "server_error", "active", "device_revoked",
   "already_activated_on_another_device"}
Txns == [license : Licenses \cup {Typo}, machine : Machines \cup {"none"}, verdict : Verdicts]

ServerTyped ==
  /\ device \in [Licenses -> [Machines -> {"none", "active", "revoked"}]]
  /\ txn \in [Requests -> Txns]

\* A transaction is alone with its license, and what it has counted still holds.
TxnHolds(r) ==
  txn[r] # NoTxn =>
    /\ txn[r].machine \in Machines
    /\ \A q \in Requests \ {r} : txn[q] # NoTxn => txn[q].license # txn[r].license
    /\ txn[r].verdict = "active" =>
         /\ txn[r].license \in Licenses
         /\ device[txn[r].license][txn[r].machine] = "none" =>
              Cardinality(InUse(txn[r].license)) < Seats[txn[r].license]

ServerInv == ServerTyped /\ SeatsRespected /\ \A r \in Requests : TxnHolds(r)

\* The devices in use are counted: they are finitely many.
LEMMA InUseFinite ==
  \A l \in Licenses : IsFiniteSet(InUse(l)) /\ Cardinality(InUse(l)) \in Nat
  BY SeatsAssumption, FS_Subset, FS_CardinalityType DEF InUse

LEMMA NoTxnTyped == NoTxn \in Txns
  BY DEF NoTxn, Txns, Verdicts

LEMMA ServerStarts == ServerInit => ServerInv
<1> SUFFICES ASSUME ServerInit PROVE ServerInv
  OBVIOUS
<1>1. ServerTyped
  BY NoTxnTyped DEF ServerInit, ServerTyped
<1>2. SeatsRespected
  BY DEF ServerInit, SeatsRespected, InUse
<1>3. \A r \in Requests : TxnHolds(r)
  BY DEF ServerInit, TxnHolds
<1> QED
  BY <1>1, <1>2, <1>3 DEF ServerInv

\* A device that loses its seat frees one, for its own license only.
LEMMA VendorKeeps ==
  ASSUME ServerInv, VendorActs
  PROVE  ServerInv'
<1>1. CASE UNCHANGED device
  BY <1>1 DEF VendorActs, ServerInv, ServerTyped, SeatsRespected, InUse, TxnHolds
<1>2. CASE \E l \in Licenses : \E m \in InUse(l) :
             device' = [device EXCEPT ![l][m] = "revoked"] /\ UNCHANGED valid
  <2>1. PICK l \in Licenses : \E m \in InUse(l) : device' = [device EXCEPT ![l][m] = "revoked"]
    BY <1>2
  <2>2. txn' = txn
    BY DEF VendorActs
  <2>3. ServerTyped'
    BY <2>1, <2>2 DEF ServerInv, ServerTyped, InUse
  <2>4. ASSUME NEW k \in Licenses PROVE Cardinality(InUse(k)') <= Cardinality(InUse(k)) /\ Cardinality(InUse(k)') \in Nat
    <3>1. InUse(k)' \subseteq InUse(k)
      BY <2>1 DEF InUse, ServerInv, ServerTyped
    <3> QED
      BY <3>1, InUseFinite, FS_Subset, FS_CardinalityType
  <2>5. SeatsRespected'
    BY <2>4, InUseFinite, SeatsAssumption DEF ServerInv, SeatsRespected
  <2>6. \A k \in Licenses, m \in Machines : device'[k][m] = "none" => device[k][m] = "none"
    BY <2>1 DEF ServerInv, ServerTyped
  <2>7. \A k \in Licenses : Cardinality(InUse(k)) < Seats[k] => Cardinality(InUse(k)') < Seats[k]
    BY <2>4, InUseFinite, SeatsAssumption
  <2>8. \A r \in Requests : TxnHolds(r)'
    <3> SUFFICES ASSUME NEW r \in Requests PROVE TxnHolds(r)'
      OBVIOUS
    <3>1. TxnHolds(r) /\ txn[r] \in Txns
      BY DEF ServerInv, ServerTyped
    <3> QED
      BY <2>2, <2>6, <2>7, <3>1 DEF TxnHolds
  <2> QED
    BY <2>3, <2>5, <2>8 DEF ServerInv
<1> QED
  BY <1>1, <1>2 DEF VendorActs

\* The lock is free, so nobody else is about to take the seat that is counted.
LEMMA BeginningKeeps ==
  ASSUME ServerInv, NEW r \in Requests, NEW l \in Licenses \cup {Typo}, NEW m \in Machines,
         ActivationBegins(r, l, m)
  PROVE  ServerInv'
<1> DEFINE t == [license |-> l, machine |-> m, verdict |-> ActivationStatus(l, m)]
<1>1. txn' = [txn EXCEPT ![r] = t] /\ UNCHANGED <<valid, device>> /\ txn \in [Requests -> Txns]
  BY DEF ActivationBegins, ServerInv, ServerTyped
<1>2. ActivationStatus(l, m) \in Verdicts
  BY DEF ActivationStatus, Verdicts
<1>3. t \in Txns
  BY <1>2 DEF Txns
<1>4. ServerTyped'
  BY <1>1, <1>3 DEF ServerInv, ServerTyped
<1>5. SeatsRespected' /\ \A k : InUse(k)' = InUse(k)
  BY <1>1 DEF ServerInv, SeatsRespected, InUse
<1>6. TxnHolds(r)'
  <2>1. txn'[r] = t
    BY <1>1
  <2>2. ASSUME NEW q \in Requests \ {r}, txn'[q] # NoTxn PROVE txn'[q].license # l
    BY <1>1, <2>2 DEF ActivationBegins, Unlocked
  <2>3. t.verdict = "active" => l \in Licenses
    BY DEF ActivationStatus
  <2>4. t.verdict = "active" /\ device[l][m] = "none" => ~(Cardinality(InUse(l)) >= Seats[l])
    BY DEF ActivationStatus
  <2>5. t.verdict = "active" /\ device[l][m] = "none" => Cardinality(InUse(l)) < Seats[l]
    BY <2>3, <2>4, InUseFinite, SeatsAssumption
  <2> QED
    BY <1>1, <1>5, <2>1, <2>2, <2>3, <2>5 DEF TxnHolds
<1>7. ASSUME NEW q \in Requests \ {r} PROVE TxnHolds(q)'
  <2>1. txn'[q] = txn[q] /\ txn'[r] = t
    BY <1>1
  <2>2. txn[q] # NoTxn => l # txn[q].license
    BY DEF ActivationBegins, Unlocked
  <2>3. \A p \in Requests \ {q, r} : txn'[p] = txn[p]
    BY <1>1
  <2>4. TxnHolds(q)
    BY DEF ServerInv
  <2> QED
    BY <1>1, <1>5, <2>1, <2>2, <2>3, <2>4 DEF TxnHolds
<1> QED
  BY <1>4, <1>5, <1>6, <1>7 DEF ServerInv

LEMMA FailureFreesLock ==
  ASSUME ServerInv, NEW r \in Requests, Closes(r), UNCHANGED device
  PROVE  ServerInv'
<1>1. txn' = [txn EXCEPT ![r] = NoTxn] /\ txn' \in [Requests -> Txns]
  BY NoTxnTyped DEF Closes, ServerInv, ServerTyped
<1>2. ServerTyped' /\ SeatsRespected' /\ \A k : InUse(k)' = InUse(k)
  BY <1>1 DEF ServerInv, ServerTyped, SeatsRespected, InUse
<1>3. ASSUME NEW q \in Requests PROVE TxnHolds(q)'
  <2>1. CASE q = r
    BY <1>1, <2>1 DEF TxnHolds, ServerInv, ServerTyped
  <2>2. CASE q # r
    <3>1. txn'[q] = txn[q] /\ \A p \in Requests : txn'[p] # NoTxn => txn'[p] = txn[p]
      BY <1>1, <2>2 DEF ServerInv, ServerTyped
    <3>2. TxnHolds(q)
      BY DEF ServerInv
    <3> QED
      BY <1>2, <3>1, <3>2 DEF TxnHolds
  <2> QED
    BY <2>1, <2>2
<1> QED
  BY <1>2, <1>3 DEF ServerInv

\* The seat that was counted is still free when the row is inserted.
LEMMA CommitKeeps ==
  ASSUME ServerInv, NEW r \in Requests, ActivationCommits(r)
  PROVE  ServerInv'
<1>1. /\ txn[r] # NoTxn /\ TxnHolds(r) /\ txn[r] \in Txns
      /\ txn' = [txn EXCEPT ![r] = NoTxn] /\ UNCHANGED valid
  BY DEF ActivationCommits, Closes, ServerInv, ServerTyped
<1>2. CASE ~(txn[r].verdict = "active" /\ device[txn[r].license][txn[r].machine] = "none")
  BY <1>2, FailureFreesLock DEF ActivationCommits
<1>3. CASE txn[r].verdict = "active" /\ device[txn[r].license][txn[r].machine] = "none"
  <2>1. PICK l \in Licenses, m \in Machines :
          /\ l = txn[r].license /\ device[l][m] = "none" /\ Cardinality(InUse(l)) < Seats[l]
          /\ device' = [device EXCEPT ![l][m] = "active"]
    BY <1>1, <1>3 DEF TxnHolds, ActivationCommits
  <2>2. ServerTyped'
    BY <1>1, <2>1, NoTxnTyped DEF ServerInv, ServerTyped
  <2>3. ASSUME NEW k \in Licenses, k # l PROVE InUse(k)' = InUse(k) /\ device'[k] = device[k]
    BY <2>1, <2>3 DEF InUse, ServerInv, ServerTyped
  <2>4. InUse(l)' = InUse(l) \cup {m} /\ m \notin InUse(l)
    BY <2>1 DEF InUse, ServerInv, ServerTyped
  <2>5. Cardinality(InUse(l) \cup {m}) = Cardinality(InUse(l)) + 1
    BY <2>1, <2>4, InUseFinite, FS_AddElement
  <2>6. SeatsRespected'
    <3>1. Cardinality(InUse(l)') <= Seats[l]
      BY <2>1, <2>4, <2>5, InUseFinite, SeatsAssumption
    <3> QED
      BY <2>3, <3>1 DEF ServerInv, SeatsRespected
  <2>7. ASSUME NEW q \in Requests PROVE TxnHolds(q)'
    <3>1. CASE q = r
      BY <1>1, <3>1 DEF TxnHolds, ServerInv, ServerTyped
    <3>2. CASE q # r
      <4>1. txn'[q] = txn[q] /\ \A p \in Requests : txn'[p] # NoTxn => txn'[p] = txn[p]
        BY <1>1, <3>2 DEF ServerInv, ServerTyped
      <4>2. TxnHolds(q) /\ (txn[q] # NoTxn => txn[q].license # l)
        BY <1>1, <2>1, <3>2 DEF ServerInv, TxnHolds
      <4> QED
        BY <2>3, <4>1, <4>2 DEF TxnHolds
    <3> QED
      BY <3>1, <3>2
  <2> QED
    BY <2>2, <2>6, <2>7 DEF ServerInv
<1> QED
  BY <1>2, <1>3

LEMMA ServerStepKeeps ==
  ASSUME ServerInv, [ServerNext]_serverVars
  PROVE  ServerInv'
<1>1. CASE VendorActs
  BY <1>1, VendorKeeps
<1>2. ASSUME NEW r \in Requests, NEW l \in Licenses \cup {Typo}, NEW m \in Machines, ActivationBegins(r, l, m)
      PROVE  ServerInv'
  BY <1>2, BeginningKeeps
<1>3. ASSUME NEW r \in Requests, ActivationCommits(r) PROVE ServerInv'
  BY <1>3, CommitKeeps
<1>4. ASSUME NEW r \in Requests, ActivationFails(r) PROVE ServerInv'
  BY <1>4, FailureFreesLock DEF ActivationFails
<1>5. CASE UNCHANGED serverVars
  BY <1>5 DEF serverVars, ServerInv, ServerTyped, SeatsRespected, InUse, TxnHolds
<1> QED
  BY <1>1, <1>2, <1>3, <1>4, <1>5 DEF ServerNext

\* No license has more active devices than it was sold for, however many
\* activations count and insert at the same time and whatever is revoked in
\* between (activate_license_device).
THEOREM SeatsNeverExceeded == ServerSpec => []SeatsRespected
<1>1. ServerInv /\ [ServerNext]_serverVars => ServerInv'
  BY ServerStepKeeps
<1>2. ServerInv => SeatsRespected
  BY DEF ServerInv
<1> QED
  BY <1>1, <1>2, ServerStarts, PTL DEF ServerSpec

-----------------------------------------------------------------------------
(* The clients                                                             *)

States == [license : Licenses \cup {Typo}, machine : Machines \cup {"none"}, left : Int]

Kinds == {"idle", "audit", "status", "activate"}
Replies == {"none", "active", "active_offline", "refused", "error", "uncached"}
CallStates == [kind : Kinds, state : States, reply : Replies]

ClientTyped ==
  /\ file \in [Machines -> States]
  /\ call \in [Requests -> CallStates]

LEMMA IdleTyped == NoFile \in States /\ Idle \in CallStates
  BY DEF NoFile, Idle, States, CallStates, Kinds, Replies

LEMMA ClientStarts ==
  ASSUME NEW before \in SUBSET Machines, NEW l \in Licenses, ClientInit(before, l)
  PROVE  ClientTyped
<1>1. \A m \in Machines : [license |-> l, machine |-> m, left |-> Grace] \in States
  BY ClientAssumption DEF States
<1>2. file \in [Machines -> States]
  BY <1>1, IdleTyped DEF ClientInit
<1> QED
  BY <1>2, IdleTyped DEF ClientInit, ClientTyped

\* What a call sends was read from the file or is what the user typed.
LEMMA ClientKeepsTypes ==
  ASSUME ClientTyped, [ClientNext]_<<serverVars, clientVars>>
  PROVE  ClientTyped'
<1> USE DEF ClientTyped
<1>a. \A r \in Requests : MachineOf[r] \in Machines /\ call[r] \in CallStates
  BY ClientAssumption
<1>b. \A s \in States, k \in Kinds : [kind |-> k, state |-> s, reply |-> "none"] \in CallStates
  BY DEF CallStates, Replies
<1>1. ASSUME NEW r \in Requests, NEW refresh \in BOOLEAN, AskStatus(r, refresh) PROVE ClientTyped'
  <2>1. file' = file
    BY <1>1 DEF AskStatus
  <2>2. file[MachineOf[r]] \in States
    BY <1>a
  <2>3. CASE UNCHANGED call
    BY <2>1, <2>3
  <2>4. CASE \E k \in {"audit", "status"} : Calls(r, k, file[MachineOf[r]])
    BY <1>b, <2>1, <2>2, <2>4 DEF Calls, Kinds
  <2> QED
    BY <1>1, <2>3, <2>4 DEF AskStatus
<1>2. ASSUME NEW r \in Requests, NEW l \in Licenses \cup {Typo}, AskActivation(r, l) PROVE ClientTyped'
  <2>1. [license |-> l, machine |-> MachineOf[r], left |-> Grace] \in States
    BY <1>a, ClientAssumption DEF States
  <2> QED
    BY <1>2, <1>b, <2>1 DEF AskActivation, Calls, Kinds
<1>3. ASSUME NEW r \in Requests, StatusAnswered(r) \/ ActivationArrives(r) \/ ActivationEnds(r) PROVE ClientTyped'
  <2>1. \A reply : Class(reply) \in Replies
    <3> TAKE reply
    <3> QED
      BY Zenon DEF Class, Unlocks, Replies
  <2>2. file' = file /\ (call' = call \/ \E x \in Replies : call' = [call EXCEPT ![r].reply = x])
    BY <1>3, <2>1 DEF StatusAnswered, ActivationArrives, ActivationEnds
  <2> QED
    BY <1>a, <2>2 DEF CallStates
<1>4. ASSUME NEW r \in Requests, Receives(r) PROVE ClientTyped'
  <2>1. [call[r].state EXCEPT !.left = Grace] \in States
    BY <1>a, ClientAssumption DEF CallStates, States
  <2>2. call' = [call EXCEPT ![r] = Idle]
    BY <1>4 DEF Receives
  <2>3. file' = file \/ file' = [file EXCEPT ![MachineOf[r]] = [call[r].state EXCEPT !.left = Grace]]
    BY <1>4 DEF Receives
  <2> QED
    BY <1>a, <2>1, <2>2, <2>3, IdleTyped
<1>5. ASSUME NEW r \in Requests, Audited(r) \/ CallFails(r) PROVE ClientTyped'
  <2>1. file' = file /\ call' = [call EXCEPT ![r] = Idle]
    BY <1>5 DEF Audited, CallFails
  <2> QED
    BY <2>1, IdleTyped
<1>6. ASSUME NEW m \in Machines, DeactivateLocal(m) \/ CacheExpires(m) PROVE ClientTyped'
  BY <1>6, IdleTyped DEF DeactivateLocal, CacheExpires
<1>7. ASSUME NEW m \in Machines, NEW n \in Machines, FileCopied(m, n) PROVE ClientTyped'
  BY <1>7 DEF FileCopied
<1>8. CASE DayPasses
  <2>1. \A f \in States : FileAges(f) \in States
    BY DEF States, FileAges
  <2>2. \A r \in Requests : [call[r] EXCEPT !.state = FileAges(call[r].state)] \in CallStates
    BY <1>a, <2>1 DEF CallStates
  <2> QED
    BY <1>8, <1>a, <2>1, <2>2 DEF DayPasses
<1>9. CASE UNCHANGED clientVars
  BY <1>9 DEF clientVars
<1> QED
  BY <1>1, <1>2, <1>3, <1>4, <1>5, <1>6, <1>7, <1>8, <1>9 DEF ClientNext, CallAdvances, clientVars

\* Of all a client does, only the server's answers touch the license tables.
LEMMA ClientCallsServer ==
  ASSUME ClientTyped, [ClientNext]_<<serverVars, clientVars>>
  PROVE  [ServerNext]_serverVars
<1>1. ASSUME NEW r \in Requests, ActivationArrives(r) \/ ActivationEnds(r) PROVE [ServerNext]_serverVars
  <2>1. MachineOf[r] \in Machines /\ call[r].state.license \in Licenses \cup {Typo}
    BY ClientAssumption DEF ClientTyped, CallStates, States
  <2>2. CASE ActivationBegins(r, call[r].state.license, MachineOf[r])
    BY <2>1, <2>2 DEF ServerNext
  <2>3. CASE ActivationCommits(r) \/ ActivationFails(r)
    BY <2>3 DEF ServerNext
  <2> QED
    BY <1>1, <2>2, <2>3 DEF ActivationArrives, ActivationEnds, serverVars
<1>2. ASSUME NEW r \in Requests, NEW refresh \in BOOLEAN, AskStatus(r, refresh) PROVE UNCHANGED serverVars
  BY <1>2 DEF AskStatus, serverVars
<1>3. ASSUME NEW r \in Requests, NEW l \in Licenses \cup {Typo}, AskActivation(r, l) PROVE UNCHANGED serverVars
  BY <1>3 DEF AskActivation, serverVars
<1>4. ASSUME NEW r \in Requests, StatusAnswered(r) \/ Receives(r) \/ Audited(r) \/ CallFails(r)
      PROVE  UNCHANGED serverVars
  BY <1>4 DEF StatusAnswered, Receives, Audited, CallFails, serverVars
<1>5. ASSUME NEW m \in Machines,
             DeactivateLocal(m) \/ CacheExpires(m) \/ \E n \in Machines \ {m} : FileCopied(m, n)
      PROVE  UNCHANGED serverVars
  BY <1>5 DEF DeactivateLocal, CacheExpires, FileCopied, serverVars
<1>6. DayPasses => UNCHANGED serverVars
  BY DEF DayPasses, serverVars
<1> QED
  BY <1>1, <1>2, <1>3, <1>4, <1>5, <1>6 DEF ClientNext, CallAdvances, ServerNext, clientVars

\* The clients, their caches, lost answers and copied files included,
\* implement the server's specification: nothing they do gives a license a
\* seat too many.
THEOREM ClientsImplementServer == ClientSpec => ServerSpec /\ []SeatsRespected
<1>1. ClientSpec => ServerInit /\ ClientTyped
  BY ClientStarts DEF ClientSpec
<1>2. ClientTyped /\ [ClientNext]_<<serverVars, clientVars>> => ClientTyped'
  BY ClientKeepsTypes
<1>3. ClientTyped /\ [ClientNext]_<<serverVars, clientVars>> => [ServerNext]_serverVars
  BY ClientCallsServer
<1> QED
  BY <1>1, <1>2, <1>3, SeatsNeverExceeded, PTL DEF ClientSpec, ServerSpec

-----------------------------------------------------------------------------
(* How long a machine is trusted                                           *)

Answers == [status : Replies, license : Licenses \cup {Typo}]

\* A state with days left was confirmed for its machine that long ago at most; a
\* confirmation may be written on the day after it was given.
Graced(s) ==
  s.left >= 0 =>
    s.license \in Licenses /\ s.machine \in Machines /\ age[s.license][s.machine] + s.left <= Grace + 1

CallGraced(r) ==
  LET c == call[r] IN
  /\ c.kind = "status" => c.state.machine = MachineOf[r] /\ Graced(c.state)
  /\ c.kind = "activate" => c.state.machine = MachineOf[r]
  /\ c.reply = "active" =>
       /\ c.state.license \in Licenses
       /\ age[c.state.license][MachineOf[r]] <= IF r \in aged THEN 1 ELSE 0
  /\ c.reply # "active_offline"

CacheTrusted(m) ==
  cache[m].status \in Unlocks =>
    /\ cache[m].license \in Licenses
    /\ age[cache[m].license][m] <= IF m \in aged THEN Grace + 2 ELSE Grace + 1

TrustTyped ==
  /\ ClientTyped
  /\ valid \subseteq Licenses
  /\ age \in [Licenses -> [Machines -> Nat]]
  /\ cache \in [Machines -> Answers]

TrustInv ==
  /\ TrustTyped
  /\ \A n \in Machines : Graced(file[n]) /\ CacheTrusted(n)
  /\ \A r \in Requests : CallGraced(r)

LEMMA TrustStarts ==
  ASSUME ServerInit, NEW before \in SUBSET Machines, NEW l \in Licenses, ClientInit(before, l)
  PROVE  TrustInv
<1>1. TrustTyped
  <2>1. cache \in [Machines -> Answers]
    BY DEF ClientInit, Answers, Empty, Answer, Replies
  <2>2. age \in [Licenses -> [Machines -> Nat]]
    BY ClientAssumption DEF ClientInit
  <2> QED
    BY <2>1, <2>2, ClientStarts DEF TrustTyped, ServerInit
<1>2. \A n \in Machines : Graced(file[n])
  BY ClientAssumption DEF ClientInit, Graced, NoFile
<1>3. \A n \in Machines : CacheTrusted(n)
  BY DEF ClientInit, CacheTrusted, Empty, Answer, Unlocks
<1>4. \A r \in Requests : CallGraced(r)
  BY DEF ClientInit, CallGraced, Idle
<1> QED
  BY <1>1, <1>2, <1>3, <1>4 DEF TrustInv

LEMMA ClassType == ASSUME NEW status PROVE Class(status) \in Replies
  BY Zenon DEF Class, Unlocks, Replies

\* No class but their own unlocks the application.
LEMMA ClassUnlocks ==
  ASSUME NEW status
  PROVE  /\ Class(status) = "active" => status = "active"
         /\ Class(status) = "active_offline" => status = "active_offline"
<1>1. CASE status \in Unlocks
  BY <1>1 DEF Class
<1>2. CASE status \in {"revoked", "device_revoked", "not_activated"}
  BY <1>2 DEF Class, Unlocks
<1>3. CASE status = "server_error"
  BY <1>3 DEF Class, Unlocks
<1>4. CASE status \notin Unlocks \cup {"revoked", "device_revoked", "not_activated", "server_error"}
  BY <1>4 DEF Class, Unlocks
<1> QED
  BY <1>1, <1>2, <1>3, <1>4

\* An answer is cached that keeps to the grace period; the request is done or
\* has not got an answer yet.
LEMMA CachedKeeps ==
  ASSUME TrustInv, UNCHANGED <<valid, file, age>>, ClientTyped',
         NEW m \in Machines, NEW r \in Requests \cup {m}, NEW a \in Answers,
         Cached(m, r, a) \/ Invalidated(m, r),
         a.status \in Unlocks => a.license \in Licenses /\ age[a.license][m] <= Grace + 1,
         r = m => a.status # "uncached",
         \A q \in Requests \ {r} : call'[q] = call[q],
         r \in Requests => CallGraced(r)'
  PROVE  TrustInv'
<1>1. aged' \in {aged \ {m, r}, aged \ {r}}
  BY DEF Cached, Invalidated
<1>2. Empty \in Answers /\ Empty.status \notin Unlocks
  BY DEF Empty, Answer, Answers, Replies, Unlocks
<1>3. cache' \in [Machines -> Answers]
  BY <1>2 DEF Cached, Invalidated, TrustInv, TrustTyped
<1>4. \A n \in Machines \ {m} : cache'[n] = cache[n] /\ (n \in aged' <=> n \in aged)
  BY <1>1, ClientAssumption DEF Cached, Invalidated, TrustInv, TrustTyped
<1>5. CacheTrusted(m)'
  <2>1. CASE cache' = [cache EXCEPT ![m] = a] /\ m \notin aged'
    BY <2>1 DEF CacheTrusted, TrustInv, TrustTyped
  <2>2. CASE cache' = [cache EXCEPT ![m] = Empty]
    BY <2>2, <1>2 DEF CacheTrusted, TrustInv, TrustTyped
  <2>3. CASE cache' = cache /\ aged' = aged \ {r} /\ r # m
    BY <2>3 DEF CacheTrusted, TrustInv, TrustTyped
  <2> QED
    BY <1>3, <2>1, <2>2, <2>3 DEF Cached, Invalidated
<1>6. \A n \in Machines : CacheTrusted(n)' /\ Graced(file[n])'
  BY <1>4, <1>5 DEF CacheTrusted, Graced, TrustInv
<1>7. \A q \in Requests \ {r} : CallGraced(q)'
  BY <1>1, ClientAssumption DEF CallGraced, Graced, TrustInv
<1> QED
  BY <1>3, <1>6, <1>7 DEF TrustInv, TrustTyped

LEMMA RequestsApart == \A r \in Requests : r \notin Machines /\ MachineOf[r] \in Machines
  BY ClientAssumption

LEMMA IdleGraced == ASSUME NEW r \in Requests, call'[r] = Idle PROVE CallGraced(r)'
  BY DEF CallGraced, Idle

LEMMA RefusalLocks ==
  Refusal("not_activated") \in Answers /\ Refusal("not_activated").status = "refused"
  BY DEF Refusal, Answer, Class, Answers, Replies, Unlocks

LEMMA AskKeeps ==
  ASSUME TrustInv, ClientTyped', NEW r \in Requests,
         \/ \E refresh \in BOOLEAN : AskStatus(r, refresh)
         \/ \E l \in Licenses \cup {Typo} : AskActivation(r, l)
  PROVE  TrustInv'
<1> DEFINE m == MachineOf[r]
<1>1. m \in Machines /\ m # r /\ call \in [Requests -> CallStates] /\ file[m] \in States
  BY RequestsApart DEF TrustInv, TrustTyped, ClientTyped
<1>2. UNCHANGED <<valid, file, age>>
  BY DEF AskStatus, AskActivation, serverVars
<1>3. CASE UNCHANGED <<call, cache, aged>>
  BY <1>2, <1>3 DEF TrustInv, TrustTyped, ClientTyped, Graced, CallGraced, CacheTrusted
<1>4. CASE Cached(m, r, Refusal("not_activated")) /\ UNCHANGED call /\ call[r] = Idle
  <2>1. CallGraced(r)'
    BY <1>4, IdleGraced
  <2> QED
    BY <1>1, <1>2, <1>4, <2>1, RefusalLocks, CachedKeeps DEF Unlocks
<1>5. ASSUME NEW k \in {"audit", "status", "activate"}, NEW f \in States, Calls(r, k, f),
             k \in {"status", "activate"} => f.machine = m, k = "status" => Graced(f)
      PROVE  /\ CallGraced(r)'
             /\ \A q \in Requests \ {r} : call'[q] = call[q]
  <2>1. call'[r] = [kind |-> k, state |-> f, reply |-> "none"]
    BY <1>1, <1>5 DEF Calls
  <2>2. \A q \in Requests \ {r} : call'[q] = call[q]
    BY <1>1, <1>5 DEF Calls
  <2> QED
    BY <1>2, <1>5, <2>1, <2>2 DEF CallGraced, Graced
<1>6. ASSUME NEW k \in {"audit", "status"}, Calls(r, k, file[m]), k = "status" => file[m].machine = m,
             Invalidated(m, r) \/ UNCHANGED <<cache, aged>>
      PROVE  TrustInv'
  <2>1. CallGraced(r)' /\ \A q \in Requests \ {r} : call'[q] = call[q]
    BY <1>1, <1>5, <1>6 DEF TrustInv
  <2>2. CASE Invalidated(m, r)
    BY <1>1, <1>2, <2>1, <2>2, RefusalLocks, CachedKeeps DEF Unlocks
  <2>3. CASE UNCHANGED <<cache, aged>>
    BY <1>2, <2>1, <2>3 DEF TrustInv, TrustTyped, Graced, CallGraced, CacheTrusted
  <2> QED
    BY <1>6, <2>2, <2>3
<1>7. ASSUME NEW l \in Licenses \cup {Typo}, AskActivation(r, l) PROVE TrustInv'
  <2> DEFINE f == [license |-> l, machine |-> m, left |-> Grace]
  <2>1. f \in States /\ f.machine = m
    BY <1>1, ClientAssumption DEF States
  <2>2. Calls(r, "activate", f) /\ Invalidated(m, r)
    BY <1>7 DEF AskActivation
  <2> HIDE DEF f
  <2>3. CallGraced(r)' /\ \A q \in Requests \ {r} : call'[q] = call[q]
    BY <1>5, <2>1, <2>2
  <2> QED
    BY <1>1, <1>2, <2>2, <2>3, RefusalLocks, CachedKeeps DEF Unlocks
<1>8. ASSUME NEW refresh \in BOOLEAN, AskStatus(r, refresh) PROVE TrustInv'
  BY <1>3, <1>4, <1>6, <1>8 DEF AskStatus
<1> QED
  BY <1>7, <1>8

\* The server answers a call, or confirms a license to nobody who listens.
LEMMA ReplyKeeps ==
  ASSUME TrustInv, ClientTyped', NEW r \in Requests, NEW l \in Licenses \cup {Typo}, NEW reply,
         reply # "active_offline", reply = "active" => l \in Licenses,
         UNCHANGED <<valid, file, cache, aged>>, Confirmed(l, MachineOf[r], reply),
         \/ UNCHANGED call
         \/ /\ call[r].kind \in {"status", "activate"} /\ call[r].state.license = l
            /\ call' = [call EXCEPT ![r].reply = Class(reply)]
  PROVE  TrustInv'
<1> DEFINE c == call[r]
           m == MachineOf[r]
<1>1. m \in Machines /\ c \in CallStates
  BY RequestsApart DEF TrustInv, TrustTyped, ClientTyped
<1>4. UNCHANGED <<valid, file, cache, aged>>
  OBVIOUS
<1>5. age' \in [Licenses -> [Machines -> Nat]]
  BY <1>1 DEF Confirmed, TrustInv, TrustTyped
<1>6. \A k \in Licenses, n \in Machines : age'[k][n] <= age[k][n]
  BY <1>1 DEF Confirmed, TrustInv, TrustTyped
<1>7. reply = "active" => age'[l][m] = 0
  BY <1>1 DEF Confirmed, TrustInv, TrustTyped
<1>8. /\ call'[r].kind = c.kind /\ call'[r].state = c.state
      /\ call'[r].reply = c.reply
         \/ (c.kind \in {"status", "activate"} /\ c.state.license = l /\ call'[r].reply = Class(reply))
      /\ \A q \in Requests \ {r} : call'[q] = call[q]
  BY <1>1 DEF TrustInv, TrustTyped, ClientTyped, CallStates
<1>9. ASSUME NEW s \in States, Graced(s) PROVE Graced(s)'
  <2>1. s.left \in Int
    BY DEF States
  <2>2. CASE s.left >= 0
    <3>1. age[s.license][s.machine] \in Nat /\ age'[s.license][s.machine] \in Nat
          /\ age'[s.license][s.machine] <= age[s.license][s.machine]
      BY <1>5, <1>6, <1>9, <2>2 DEF Graced, TrustInv, TrustTyped
    <3> QED
      BY <1>9, <2>1, <2>2, <3>1, ClientAssumption DEF Graced
  <2> QED
    BY <2>1, <2>2 DEF Graced
<1>10. \A n \in Machines : Graced(file[n])'
  BY <1>4, <1>9 DEF TrustInv, TrustTyped, ClientTyped
<1>11. \A n \in Machines : CacheTrusted(n)'
  BY <1>4, <1>5, <1>6, ClientAssumption DEF CacheTrusted, TrustInv, TrustTyped
<1>12. CallGraced(r)'
  <2>0. c.state \in States
    BY <1>1 DEF CallStates
  <2>1. CallGraced(r) /\ (c.kind = "status" => Graced(c.state)')
    BY <1>8, <1>9, <2>0 DEF TrustInv, CallGraced
  <2>2. CASE call'[r].reply = c.reply
    BY <1>1, <1>4, <1>5, <1>6, <1>8, <2>1, <2>2 DEF CallGraced, TrustInv, TrustTyped
  <2>3. CASE c.state.license = l /\ call'[r].reply = Class(reply)
    BY <1>1, <1>4, <1>7, <1>8, <2>1, <2>3, ClassUnlocks DEF CallGraced
  <2> QED
    BY <1>8, <2>2, <2>3
<1>13. ASSUME NEW q \in Requests \ {r} PROVE CallGraced(q)'
  <2>1. call[q] \in CallStates /\ MachineOf[q] \in Machines
    BY RequestsApart DEF TrustInv, TrustTyped, ClientTyped
  <2>0. call[q].state \in States
    BY <2>1 DEF CallStates
  <2>2. call[q].kind = "status" => Graced(call[q].state)'
    BY <1>8, <1>9, <2>0 DEF TrustInv, CallGraced
  <2> QED
    BY <1>4, <1>5, <1>6, <1>8, <2>1, <2>2 DEF CallGraced, TrustInv, TrustTyped
<1> QED
  BY <1>4, <1>5, <1>10, <1>11, <1>12, <1>13 DEF TrustInv, TrustTyped

\* What an open transaction will answer.
TxnInv ==
  /\ txn \in [Requests -> Txns]
  /\ \A r \in Requests :
       txn[r] # NoTxn =>
         /\ txn[r].machine = MachineOf[r]
         /\ txn[r].verdict # "active_offline"
         /\ txn[r].verdict = "active" => txn[r].license \in Licenses

LEMMA TxnStepKeeps ==
  ASSUME TxnInv, ClientTyped, [ClientNext]_<<serverVars, clientVars>>
  PROVE  TxnInv'
<1>1. CASE UNCHANGED txn
  BY <1>1 DEF TxnInv
<1>2. ASSUME NEW r \in Requests, Closes(r) PROVE TxnInv'
  BY <1>2, NoTxnTyped DEF Closes, TxnInv
<1>3. ASSUME NEW r \in Requests, ActivationBegins(r, call[r].state.license, MachineOf[r]) PROVE TxnInv'
  <2> DEFINE l == call[r].state.license
             m == MachineOf[r]
  <2>1. l \in Licenses \cup {Typo} /\ m \in Machines
    BY ClientAssumption DEF ClientTyped, CallStates, States
  <2> HIDE DEF l, m
  <2>2. /\ ActivationStatus(l, m) \in Verdicts /\ ActivationStatus(l, m) # "active_offline"
        /\ ActivationStatus(l, m) = "active" => l # Typo
    BY DEF ActivationStatus, Verdicts
  <2>3. txn' = [txn EXCEPT ![r] = [license |-> l, machine |-> m, verdict |-> ActivationStatus(l, m)]]
    BY <1>3 DEF ActivationBegins, l, m
  <2>4. [license |-> l, machine |-> m, verdict |-> ActivationStatus(l, m)] \in Txns
    BY <2>1, <2>2 DEF Txns
  <2>5. m = MachineOf[r]
    BY DEF m
  <2> QED
    BY <2>1, <2>2, <2>3, <2>4, <2>5 DEF TxnInv
<1>4. UNCHANGED txn \/ \E r \in Requests : Closes(r) \/ ActivationBegins(r, call[r].state.license, MachineOf[r])
  <2>1. ASSUME NEW r \in Requests, ActivationArrives(r) \/ ActivationEnds(r)
        PROVE  UNCHANGED txn \/ Closes(r) \/ ActivationBegins(r, call[r].state.license, MachineOf[r])
    BY <2>1 DEF ActivationArrives, ActivationEnds, ActivationCommits, ActivationFails, serverVars
  <2>2. ASSUME NEW r \in Requests, StatusAnswered(r) \/ Receives(r) \/ Audited(r) \/ CallFails(r)
        PROVE  UNCHANGED txn
    BY <2>2 DEF StatusAnswered, Receives, Audited, CallFails, serverVars
  <2>3. ASSUME NEW r \in Requests,
               \/ \E refresh \in BOOLEAN : AskStatus(r, refresh)
               \/ \E l \in Licenses \cup {Typo} : AskActivation(r, l)
        PROVE  UNCHANGED txn
    BY <2>3 DEF AskStatus, AskActivation, serverVars
  <2>4. ASSUME NEW m \in Machines,
               DeactivateLocal(m) \/ CacheExpires(m) \/ \E n \in Machines \ {m} : FileCopied(m, n)
        PROVE  UNCHANGED txn
    BY <2>4 DEF DeactivateLocal, CacheExpires, FileCopied, serverVars
  <2>5. DayPasses \/ VendorActs => UNCHANGED txn
    BY DEF DayPasses, VendorActs, serverVars
  <2> QED
    BY <2>1, <2>2, <2>3, <2>4, <2>5 DEF ClientNext, CallAdvances, serverVars
<1> QED
  BY <1>1, <1>2, <1>3, <1>4

LEMMA AnswerKeeps ==
  ASSUME TrustInv, TxnInv, ClientTyped', NEW r \in Requests,
         StatusAnswered(r) \/ ActivationArrives(r) \/ ActivationEnds(r)
  PROVE  TrustInv'
<1> DEFINE l == call[r].state.license
<1>1. l \in Licenses \cup {Typo}
  BY DEF TrustInv, TrustTyped, ClientTyped, CallStates, States
<1>2. CASE StatusAnswered(r)
  <2> DEFINE verdict == CheckStatus(l, call[r].state.machine, MachineOf[r])
  <2>1. verdict # "active_offline" /\ (verdict = "active" => l \in Licenses)
    BY DEF CheckStatus, TrustInv, TrustTyped
  <2>2. /\ UNCHANGED <<valid, file, cache, aged>> /\ Confirmed(l, MachineOf[r], verdict)
        /\ call[r].kind = "status" /\ call' = [call EXCEPT ![r].reply = Class(verdict)]
    BY <1>2 DEF StatusAnswered, serverVars
  <2> HIDE DEF verdict, l
  <2> QED
    BY <1>1, <2>1, <2>2, ReplyKeeps DEF l
<1>3. CASE ActivationArrives(r)
  <2>1. CASE ActivationBegins(r, l, MachineOf[r]) /\ UNCHANGED call
    <3>1. UNCHANGED <<valid, file, cache, aged, age, call>>
      BY <1>3, <2>1 DEF ActivationArrives, ActivationBegins
    <3> QED
      BY <3>1 DEF TrustInv, TrustTyped, ClientTyped, Graced, CallGraced, CacheTrusted
  <2>2. CASE call' = [call EXCEPT ![r].reply = Class("server_error")] /\ UNCHANGED serverVars
    <3>1. /\ UNCHANGED <<valid, file, cache, aged>> /\ Confirmed(l, MachineOf[r], "server_error")
          /\ call[r].kind = "activate"
      BY <1>3, <2>2 DEF ActivationArrives, serverVars, Confirmed
    <3> HIDE DEF l
    <3> QED
      BY <1>1, <2>2, <3>1, ReplyKeeps DEF l
  <2> QED
    BY <1>3, <2>1, <2>2 DEF ActivationArrives
<1>4. CASE ActivationEnds(r)
  <2> DEFINE t == txn[r]
  <2>1. PICK verdict \in {t.verdict, "server_error"} :
          /\ t # NoTxn /\ UNCHANGED valid /\ Confirmed(t.license, t.machine, verdict)
          /\ \/ UNCHANGED call
             \/ /\ call[r].kind = "activate" /\ call[r].state.license = t.license
                /\ call' = [call EXCEPT ![r].reply = Class(verdict)]
    BY <1>4 DEF ActivationEnds, ActivationCommits, ActivationFails, Closes, Confirmed
  <2>2. UNCHANGED <<file, cache, aged>>
    BY <1>4 DEF ActivationEnds
  <2>3. /\ t.machine = MachineOf[r] /\ t.license \in Licenses \cup {Typo}
        /\ verdict # "active_offline" /\ (verdict = "active" => t.license \in Licenses)
    BY <2>1 DEF TxnInv, Txns
  <2> HIDE DEF t
  <2> QED
    BY <2>1, <2>2, <2>3, ReplyKeeps
<1> QED
  BY <1>2, <1>3, <1>4

LEMMA ReceiptKeeps ==
  ASSUME TrustInv, ClientTyped', NEW r \in Requests, Receives(r)
  PROVE  TrustInv'
<1> DEFINE c == call[r]
           m == MachineOf[r]
           a == Answer(c.reply, IF c.reply = "active" THEN c.state.license ELSE Typo)
<1>1. m \in Machines /\ m # r /\ c \in CallStates /\ c.state \in States
  BY RequestsApart DEF TrustInv, TrustTyped, ClientTyped, CallStates
<1>2. UNCHANGED <<valid, age>> /\ Cached(m, r, a) /\ call' = [call EXCEPT ![r] = Idle]
  BY DEF Receives, serverVars
<1>3. /\ \A q \in Requests \ {r} : call'[q] = call[q]
      /\ call'[r] = Idle
  BY <1>2 DEF TrustInv, TrustTyped, ClientTyped
<1>4. a \in Answers /\ (a.status \in Unlocks => c.reply = "active" /\ a.license = c.state.license)
  BY <1>1 DEF Answer, Answers, CallStates, States, Replies, Unlocks, TrustInv, CallGraced
<1>5. CASE c.reply # "active"
  <2>1. file' = file
    BY <1>5 DEF Receives
  <2> QED
    BY <1>1, <1>2, <1>3, <1>4, <1>5, <2>1, IdleGraced, CachedKeeps
<1>6. CASE c.reply = "active"
  <2> DEFINE f == [c.state EXCEPT !.left = Grace]
             l == c.state.license
  <2>1. /\ l \in Licenses /\ c.state.machine = m
        /\ age[l][m] \in Nat /\ age[l][m] <= 1
    BY <1>1, <1>6 DEF Receives, TrustInv, TrustTyped, CallGraced
  <2>2. f \in States /\ f.license = l /\ f.machine = m /\ f.left = Grace
    BY <1>1, <2>1, ClientAssumption DEF States
  <2>3. file' = [file EXCEPT ![m] = f]
    BY <1>6 DEF Receives
  <2> HIDE DEF f
  <2>4. Graced(f)
    BY <1>1, <2>1, <2>2, ClientAssumption DEF Graced
  <2>5. \A n \in Machines : Graced(file[n])'
    BY <1>1, <1>2, <2>3, <2>4 DEF Graced, TrustInv, TrustTyped, ClientTyped
  <2>6. \A n \in Machines \ {m} : cache'[n] = cache[n] /\ (n \in aged' <=> n \in aged)
    BY <1>2, ClientAssumption DEF Cached, TrustInv, TrustTyped
  <2>7. cache'[m] = a /\ m \notin aged' /\ cache' \in [Machines -> Answers]
    BY <1>1, <1>2, <1>4, <1>6 DEF Cached, TrustInv, TrustTyped, Answer
  <2>8. CacheTrusted(m)'
    BY <1>1, <1>2, <1>4, <2>1, <2>7, ClientAssumption DEF CacheTrusted
  <2>9. \A n \in Machines : CacheTrusted(n)'
    BY <1>2, <2>6, <2>8 DEF CacheTrusted, TrustInv
  <2>10. CallGraced(r)'
    BY <1>3, IdleGraced
  <2>11. \A q \in Requests \ {r} : CallGraced(q)'
    BY <1>2, <1>3, ClientAssumption DEF CallGraced, Graced, TrustInv, Cached
  <2> QED
    BY <1>2, <2>5, <2>7, <2>9, <2>10, <2>11 DEF TrustInv, TrustTyped
<1> QED
  BY <1>5, <1>6

LEMMA FailureKeeps ==
  ASSUME TrustInv, ClientTyped', NEW r \in Requests, Audited(r) \/ CallFails(r)
  PROVE  TrustInv'
<1> DEFINE c == call[r]
           m == MachineOf[r]
<1>1. m \in Machines /\ m # r /\ c \in CallStates /\ c.state \in States
  BY RequestsApart DEF TrustInv, TrustTyped, ClientTyped, CallStates
<1>2. UNCHANGED <<valid, file, age>> /\ call' = [call EXCEPT ![r] = Idle]
  BY DEF Audited, CallFails, serverVars
<1>3. CallGraced(r)' /\ \A q \in Requests \ {r} : call'[q] = call[q]
  <2>1. call'[r] = Idle /\ \A q \in Requests \ {r} : call'[q] = call[q]
    BY <1>2 DEF TrustInv, TrustTyped, ClientTyped
  <2> QED
    BY <2>1, IdleGraced
<1>4. CASE Audited(r)
  BY <1>1, <1>2, <1>3, <1>4, RefusalLocks, CachedKeeps DEF Audited, Unlocks
<1>5. CASE CallFails(r)
  <2>1. PICK failure \in {"network", "server"} :
          Cached(m, r, IF c.kind = "status" THEN OfflineAnswer(c.state, failure) ELSE Answer("uncached", Typo))
    BY <1>5 DEF CallFails
  <2>2. CASE c.kind = "status" /\ c.state.left >= 0
    <3> DEFINE a == Answer("active_offline", c.state.license)
    <3>1. c.state.license \in Licenses /\ age[c.state.license][m] \in Nat
          /\ age[c.state.license][m] + c.state.left <= Grace + 1
      BY <1>1, <2>2 DEF TrustInv, TrustTyped, CallGraced, Graced
    <3>2. a \in Answers /\ a.license = c.state.license
      BY <3>1 DEF Answer, Answers, Replies
    <3>3. age[a.license][m] <= Grace + 1
      BY <1>1, <2>2, <3>1, <3>2, ClientAssumption DEF States
    <3>4. Cached(m, r, a)
      BY <2>1, <2>2 DEF OfflineAnswer
    <3> QED
      BY <1>1, <1>2, <1>3, <3>1, <3>2, <3>3, <3>4, CachedKeeps
  <2>3. CASE ~(c.kind = "status" /\ c.state.left >= 0)
    <3>1. PICK a \in Answers : Cached(m, r, a) /\ a.status \notin Unlocks
      <4>1. \A s \in {"server_error", "verification_required"} :
              Refusal(s) \in Answers /\ Refusal(s).status \notin Unlocks
        BY DEF Refusal, Answer, Class, Answers, Replies, Unlocks
      <4>2. Answer("uncached", Typo) \in Answers /\ Answer("uncached", Typo).status \notin Unlocks
        BY DEF Answer, Answers, Replies, Unlocks
      <4> QED
        BY <2>1, <2>3, <4>1, <4>2 DEF OfflineAnswer
    <3> QED
      BY <1>1, <1>2, <1>3, <3>1, CachedKeeps
  <2> QED
    BY <2>2, <2>3
<1> QED
  BY <1>4, <1>5

LEMMA MachineKeeps ==
  ASSUME TrustInv, ClientTyped', NEW m \in Machines,
         DeactivateLocal(m) \/ CacheExpires(m) \/ \E n \in Machines : FileCopied(m, n)
  PROVE  TrustInv'
<1>1. CASE CacheExpires(m)
  BY <1>1, RequestsApart, RefusalLocks, CachedKeeps DEF CacheExpires, serverVars, Unlocks
<1>2. ASSUME NEW n \in Machines, FileCopied(m, n) PROVE TrustInv'
  BY <1>2 DEF FileCopied, serverVars, TrustInv, TrustTyped, ClientTyped, Graced, CallGraced, CacheTrusted
<1>3. CASE DeactivateLocal(m)
  <2> DEFINE a == Refusal("not_activated")
  <2>1. UNCHANGED <<valid, call, age>> /\ Cached(m, m, a) /\ file' = [file EXCEPT ![m] = NoFile]
    BY <1>3 DEF DeactivateLocal, serverVars
  <2>2. cache' = [cache EXCEPT ![m] = a] /\ aged' = aged \ {m}
    BY <2>1, RefusalLocks DEF Cached
  <2>3. \A n \in Machines : Graced(file[n])'
    BY <2>1 DEF Graced, NoFile, TrustInv, TrustTyped, ClientTyped
  <2>4. \A n \in Machines : CacheTrusted(n)'
    BY <2>1, <2>2, RefusalLocks DEF CacheTrusted, Unlocks, TrustInv, TrustTyped
  <2>5. \A q \in Requests : CallGraced(q)'
    BY <2>1, <2>2, RequestsApart DEF CallGraced, Graced, TrustInv
  <2> QED
    BY <2>1, <2>2, <2>3, <2>4, <2>5, RefusalLocks DEF TrustInv, TrustTyped
<1> QED
  BY <1>1, <1>2, <1>3

\* A day that passes takes from the grace what it adds to the age.
LEMMA DayKeeps ==
  ASSUME TrustInv, ClientTyped', DayPasses
  PROVE  TrustInv'
<1>1. /\ UNCHANGED <<valid, cache>> /\ aged = {}
      /\ aged' = {m \in Machines : cache[m] # Empty} \cup {r \in Requests : call[r] # Idle}
      /\ file' = [m \in Machines |-> FileAges(file[m])]
      /\ call' = [r \in Requests |-> IF call[r].kind = "status"
                                     THEN [call[r] EXCEPT !.state = FileAges(call[r].state)] ELSE call[r]]
  BY DEF DayPasses, serverVars
<1>2. /\ age' \in [Licenses -> [Machines -> Nat]]
      /\ \A l \in Licenses, m \in Machines : age'[l][m] <= age[l][m] + 1
  BY ClientAssumption DEF DayPasses, TrustInv, TrustTyped
<1>3. ASSUME NEW s \in States, Graced(s) PROVE Graced(FileAges(s))'
  <2>1. s.left \in Int
    BY DEF States
  <2>2. CASE s.left >= 0
    <3>1. FileAges(s).license = s.license /\ FileAges(s).machine = s.machine /\ FileAges(s).left = s.left - 1
      BY <2>2 DEF FileAges, States
    <3>2. /\ s.license \in Licenses /\ s.machine \in Machines
          /\ age[s.license][s.machine] \in Nat /\ age'[s.license][s.machine] \in Nat
          /\ age'[s.license][s.machine] <= age[s.license][s.machine] + 1
      BY <1>2, <1>3, <2>2 DEF Graced, TrustInv, TrustTyped
    <3> QED
      BY <1>3, <2>1, <2>2, <3>1, <3>2, ClientAssumption DEF Graced
  <2>3. CASE ~(s.left >= 0)
    BY <2>3 DEF FileAges, Graced
  <2> QED
    BY <2>2, <2>3
<1>4. \A n \in Machines : Graced(file[n])'
  BY <1>1, <1>3 DEF TrustInv, TrustTyped, ClientTyped
<1>5. ASSUME NEW m \in Machines PROVE CacheTrusted(m)'
  <2>1. CASE cache[m].status \in Unlocks
    <3>1. m \in aged'
      BY <1>1, <2>1 DEF Empty, Answer, Unlocks
    <3>2. cache[m].license \in Licenses /\ age[cache[m].license][m] <= Grace + 1
      BY <1>1, <2>1 DEF CacheTrusted, TrustInv
    <3>3. age[cache[m].license][m] \in Nat /\ age'[cache[m].license][m] \in Nat
          /\ age'[cache[m].license][m] <= age[cache[m].license][m] + 1
      BY <1>2, <3>2 DEF TrustInv, TrustTyped
    <3> QED
      BY <1>1, <3>1, <3>2, <3>3, ClientAssumption DEF CacheTrusted
  <2>2. CASE cache[m].status \notin Unlocks
    BY <1>1, <2>2 DEF CacheTrusted
  <2> QED
    BY <2>1, <2>2
<1>6. ASSUME NEW r \in Requests PROVE CallGraced(r)'
  <2> DEFINE c == call[r]
  <2>1. c \in CallStates /\ c.state \in States /\ CallGraced(r) /\ MachineOf[r] \in Machines
    BY RequestsApart DEF TrustInv, TrustTyped, ClientTyped, CallStates
  <2>2. CASE c.kind = "status"
    <3>1. call'[r].kind = c.kind /\ call'[r].reply = c.reply /\ call'[r].state = FileAges(c.state)
      BY <1>1, <2>1, <2>2 DEF CallStates
    <3>2. Graced(call[r].state)'
      BY <1>3, <2>1, <2>2, <3>1 DEF CallGraced
    <3>3. FileAges(c.state).machine = c.state.machine /\ FileAges(c.state).license = c.state.license
      BY <2>1 DEF FileAges, States
    <3>4. r \in aged'
      BY <1>1, <2>2 DEF Idle
    <3>5. c.reply = "active" => c.state.license \in Licenses /\ age'[c.state.license][MachineOf[r]] <= 1
      BY <1>1, <1>2, <2>1 DEF CallGraced, TrustInv, TrustTyped
    <3> QED
      BY <2>1, <2>2, <3>1, <3>2, <3>3, <3>4, <3>5 DEF CallGraced
  <2>3. CASE c.kind # "status"
    <3>1. call'[r] = c
      BY <1>1, <2>3
    <3>2. CASE c = Idle
      BY <3>1, <3>2, IdleGraced
    <3>3. CASE c # Idle
      <4>1. r \in aged'
        BY <1>1, <3>3
      <4>2. c.reply = "active" => c.state.license \in Licenses /\ age'[c.state.license][MachineOf[r]] <= 1
        BY <1>1, <1>2, <2>1 DEF CallGraced, TrustInv, TrustTyped
      <4> QED
        BY <2>1, <2>3, <3>1, <4>1, <4>2 DEF CallGraced
    <3> QED
      BY <3>2, <3>3
  <2> QED
    BY <2>2, <2>3
<1> QED
  BY <1>1, <1>2, <1>4, <1>5, <1>6 DEF TrustInv, TrustTyped

LEMMA TrustStepKeeps ==
  ASSUME TrustInv, TxnInv, [ClientNext]_<<serverVars, clientVars>>
  PROVE  TrustInv'
<1>0. ClientTyped'
  BY ClientKeepsTypes DEF TrustInv, TrustTyped
<1>1. CASE \E r \in Requests :
             \/ \E refresh \in BOOLEAN : AskStatus(r, refresh)
             \/ \E l \in Licenses \cup {Typo} : AskActivation(r, l)
             \/ CallAdvances(r)
  BY <1>0, <1>1, AskKeeps, AnswerKeeps, ReceiptKeeps, FailureKeeps DEF CallAdvances
<1>2. CASE \E m \in Machines :
             DeactivateLocal(m) \/ CacheExpires(m) \/ \E n \in Machines \ {m} : FileCopied(m, n)
  BY <1>0, <1>2, MachineKeeps
<1>3. CASE DayPasses
  BY <1>0, <1>3, DayKeeps
<1>4. ASSUME valid' \subseteq Licenses, UNCHANGED clientVars PROVE TrustInv'
  BY <1>4 DEF clientVars, TrustInv, TrustTyped, ClientTyped, Graced, CallGraced, CacheTrusted
<1>5. CASE VendorActs /\ UNCHANGED clientVars
  BY <1>4, <1>5 DEF VendorActs, TrustInv, TrustTyped
<1>6. CASE UNCHANGED <<serverVars, clientVars>>
  BY <1>4, <1>6 DEF serverVars, TrustInv, TrustTyped
<1> QED
  BY <1>1, <1>2, <1>3, <1>5, <1>6 DEF ClientNext

\* A machine works only with a license that the server has confirmed on it within
\* the grace period, whatever is cached, copied, lost or written back late, for
\* any machines, requests and length of the grace period
\* (license_service.py:173-300, license_guard.py).
THEOREM TrustNeverOutlived == ClientSpec => []TrustIsBounded
<1>1. ClientSpec => TrustInv /\ TxnInv
  <2>1. ServerInit => TxnInv
    BY NoTxnTyped DEF ServerInit, TxnInv
  <2> QED
    BY <2>1, TrustStarts DEF ClientSpec
<1>2. TrustInv /\ TxnInv /\ [ClientNext]_<<serverVars, clientVars>> => (TrustInv /\ TxnInv)'
  BY TrustStepKeeps, TxnStepKeeps DEF TrustInv, TrustTyped
<1>3. TrustInv => TrustIsBounded
  <2> SUFFICES ASSUME TrustInv, NEW m \in Machines, cache[m].status \in Unlocks
               PROVE  age[cache[m].license][m] <= Grace + 2
    BY DEF TrustIsBounded
  <2>1. CacheTrusted(m) /\ cache[m].license \in Licenses
    BY DEF TrustInv, CacheTrusted
  <2>2. age[cache[m].license][m] \in Nat
    BY <2>1 DEF TrustInv, TrustTyped
  <2> QED
    BY <2>1, <2>2, ClientAssumption DEF CacheTrusted
<1> QED
  BY <1>1, <1>2, <1>3, PTL DEF ClientSpec

=============================================================================
