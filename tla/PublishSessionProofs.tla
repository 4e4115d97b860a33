----------------------- MODULE PublishSessionProofs -----------------------
(***************************************************************************)
(* Theorems of PublishSession, for every set of accounts, proxies and      *)
(* publish tasks.                                                          *)
(***************************************************************************)
EXTENDS PublishSession, FiniteFolds, FiniteSetTheorems, TLAPS

Places == Busy \cup {"idle", "done"}

SlotType ==
  /\ active \subseteq Accounts
  /\ onProxy \in [Proxies -> SUBSET Accounts]
  /\ at \in [Tasks -> Places]
  /\ level \in [Tasks -> Activity \cup {"none"}]

\* Only a placed session waits for its start: what StartJob registers has an
\* engine, so its finally clause will not fail to release it.
WaitingIsPlaced == \A t \in Tasks : at[t] \in {"waiting", "denied"} => level[t] # "none"

SlotInv == SlotType /\ WaitingIsPlaced /\ SlotsReleased

SlotVars == <<active, onProxy, level>>

\* A step of the handler between placing and ending: the slots and the levels
\* stay, and no session begins to wait.
Passes(t) ==
  /\ UNCHANGED SlotVars
  /\ \E place \in Places \ {"waiting", "denied"} : at' = [at EXCEPT ![t] = place]

LEMMA PassesKeeps == ASSUME SlotInv, NEW t \in Tasks, Passes(t) PROVE SlotInv'
BY DEF SlotInv, SlotType, SlotVars, WaitingIsPlaced, SlotsReleased, Passes, Acct

\* Nothing the property speaks about changes.
LEMMA IdleKeeps == ASSUME SlotInv, UNCHANGED <<SlotVars, at>> PROVE SlotInv'
BY DEF SlotInv, SlotType, SlotVars, WaitingIsPlaced, SlotsReleased, Acct

\* Most steps of a session only pass.
LEMMA SessionPasses ==
  ASSUME NEW t \in Tasks,
         \/ Enter(t) \/ ProxyFails(t) \/ CheckParallel(t) \/ CheckCooldown(t)
         \/ CheckSession(t) \/ ReadRaises(t) \/ BrowserFails(t) \/ LoggedOut(t)
         \/ Decide(t) \/ Post(t) \/ Confirm(t) \/ RecordRaises(t)
         \/ Count(t) \/ Read(t) \/ Write(t) \/ Finish(t) \/ TimesOut(t)
  PROVE  Passes(t)
<1> USE DEF Passes, SlotVars, Places, Busy, Working, Recording, Goes, Fails, Records,
            coordVars
<1>1. CASE Enter(t) BY <1>1 DEF Enter
<1>2. CASE ProxyFails(t) BY <1>2 DEF ProxyFails
<1>3. CASE CheckParallel(t) BY <1>3 DEF CheckParallel
<1>4. CASE CheckCooldown(t) BY <1>4 DEF CheckCooldown
<1>5. CASE CheckSession(t) BY <1>5 DEF CheckSession
<1>6. CASE ReadRaises(t) BY <1>6 DEF ReadRaises
<1>7. CASE BrowserFails(t) BY <1>7 DEF BrowserFails
<1>8. CASE LoggedOut(t) BY <1>8 DEF LoggedOut
<1>9. CASE Decide(t) BY <1>9 DEF Decide, RecordSkip
<1>10. CASE Post(t) BY <1>10 DEF Post
<1>11. CASE Confirm(t) BY <1>11 DEF Confirm
<1>12. CASE RecordRaises(t) BY <1>12 DEF RecordRaises
<1>13. CASE Count(t) BY <1>13 DEF Count
<1>14. CASE Read(t) BY <1>14 DEF Read
<1>15. CASE Write(t) BY <1>15 DEF Write
<1>16. CASE Finish(t) BY <1>16 DEF Finish
<1>17. CASE TimesOut(t) BY <1>17 DEF TimesOut
<1> QED BY <1>1, <1>2, <1>3, <1>4, <1>5, <1>6, <1>7, <1>8, <1>9, <1>10, <1>11, <1>12,
           <1>13, <1>14, <1>15, <1>16, <1>17

\* A task of a limited account is not even begun.
LEMMA BeginKeeps == ASSUME SlotInv, NEW t \in Tasks, Begin(t) PROVE SlotInv'
<1>1. CASE standing[Acct(t)] = "limited"
  BY <1>1, IdleKeeps DEF Begin, SlotVars, coordVars
<1>2. CASE standing[Acct(t)] # "limited"
  <2>1. Passes(t)
    BY <1>2 DEF Begin, Passes, SlotVars, coordVars, Goes, Places, Busy, Working
  <2> QED BY <2>1, PassesKeeps
<1> QED BY <1>1, <1>2

\* The step that places a session gives it a level.
LEMMA PlaceKeeps == ASSUME SlotInv, NEW t \in Tasks, PlaceSession(t) PROVE SlotInv'
<1>1. PICK l \in Activity : level' = [level EXCEPT ![t] = l]
  <2>1. PICK personality \in Activity : \E l \in Adjusted(personality) :
               level' = [level EXCEPT ![t] = l]
    BY DEF PlaceSession
  <2>2. Adjusted(personality) \subseteq Activity
    BY DEF Adjusted, Activity
  <2> QED BY <2>1, <2>2
<1>2. UNCHANGED <<active, onProxy>>
  BY DEF PlaceSession, Place
<1>3. PICK place \in Places : at' = [at EXCEPT ![t] = place]
  BY DEF PlaceSession, Goes, Fails, Places, Busy, Working, Recording
<1> QED BY <1>1, <1>2, <1>3
        DEF SlotInv, SlotType, WaitingIsPlaced, SlotsReleased, Acct, Activity

\* The slot a starting job takes is that of a placed session.
LEMMA StartKeeps == ASSUME SlotInv, NEW t \in Tasks, StartJob(t) PROVE SlotInv'
<1> DEFINE x == Acct(t)
           p == ProxyOf[x]
<1>1. x \in Accounts /\ p \in Proxies
  BY SessionAssumption, ProxyAssumption DEF Acct
<1>2. level[t] # "none" /\ level' = level
  BY DEF StartJob, SlotInv, WaitingIsPlaced
<1>3. at' = [at EXCEPT ![t] = "started"]
  BY DEF StartJob, Goes
<1>4. active' = active \cup {x} /\ onProxy' = [onProxy EXCEPT ![p] = @ \cup {x}]
  BY DEF StartJob, RegisterStart
<1>5. SlotType' /\ WaitingIsPlaced'
  BY <1>1, <1>2, <1>3, <1>4 DEF SlotInv, SlotType, WaitingIsPlaced, Places, Busy, Working
<1>6. SlotsReleased'
  BY <1>1, <1>2, <1>4 DEF SlotInv, SlotType, SlotsReleased, Acct
<1> QED BY <1>5, <1>6 DEF SlotInv

\* A session that ends frees the slot of its account.
LEMMA EndKeeps ==
  ASSUME SlotInv, NEW t \in Tasks, Leaves(t),
         \/ FreesSlot(Acct(t), ProxyOf[Acct(t)])
         \/ level[t] = "none" /\ UNCHANGED <<active, onProxy>>
  PROVE  SlotInv'
<1> DEFINE x == Acct(t)
           p == ProxyOf[x]
<1>1. x \in Accounts /\ p \in Proxies
  BY SessionAssumption, ProxyAssumption DEF Acct
<1>2. at' = [at EXCEPT ![t] = "returned"] /\ level' = [level EXCEPT ![t] = "none"]
  BY DEF Leaves, Goes
<1>3. CASE FreesSlot(x, p)
  <2>1. active' = active \ {x} /\ onProxy' = [onProxy EXCEPT ![p] = @ \ {x}]
    BY <1>3 DEF FreesSlot
  <2>2. SlotType' /\ WaitingIsPlaced'
    BY <1>1, <1>2, <2>1 DEF SlotInv, SlotType, WaitingIsPlaced, Places, Busy, Working
  <2>3. SlotsReleased'
    BY <1>1, <1>2, <2>1 DEF SlotInv, SlotType, SlotsReleased, Acct
  <2> QED BY <2>2, <2>3 DEF SlotInv
<1>4. CASE level[t] = "none" /\ UNCHANGED <<active, onProxy>>
  BY <1>2, <1>4
  DEF SlotInv, SlotType, WaitingIsPlaced, SlotsReleased, Acct, Places, Busy, Working
<1> QED BY <1>3, <1>4

\* Every step of the publisher keeps the invariant.
LEMMA SlotStep == SlotInv /\ [Next]_vars => SlotInv'
<1> SUFFICES ASSUME SlotInv, [Next]_vars PROVE SlotInv'
  OBVIOUS
<1>1. ASSUME NEW t \in Tasks, SessionStep(t) \/ TimesOut(t) \/ ReadRaises(t) \/ RecordRaises(t)
      PROVE  SlotInv'
  <2>1. CASE Begin(t) BY <2>1, BeginKeeps
  <2>2. CASE PlaceSession(t) BY <2>2, PlaceKeeps
  <2>3. CASE StartJob(t) BY <2>3, StartKeeps
  <2>4. CASE Register(t)
    BY <2>4, EndKeeps DEF Register, RegisterEnds
  <2>5. CASE End(t)
    BY <2>5, EndKeeps DEF End, RegisterEnds, coordVars
  <2>6. CASE Passes(t) BY <2>6, PassesKeeps
  <2> QED BY <1>1, <2>1, <2>2, <2>3, <2>4, <2>5, <2>6, SessionPasses DEF SessionStep
<1>2. ASSUME NEW x \in Accounts, OperatorActs(x) \/ Reconnects(x) \/ CooldownPasses(x)
      PROVE  SlotInv'
  BY <1>2, IdleKeeps
  DEF OperatorActs, Reconnects, CooldownPasses, coordVars, sessionVars, SlotVars
<1>3. CASE WindowsSlide
  BY <1>3, IdleKeeps
  DEF WindowsSlide, BurstSlides, HourSlides, SkipWindowSlides, Midnight, sessionVars, SlotVars
<1>4. CASE WorkerDies
  BY <1>4
  DEF WorkerDies, CoordReset, SlotInv, SlotType, WaitingIsPlaced, SlotsReleased, Places,
      Busy, Activity
<1>5. CASE UNCHANGED vars
  BY <1>5, IdleKeeps DEF vars, coordVars, sessionVars, SlotVars
<1> QED BY <1>1, <1>2, <1>3, <1>4, <1>5 DEF Next

\* The coordinator never keeps the slot of a session that is over, however
\* many sessions of however many accounts end in whatever way.
THEOREM SlotsAlwaysReleased == Spec => []SlotsReleased
<1>1. Init => SlotInv
  BY DEF Init, CoordInit, SlotInv, SlotType, WaitingIsPlaced, SlotsReleased, Places, Activity
<1>2. SlotInv => SlotsReleased
  BY DEF SlotInv
<1> QED BY <1>1, <1>2, SlotStep, PTL DEF Spec

-----------------------------------------------------------------------------
(* The status follows the score, however many sessions write it            *)

Notes == [score : 0 .. 100, standing : Standings]
Counters == [failed : Nat, captchas : Nat, redirects : Nat]

\* A score and a status that agree.
Agree(s, st) == (s >= AutoPause => st # "healthy") /\ (s >= AutoBan => st = "banned")

\* What a session has read to write back agrees with itself, if no longer with
\* the row: this is what survives of a write that another session overtook.
RiskInv ==
  /\ standing \in [Accounts -> Standings]
  /\ score \in [Accounts -> 0 .. 100]
  /\ counter \in [Accounts -> Counters]
  /\ mark \in [Tasks -> Marks]
  /\ note \in [Tasks -> Notes]
  /\ \A t \in Tasks : Agree(note[t].score, note[t].standing)

Governs == \A x \in Accounts : Governed(x) /\ ~OperatorActs(x) => Governed(x)'
Rated == RiskInv' /\ Governs

LEMMA RiskStarts == Init => RiskInv
  BY RiskAssumption
  DEF Init, RiskInit, RiskInv, RiskOf, Counters, Notes, Nothing, Agree, Standings, Marks, AutoPause, AutoBan

\* No step of the handler but a record_* call, its end and its errors touches
\* what the risk is made of.
Unrated(t) ==
  /\ UNCHANGED <<standing, score, counter, note>>
  /\ UNCHANGED mark \/ \E m \in Marks : mark' = [mark EXCEPT ![t] = m]

LEMMA UnratedKeeps == ASSUME RiskInv, NEW t \in Tasks, Unrated(t) PROVE Rated
  BY DEF RiskInv, Unrated, Rated, Governs, Governed

LEMMA MostAreUnrated ==
  ASSUME NEW t \in Tasks,
         \/ Begin(t) \/ Enter(t) \/ ProxyFails(t) \/ PlaceSession(t) \/ StartJob(t)
         \/ CheckParallel(t) \/ CheckCooldown(t) \/ CheckSession(t) \/ ReadRaises(t)
         \/ BrowserFails(t) \/ LoggedOut(t) \/ Decide(t) \/ Post(t) \/ Confirm(t)
         \/ RecordRaises(t) \/ Finish(t) \/ TimesOut(t)
  PROVE  Unrated(t)
<1> USE DEF Unrated, riskVars, Fails, Records, Marks
<1>1. CASE Begin(t) BY <1>1 DEF Begin
<1>2. CASE Enter(t) BY <1>2 DEF Enter
<1>3. CASE ProxyFails(t) BY <1>3 DEF ProxyFails
<1>4. CASE PlaceSession(t) BY <1>4 DEF PlaceSession
<1>5. CASE StartJob(t) BY <1>5 DEF StartJob
<1>6. CASE CheckParallel(t) BY <1>6 DEF CheckParallel
<1>7. CASE CheckCooldown(t) BY <1>7 DEF CheckCooldown
<1>8. CASE CheckSession(t) BY <1>8 DEF CheckSession
<1>9. CASE ReadRaises(t) BY <1>9 DEF ReadRaises
<1>10. CASE BrowserFails(t) BY <1>10 DEF BrowserFails
<1>11. CASE LoggedOut(t) BY <1>11 DEF LoggedOut, Disconnect
<1>12. CASE Decide(t) BY <1>12 DEF Decide
<1>13. CASE Post(t) BY <1>13 DEF Post
<1>14. CASE Confirm(t) BY <1>14 DEF Confirm
<1>15. CASE RecordRaises(t) BY <1>15 DEF RecordRaises
<1>16. CASE Finish(t) BY <1>16 DEF Finish
<1>17. CASE TimesOut(t) BY <1>17 DEF TimesOut
<1> QED BY <1>1, <1>2, <1>3, <1>4, <1>5, <1>6, <1>7, <1>8, <1>9, <1>10, <1>11, <1>12,
           <1>13, <1>14, <1>15, <1>16, <1>17

LEMMA CountKeeps == ASSUME RiskInv, NEW t \in Tasks, Count(t) PROVE Rated
<1>1. Acct(t) \in Accounts /\ mark[t] \in Marks
  BY SessionAssumption DEF Acct, RiskInv
<1>2. counter' \in [Accounts -> Counters]
  <2>1. counter[Acct(t)] \in Counters
    BY <1>1 DEF RiskInv
  <2>2. Counted(counter[Acct(t)], mark[t]) \in Counters
    BY <1>1, <2>1 DEF Counted, Relieved, Counters, Marks
  <2> QED BY <2>2 DEF Count, CountMark, RiskInv
<1>3. UNCHANGED <<standing, score, note, mark>>
  BY DEF Count, CountMark
<1> QED BY <1>2, <1>3 DEF RiskInv, Rated, Governs, Governed

\* _recalculate_risk never reads a status that its own score forbids.
LEMMA RecalculatedAgrees ==
  ASSUME RiskInv, NEW x \in Accounts
  PROVE  /\ Recalculated(x) \in Notes
         /\ Agree(Recalculated(x).score, Recalculated(x).standing)
<1>1. RiskOf(counter[x]) \in 0 .. 100
  <2> DEFINE c == counter[x]
             s == 20 * c.failed + 30 * c.captchas + 25 * c.redirects
  <2>1. c.failed \in Nat /\ c.captchas \in Nat /\ c.redirects \in Nat
    BY DEF RiskInv, Counters
  <2>2. s \in Nat
    BY <2>1
  <2>3. RiskOf(c) = IF s < 100 THEN s ELSE 100
    BY DEF RiskOf
  <2> HIDE DEF c, s
  <2>4. RiskOf(c) \in 0 .. 100
    BY <2>2, <2>3
  <2> QED BY <2>4 DEF c
<1>2. standing[x] \in Standings
  BY DEF RiskInv
<1> QED BY <1>1, <1>2 DEF Recalculated, Escalated, Notes, Standings, Agree, AutoPause, AutoBan

LEMMA ReadKeeps == ASSUME RiskInv, NEW t \in Tasks, Read(t) PROVE Rated
<1>1. Acct(t) \in Accounts
  BY SessionAssumption DEF Acct
<1>2. note' = [note EXCEPT ![t] = Recalculated(Acct(t))] /\ UNCHANGED <<standing, score, counter, mark>>
  BY DEF Read, riskVars
<1>3. RiskInv'
  BY <1>1, <1>2, RecalculatedAgrees DEF RiskInv
<1> QED BY <1>2, <1>3 DEF Rated, Governs, Governed

\* A session that leaves forgets what it has read.
LEMMA NothingAgrees == Nothing \in Notes /\ Agree(Nothing.score, Nothing.standing)
  BY DEF Nothing, Notes, Standings, Agree, AutoPause, AutoBan

LEMMA WriteKeeps == ASSUME RiskInv, NEW t \in Tasks, Write(t) PROVE Rated
<1> DEFINE x == Acct(t)
<1>1. x \in Accounts /\ note[t] \in Notes /\ Agree(note[t].score, note[t].standing)
  BY SessionAssumption DEF Acct, RiskInv
<1>2. /\ score' = [score EXCEPT ![x] = note[t].score]
      /\ standing' = [standing EXCEPT ![x] = note[t].standing]
      /\ note' = [note EXCEPT ![t] = Nothing] /\ UNCHANGED counter
  BY DEF Write, WriteBack
<1>3. mark' \in [Tasks -> Marks]
  BY DEF Write, Fails, Marks, RiskInv
<1>4. RiskInv'
  BY <1>1, <1>2, <1>3, NothingAgrees DEF RiskInv, Notes
<1>5. Governed(x)'
  BY <1>1, <1>2 DEF Governed, Agree, RiskInv
<1>6. \A y \in Accounts \ {x} : score'[y] = score[y] /\ standing'[y] = standing[y]
  BY <1>2 DEF RiskInv
<1> QED BY <1>4, <1>5, <1>6 DEF Rated, Governs, Governed

LEMMA LeavingKeeps ==
  ASSUME RiskInv, NEW t \in Tasks, Register(t) \/ End(t)
  PROVE  Rated
<1>1. UNCHANGED <<standing, score, counter>>
  BY DEF Register, End, riskVars
<1>2. note' = [note EXCEPT ![t] = Nothing] /\ mark' = [mark EXCEPT ![t] = "failure"]
  BY DEF Register, End, Leaves
<1>3. RiskInv'
  BY <1>1, <1>2, NothingAgrees DEF RiskInv, Marks
<1> QED BY <1>1, <1>3 DEF Rated, Governs, Governed

\* The operator is excused for the account acted on, and for no other.
LEMMA ActsKeeps == ASSUME RiskInv, NEW x \in Accounts, OperatorActs(x) PROVE Rated
<1>1. PICK st \in Standings : standing' = [standing EXCEPT ![x] = st]
  BY DEF OperatorActs, SetStanding, MarkSoftBan, ClearSoftBan, Standings
<1>2. UNCHANGED <<score, counter, note, mark>>
  BY DEF OperatorActs, SetStanding, MarkSoftBan, ClearSoftBan, sessionVars
<1>3. RiskInv'
  BY <1>1, <1>2 DEF RiskInv
<1>4. \A y \in Accounts \ {x} : standing'[y] = standing[y]
  BY <1>1 DEF RiskInv
<1> QED BY <1>2, <1>3, <1>4 DEF Rated, Governs, Governed

LEMMA RiskStep == ASSUME RiskInv, [Next]_vars PROVE RiskInv' /\ [Governs]_vars
<1>1. ASSUME NEW t \in Tasks, SessionStep(t) \/ TimesOut(t) \/ ReadRaises(t) \/ RecordRaises(t)
      PROVE  Rated
  <2>1. CASE Count(t) BY <2>1, CountKeeps
  <2>2. CASE Read(t) BY <2>2, ReadKeeps
  <2>3. CASE Write(t) BY <2>3, WriteKeeps
  <2>4. CASE Register(t) \/ End(t) BY <2>4, LeavingKeeps
  <2>5. CASE Unrated(t) BY <2>5, UnratedKeeps
  <2> QED BY <1>1, <2>1, <2>2, <2>3, <2>4, <2>5, MostAreUnrated DEF SessionStep
<1>2. ASSUME NEW x \in Accounts, OperatorActs(x) PROVE Rated
  BY <1>2, ActsKeeps
<1>3. ASSUME NEW x \in Accounts, Reconnects(x) \/ CooldownPasses(x) PROVE Rated
  BY <1>3
  DEF Reconnects, Reconnect, CooldownPasses, CooldownEnds, sessionVars, RiskInv, Rated, Governs, Governed
<1>4. CASE WindowsSlide
  BY <1>4 DEF WindowsSlide, riskVars, sessionVars, RiskInv, Rated, Governs, Governed
<1>5. CASE WorkerDies
  <2>1. UNCHANGED <<standing, score, counter>>
    BY <1>5 DEF WorkerDies, riskVars
  <2>2. RiskInv'
    BY <1>5, <2>1, NothingAgrees DEF WorkerDies, RiskInv, Marks
  <2> QED BY <2>1, <2>2 DEF Rated, Governs, Governed
<1>6. CASE UNCHANGED vars
  BY <1>6 DEF vars, riskVars, sessionVars, RiskInv
<1> QED BY <1>1, <1>2, <1>3, <1>4, <1>5, <1>6 DEF Next, Rated

\* No step but the operator's own leaves an account that agreed with its score
\* healthier than it, for any number of sessions that write over each other
\* (database.py:1747-1790).
THEOREM RiskAlwaysGoverns == Spec => RiskGoverns
BY RiskStarts, RiskStep, PTL DEF Spec, RiskGoverns, Governs

-----------------------------------------------------------------------------
(* Types                                                                   *)

\* What the two invariants above leave of the types.
RestType ==
  /\ softBan \subseteq Accounts /\ connected \subseteq Accounts /\ cooling \subseteq Accounts
  /\ levels \in [Activity -> Nat]
  /\ burst \in Nat /\ hour \in Nat /\ today \in [Accounts -> Nat]
  /\ decisions \in Seq(BOOLEAN) /\ skippedLast \subseteq Accounts
  /\ tries \in [Tasks -> 0 .. MaxTries] /\ again \subseteq Tasks /\ posts \in [Tasks -> Nat]

LEMMA TypeParts == SlotInv /\ RiskInv /\ RestType => TypeOK
BY DEF SlotInv, SlotType, RiskInv, RestType, TypeOK, Places, Notes, Counters

\* What a step of a session does to the rest, when it counts nothing.
Quiet(t) ==
  /\ UNCHANGED <<softBan, cooling, levels, burst, hour, today, decisions, skippedLast>>
  /\ connected' \subseteq connected
  /\ UNCHANGED tries \/ (tries[t] < MaxTries /\ tries' = [tries EXCEPT ![t] = @ + 1])
  /\ again' \subseteq again \cup {t}
  /\ UNCHANGED posts \/ posts' = [posts EXCEPT ![t] = @ + 1]

LEMMA QuietKeeps == ASSUME RestType, NEW t \in Tasks, Quiet(t) PROVE RestType'
<1>1. tries' \in [Tasks -> 0 .. MaxTries]
  <2>1. CASE tries[t] < MaxTries /\ tries' = [tries EXCEPT ![t] = @ + 1]
    <3>1. MaxTries \in Nat /\ tries \in [Tasks -> 0 .. MaxTries]
      BY SessionAssumption DEF RestType
    <3>2. tries[t] + 1 \in 0 .. MaxTries
      BY <2>1, <3>1
    <3> QED BY <2>1, <3>1, <3>2
  <2> QED BY <2>1 DEF RestType, Quiet
<1>2. posts' \in [Tasks -> Nat]
  BY DEF RestType, Quiet
<1>3. connected' \subseteq Accounts /\ again' \subseteq Tasks
  BY DEF RestType, Quiet
<1> QED BY <1>1, <1>2, <1>3 DEF RestType, Quiet

LEMMA MostAreQuiet ==
  ASSUME NEW t \in Tasks,
         \/ Begin(t) \/ Enter(t) \/ ProxyFails(t) \/ CheckParallel(t) \/ CheckCooldown(t)
         \/ CheckSession(t) \/ ReadRaises(t) \/ BrowserFails(t) \/ LoggedOut(t)
         \/ Post(t) \/ Confirm(t) \/ RecordRaises(t) \/ Read(t) \/ Write(t)
         \/ Finish(t) \/ TimesOut(t)
  PROVE  Quiet(t)
<1> USE DEF Quiet, riskVars, coordVars, Fails, Records
<1>1. CASE Begin(t) BY <1>1 DEF Begin
<1>2. CASE Enter(t) BY <1>2 DEF Enter
<1>3. CASE ProxyFails(t) BY <1>3 DEF ProxyFails
<1>4. CASE CheckParallel(t) BY <1>4 DEF CheckParallel
<1>5. CASE CheckCooldown(t) BY <1>5 DEF CheckCooldown
<1>6. CASE CheckSession(t) BY <1>6 DEF CheckSession
<1>7. CASE ReadRaises(t) BY <1>7 DEF ReadRaises
<1>8. CASE BrowserFails(t) BY <1>8 DEF BrowserFails
<1>9. CASE LoggedOut(t) BY <1>9 DEF LoggedOut, Disconnect
<1>10. CASE Post(t) BY <1>10 DEF Post
<1>11. CASE Confirm(t) BY <1>11 DEF Confirm
<1>12. CASE RecordRaises(t) BY <1>12 DEF RecordRaises
<1>13. CASE Read(t) BY <1>13 DEF Read
<1>14. CASE Write(t) BY <1>14 DEF Write, WriteBack
<1>15. CASE Finish(t) BY <1>15 DEF Finish
<1>16. CASE TimesOut(t) BY <1>16 DEF TimesOut
<1> QED BY <1>1, <1>2, <1>3, <1>4, <1>5, <1>6, <1>7, <1>8, <1>9, <1>10, <1>11, <1>12,
           <1>13, <1>14, <1>15, <1>16

\* A quotient and its remainder.
LEMMA DivMod ==
  ASSUME NEW a \in Int, NEW b \in Int, b > 0
  PROVE  a = b * (a \div b) + (a % b)
OBVIOUS

LEMMA Division ==
  ASSUME NEW a \in Int, NEW b \in Int, a >= 0, b > 0
  PROVE  /\ a \div b \in Nat /\ a % b \in 0 .. b - 1
         /\ a = b * (a \div b) + (a % b)
<1>1. a \div b \in Int /\ a % b \in Int
  OBVIOUS
<1>2. a = b * (a \div b) + (a % b)
  BY DivMod
<1>3. a % b >= 0 /\ a % b < b
  OBVIOUS
<1> DEFINE q == a \div b
           r == a % b
<1>4. q >= 0
  <2> HIDE DEF q, r
  <2>1. SUFFICES ASSUME q <= -1 PROVE FALSE
    BY <1>1 DEF q
  <2>2. b * q <= b * (-1)
    BY <1>1, <2>1 DEF q
  <2>3. a = b * q + r /\ r < b /\ r \in Int /\ q \in Int
    BY <1>1, <1>2, <1>3 DEF q, r
  <2> QED BY <2>2, <2>3
<1> QED BY <1>1, <1>2, <1>3, <1>4

LEMMA ShareIsLess ==
  ASSUME NEW n \in Nat, NEW part \in Nat, NEW whole \in Nat \ {0}, part <= whole
  PROVE  Share(n, part, whole) \in 0 .. n
<1> DEFINE q == (n * part) \div whole
           r == (n * part) % whole
<1>1. n * part \in Nat /\ n * part <= n * whole
  OBVIOUS
<1>2. q \in Nat /\ r \in 0 .. whole - 1 /\ n * part = whole * q + r
  BY <1>1, Division
<1> HIDE DEF q, r
<1>3. q <= n
  <2>1. SUFFICES ASSUME q >= n + 1 PROVE FALSE
    BY <1>2
  <2>2. whole * q >= whole * (n + 1)
    BY <1>2, <2>1
  <2> QED BY <1>1, <1>2, <2>2
<1>4. r > 0 => q + 1 <= n
  <2>1. SUFFICES ASSUME r > 0, q >= n PROVE FALSE
    BY <1>2
  <2>2. whole * q >= whole * n
    BY <1>2, <2>1
  <2> QED BY <1>1, <1>2, <2>1, <2>2
<1>5. Share(n, part, whole) = IF 2 * r > whole \/ (2 * r = whole /\ q % 2 = 1) THEN q + 1 ELSE q
  BY DEF Share, q, r
<1> QED BY <1>2, <1>3, <1>4, <1>5

LEMMA HealedIsLess ==
  ASSUME levels \in [Activity -> Nat], active \in SUBSET Accounts
  PROVE  Healed \in [Activity -> Nat] /\ \A l \in Activity : Healed[l] <= levels[l]
<1> DEFINE jobs == Cardinality(active)
           scaled == [l \in Activity |-> Share(levels[l], jobs, Total(levels))]
           excess == Total(scaled) - jobs
<1>1. jobs \in Nat
  BY SessionAssumption, FS_Subset, FS_CardinalityType
<1>2. Total(levels) \in Nat
  BY DEF Total, Activity
<1>3. CASE Total(levels) <= jobs
  BY <1>3 DEF Healed
<1>4. CASE Total(levels) > jobs
  <2>1. \A l \in Activity : Share(levels[l], jobs, Total(levels)) \in 0 .. levels[l]
    BY <1>1, <1>2, <1>4, ShareIsLess
  <2>2. scaled \in [Activity -> Nat] /\ \A l \in Activity : scaled[l] <= levels[l]
    BY <2>1
  <2> HIDE DEF scaled
  <2>3. excess \in Int
    BY <1>1, <2>2 DEF Total, Activity
  <2>4. Healed = IF excess <= 0 THEN scaled
                 ELSE [scaled EXCEPT !["medium"] = IF @ > excess THEN @ - excess ELSE 0]
    BY <1>1, <1>2, <1>4 DEF Healed, scaled
  <2> HIDE DEF excess
  <2> QED BY <2>2, <2>3, <2>4 DEF Activity
<1> QED BY <1>1, <1>2, <1>3, <1>4

\* A session that ends takes its level, and its upload is counted.
LEMMA EndsType ==
  ASSUME RestType, NEW x \in Accounts, NEW p, NEW l, NEW uploads \in Nat, NEW times \in Nat,
         RegisterEnds(x, p, l, uploads, times)
  PROVE  /\ levels' \in [Activity -> Nat]
         /\ burst' \in Nat /\ hour' \in Nat /\ today' \in [Accounts -> Nat]
         /\ UNCHANGED <<decisions, skippedLast>>
<1>1. levels' \in [Activity -> Nat]
  <2>1. levels' = [levels EXCEPT ![l] = IF @ > times THEN @ - times ELSE 0]
    BY DEF RegisterEnds, CountsDown
  <2>2. \A a \in Activity : (IF levels[a] > times THEN levels[a] - times ELSE 0) \in Nat
    BY DEF RestType
  <2> QED BY <2>1, <2>2 DEF RestType
<1>2. burst' \in Nat /\ hour' \in Nat
  BY DEF RegisterEnds, CountsUploads, RestType
<1>3. today' \in [Accounts -> Nat]
  BY DEF RegisterEnds, CountsUploads, RestType
<1> QED BY <1>1, <1>2, <1>3 DEF RegisterEnds

LEMMA RestStep == ASSUME SlotInv, RiskInv, RestType, [Next]_vars PROVE RestType'
<1>1. ASSUME NEW t \in Tasks, SessionStep(t) \/ TimesOut(t) \/ ReadRaises(t) \/ RecordRaises(t)
      PROVE  RestType'
  <2>0. Acct(t) \in Accounts
    BY SessionAssumption DEF Acct
  <2>1. CASE Quiet(t) BY <2>1, QuietKeeps
  <2>2. CASE PlaceSession(t)
    <3>1. PICK l \in Activity : Place(l)
      BY <2>2 DEF PlaceSession, Adjusted, Activity
    <3>2. Healed \in [Activity -> Nat]
      BY HealedIsLess DEF RestType, SlotInv, SlotType
    <3>3. levels' \in [Activity -> Nat]
      <4>1. levels' = [Healed EXCEPT ![l] = @ + 1]
        BY <3>1 DEF Place
      <4> HIDE DEF Healed
      <4> QED BY <3>2, <4>1
    <3>4. again' \subseteq again \cup {t}
      BY <2>2 DEF PlaceSession, Fails
    <3> QED BY <2>2, <3>1, <3>3, <3>4 DEF PlaceSession, Place, riskVars, RestType
  <2>3. CASE StartJob(t)
    BY <2>3 DEF StartJob, RegisterStart, riskVars, RestType
  <2>4. CASE Decide(t)
    <3>1. PICK ruling : RecordSkip(Acct(t), ruling)
      BY <2>4 DEF Decide
    <3>2. decisions' \in Seq(BOOLEAN)
      BY <3>1 DEF RecordSkip, RestType
    <3> QED BY <2>0, <2>4, <3>1, <3>2 DEF Decide, RecordSkip, riskVars, RestType
  <2>5. CASE Count(t)
    BY <2>0, <2>5 DEF Count, CountMark, coordVars, RestType
  <2>6. CASE Register(t)
    BY <2>0, <2>6, EndsType DEF Register, riskVars, RestType
  <2>7. CASE End(t)
    BY <2>0, <2>7, EndsType DEF End, riskVars, coordVars, RestType
  <2> QED BY <1>1, <2>1, <2>2, <2>3, <2>4, <2>5, <2>6, <2>7, MostAreQuiet DEF SessionStep
<1>2. ASSUME NEW x \in Accounts, OperatorActs(x) \/ Reconnects(x) \/ CooldownPasses(x)
      PROVE  RestType'
  BY <1>2
  DEF OperatorActs, SetStanding, MarkSoftBan, ClearSoftBan, Reconnects, Reconnect,
      CooldownPasses, CooldownEnds, coordVars, sessionVars, RestType
<1>3. CASE WindowsSlide
  <2>1. UNCHANGED <<riskVars, sessionVars>>
    BY <1>3 DEF WindowsSlide
  <2>2. CASE BurstSlides \/ HourSlides
    BY <2>1, <2>2 DEF BurstSlides, HourSlides, riskVars, sessionVars, RestType
  <2>3. CASE SkipWindowSlides
    <3>1. Tail(decisions) \in Seq(BOOLEAN)
      BY <2>3 DEF SkipWindowSlides, RestType
    <3> QED BY <2>1, <2>3, <3>1 DEF SkipWindowSlides, riskVars, sessionVars, RestType
  <2>4. CASE Midnight
    BY <2>1, <2>4 DEF Midnight, riskVars, sessionVars, RestType
  <2> QED BY <1>3, <2>2, <2>3, <2>4 DEF WindowsSlide
<1>4. CASE WorkerDies
  BY <1>4 DEF WorkerDies, CoordReset, riskVars, RestType
<1>5. CASE UNCHANGED vars
  BY <1>5 DEF vars, riskVars, coordVars, sessionVars, RestType
<1> QED BY <1>1, <1>2, <1>3, <1>4, <1>5 DEF Next

LEMMA RestStarts == Init => RestType
BY SessionAssumption DEF Init, RiskInit, CoordInit, RestType, Activity

\* Every state of the publisher is well-typed: in particular, a risk score is
\* between 0 and 100 and the rescaled activity counts are no less than 0.
THEOREM SessionTypes == Spec => []TypeOK
<1>1. Init => SlotInv
  BY DEF Init, CoordInit, SlotInv, SlotType, WaitingIsPlaced, SlotsReleased, Places, Activity
<1>2. SlotInv /\ RiskInv /\ RestType /\ [Next]_vars => RestType'
  BY RestStep
<1>3. RiskInv /\ [Next]_vars => RiskInv'
  BY RiskStep
<1> QED BY <1>1, <1>2, <1>3, RiskStarts, RestStarts, SlotStep, TypeParts, PTL DEF Spec

-----------------------------------------------------------------------------
(* The activity counts never run ahead of the sessions                     *)

\* Where a session has no level.
Unplaced == {"idle", "entering", "placing", "returned", "done", "lost"}

\* The sessions that were given this level.
Given(l) == {t \in Tasks : level[t] = l}

\* A session is placed once only: what it is about to be given is not counted
\* for it yet.
CountInv ==
  /\ levels \in [Activity -> Nat]
  /\ \A t \in Tasks : at[t] \in Unplaced => level[t] = "none"
  /\ NeverOvercounts

LEMMA GivenIsFinite == \A l : IsFiniteSet(Given(l)) /\ Cardinality(Given(l)) \in Nat
<1> SUFFICES ASSUME NEW l PROVE IsFiniteSet(Given(l)) /\ Cardinality(Given(l)) \in Nat
  OBVIOUS
<1>1. Given(l) \subseteq Tasks /\ IsFiniteSet(Tasks)
  BY SessionAssumption DEF Given
<1> QED BY <1>1, FS_Subset, FS_CardinalityType

\* A step that leaves the levels and takes no session back to where it has none.
Strides(t) ==
  /\ UNCHANGED <<level, levels>>
  /\ \E place \in Places : /\ place \in Unplaced => at[t] \in Unplaced
                           /\ at' = [at EXCEPT ![t] = place]

LEMMA StridesKeeps ==
  ASSUME SlotInv, CountInv, NEW t \in Tasks, Strides(t) PROVE CountInv'
BY DEF SlotInv, SlotType, CountInv, Strides, NeverOvercounts

LEMMA MostStride ==
  ASSUME SlotInv, NEW t \in Tasks,
         \/ Begin(t) \/ Enter(t) \/ ProxyFails(t) \/ StartJob(t) \/ CheckParallel(t)
         \/ CheckCooldown(t) \/ CheckSession(t) \/ ReadRaises(t) \/ BrowserFails(t)
         \/ LoggedOut(t) \/ Decide(t) \/ Post(t) \/ Confirm(t) \/ RecordRaises(t)
         \/ Count(t) \/ Read(t) \/ Write(t) \/ Finish(t) \/ TimesOut(t)
  PROVE  Strides(t)
<1> USE DEF Strides, Unplaced, Places, Busy, Working, Recording, Goes, Fails, Records, coordVars
<1>1. CASE Begin(t)
  <2>1. at' = at => at' = [at EXCEPT ![t] = at[t]] /\ at[t] \in Places
    BY DEF SlotInv, SlotType
  <2> QED BY <1>1, <2>1 DEF Begin
<1>2. CASE Enter(t) BY <1>2 DEF Enter
<1>3. CASE ProxyFails(t) BY <1>3 DEF ProxyFails
<1>4. CASE StartJob(t) BY <1>4 DEF StartJob, RegisterStart
<1>5. CASE CheckParallel(t) BY <1>5 DEF CheckParallel
<1>6. CASE CheckCooldown(t) BY <1>6 DEF CheckCooldown
<1>7. CASE CheckSession(t) BY <1>7 DEF CheckSession
<1>8. CASE ReadRaises(t) BY <1>8 DEF ReadRaises
<1>9. CASE BrowserFails(t) BY <1>9 DEF BrowserFails
<1>10. CASE LoggedOut(t) BY <1>10 DEF LoggedOut
<1>11. CASE Decide(t) BY <1>11 DEF Decide, RecordSkip
<1>12. CASE Post(t) BY <1>12 DEF Post
<1>13. CASE Confirm(t) BY <1>13 DEF Confirm
<1>14. CASE RecordRaises(t) BY <1>14 DEF RecordRaises
<1>15. CASE Count(t) BY <1>15 DEF Count
<1>16. CASE Read(t) BY <1>16 DEF Read
<1>17. CASE Write(t) BY <1>17 DEF Write
<1>18. CASE Finish(t) BY <1>18 DEF Finish
<1>19. CASE TimesOut(t) BY <1>19 DEF TimesOut
<1> QED BY <1>1, <1>2, <1>3, <1>4, <1>5, <1>6, <1>7, <1>8, <1>9, <1>10, <1>11, <1>12,
           <1>13, <1>14, <1>15, <1>16, <1>17, <1>18, <1>19

\* adjust_personality may rescale the counts, never upwards, and then counts
\* the session it has placed.
LEMMA PlaceCounts ==
  ASSUME SlotInv, CountInv, NEW t \in Tasks, PlaceSession(t) PROVE CountInv'
<1>1. PICK l \in Activity : Place(l) /\ level' = [level EXCEPT ![t] = l]
  BY DEF PlaceSession, Adjusted, Activity
<1>2. Healed \in [Activity -> Nat] /\ \A k \in Activity : Healed[k] <= levels[k]
  BY HealedIsLess DEF CountInv, SlotInv, SlotType
<1>3. levels' = [Healed EXCEPT ![l] = @ + 1]
  BY <1>1 DEF Place
<1>4. levels' \in [Activity -> Nat]
  BY <1>2, <1>3
<1>5. level[t] = "none" /\ \E place : at' = [at EXCEPT ![t] = place] /\ place \notin Unplaced
  BY DEF PlaceSession, CountInv, Unplaced, Goes, Fails
<1>6. level \in [Tasks -> Activity \cup {"none"}] /\ at \in [Tasks -> Places]
  BY DEF SlotInv, SlotType
<1>7. ASSUME NEW k \in Activity PROVE levels'[k] <= Cardinality(Given(k)')
  <2>1. levels[k] <= Cardinality(Given(k))
    BY DEF CountInv, NeverOvercounts, Given
  <2>2. levels[k] \in Nat /\ Healed[k] \in Nat /\ Healed[k] <= levels[k] /\ Cardinality(Given(k)) \in Nat
    BY <1>2, GivenIsFinite DEF CountInv
  <2>3. CASE k = l
    <3>1. Given(k)' = Given(k) \cup {t} /\ t \notin Given(k)
      BY <1>1, <1>5, <1>6, <2>3 DEF Given, Activity
    <3>2. Cardinality(Given(k)') = Cardinality(Given(k)) + 1
      BY <3>1, GivenIsFinite, FS_AddElement
    <3>3. levels'[k] = Healed[k] + 1
      BY <1>2, <1>3, <2>3
    <3> QED BY <2>1, <2>2, <3>2, <3>3
  <2>4. CASE k # l
    <3>1. Given(k)' = Given(k)
      BY <1>1, <1>5, <1>6, <2>4 DEF Given, Activity
    <3>2. levels'[k] = Healed[k]
      BY <1>2, <1>3, <2>4
    <3> QED BY <2>1, <2>2, <3>1, <3>2
  <2> QED BY <2>3, <2>4
<1>8. \A u \in Tasks : at'[u] \in Unplaced => level'[u] = "none"
  BY <1>1, <1>5, <1>6 DEF CountInv
<1> QED BY <1>4, <1>7, <1>8 DEF CountInv, NeverOvercounts, Given

\* However often its job is ended, a session that leaves takes its level off
\* at least once.
LEMMA EndCounts ==
  ASSUME SlotInv, CountInv, NEW t \in Tasks, Leaves(t), NEW times \in Nat \ {0},
         \/ CountsDown(level[t], times)
         \/ level[t] = "none" /\ UNCHANGED levels
  PROVE  CountInv'
<1> DEFINE l == level[t]
<1>1. at' = [at EXCEPT ![t] = "returned"] /\ level' = [level EXCEPT ![t] = "none"]
  BY DEF Leaves, Goes
<1>2. level \in [Tasks -> Activity \cup {"none"}] /\ at \in [Tasks -> Places]
  BY DEF SlotInv, SlotType
<1>3. \A u \in Tasks : at'[u] \in Unplaced => level'[u] = "none"
  BY <1>1, <1>2 DEF CountInv
<1>4. ASSUME NEW k \in Activity PROVE levels'[k] \in Nat /\ levels'[k] <= Cardinality(Given(k)')
  <2>1. levels[k] <= Cardinality(Given(k))
    BY DEF CountInv, NeverOvercounts, Given
  <2>2. levels[k] \in Nat /\ Cardinality(Given(k)) \in Nat
    BY GivenIsFinite DEF CountInv
  <2>3. CASE k = l
    <3>1. levels' = [levels EXCEPT ![k] = IF @ > times THEN @ - times ELSE 0]
      BY <2>3 DEF CountsDown, Activity
    <3>2. levels'[k] = IF levels[k] > times THEN levels[k] - times ELSE 0
      BY <3>1 DEF CountInv
    <3>3. Given(k)' = Given(k) \ {t} /\ t \in Given(k)
      BY <1>1, <1>2, <2>3 DEF Given, Activity
    <3>4. Cardinality(Given(k)') = Cardinality(Given(k)) - 1
      BY <3>3, GivenIsFinite, FS_RemoveElement
    <3>5. Cardinality(Given(k)') \in Nat
      BY <3>3, GivenIsFinite, FS_RemoveElement, FS_CardinalityType
    <3> QED BY <2>1, <2>2, <3>2, <3>4, <3>5
  <2>4. CASE k # l
    <3>1. levels'[k] = levels[k]
      BY <2>4 DEF CountsDown, CountInv
    <3>2. Given(k)' = Given(k)
      BY <1>1, <1>2, <2>4 DEF Given, Activity
    <3> QED BY <2>1, <2>2, <3>1, <3>2
  <2> QED BY <2>3, <2>4
<1>5. levels' \in [Activity -> Nat]
  <2>1. DOMAIN levels' = Activity /\ levels' = [k \in Activity |-> levels'[k]]
    BY DEF CountsDown, CountInv
  <2> QED BY <1>4, <2>1
<1> QED BY <1>3, <1>4, <1>5 DEF CountInv, NeverOvercounts, Given

\* Every step keeps the counts at or below the sessions.
LEMMA CountStep == ASSUME SlotInv, CountInv, [Next]_vars PROVE CountInv'
<1>1. ASSUME NEW t \in Tasks, SessionStep(t) \/ TimesOut(t) \/ ReadRaises(t) \/ RecordRaises(t)
      PROVE  CountInv'
  <2>1. CASE PlaceSession(t) BY <2>1, PlaceCounts
  <2>2. CASE Register(t)
    BY <2>2, EndCounts DEF Register, RegisterEnds
  <2>3. CASE End(t)
    BY <2>3, EndCounts DEF End, RegisterEnds, coordVars
  <2>4. CASE Strides(t) BY <2>4, StridesKeeps
  <2> QED BY <1>1, <2>1, <2>2, <2>3, <2>4, MostStride DEF SessionStep
<1>2. CASE UNCHANGED <<at, level, levels>>
  BY <1>2 DEF CountInv, NeverOvercounts
<1>3. ASSUME NEW x \in Accounts, OperatorActs(x) \/ Reconnects(x) \/ CooldownPasses(x)
      PROVE  CountInv'
  BY <1>2, <1>3 DEF OperatorActs, Reconnects, CooldownPasses, coordVars, sessionVars
<1>4. CASE WindowsSlide
  BY <1>2, <1>4 DEF WindowsSlide, BurstSlides, HourSlides, SkipWindowSlides, Midnight, sessionVars
<1>5. CASE WorkerDies
  <2>1. levels' = [l \in Activity |-> 0] /\ level' = [u \in Tasks |-> "none"]
    BY <1>5 DEF WorkerDies, CoordReset
  <2>2. \A l : Cardinality(Given(l)') \in Nat
    <3>1. \A l : Given(l)' \subseteq Tasks
      BY DEF Given
    <3> QED BY <3>1, SessionAssumption, FS_Subset, FS_CardinalityType
  <2>3. NeverOvercounts'
    <3>1. \A l \in Activity : levels'[l] = 0 /\ 0 <= Cardinality(Given(l)')
      BY <2>1, <2>2
    <3> QED BY <3>1 DEF NeverOvercounts, Given
  <2>4. levels' \in [Activity -> Nat] /\ \A u \in Tasks : level'[u] = "none"
    BY <2>1
  <2> QED BY <2>3, <2>4 DEF CountInv
<1>6. CASE UNCHANGED vars
  BY <1>2, <1>6 DEF vars, coordVars, sessionVars
<1> QED BY <1>1, <1>3, <1>4, <1>5, <1>6 DEF Next

\* _activity_counts never counts more sessions of a level than are placed at
\* it, for any number of sessions, however the rescaling rounds and however
\* often a session's end is registered: the counts can lag, and never lead.
THEOREM CountsNeverLead == Spec => []NeverOvercounts
<1>1. Init => SlotInv
  BY DEF Init, CoordInit, SlotInv, SlotType, WaitingIsPlaced, SlotsReleased, Places, Activity
<1>2. Init => CountInv
  <2> SUFFICES ASSUME Init PROVE CountInv
    OBVIOUS
  <2>1. levels = [l \in Activity |-> 0] /\ level = [t \in Tasks |-> "none"]
    BY DEF Init, CoordInit
  <2> QED BY <2>1, GivenIsFinite DEF CountInv, NeverOvercounts, Given
<1>3. SlotInv /\ CountInv /\ [Next]_vars => CountInv'
  BY CountStep
<1>4. CountInv => NeverOvercounts
  BY DEF CountInv
<1> QED BY <1>1, <1>2, <1>3, <1>4, SlotStep, PTL DEF Spec

-----------------------------------------------------------------------------
(* Every upload the coordinator records took place                         *)

\* A session that has uploaded and will still register its end as an upload.
Owes(t) ==
  \/ at[t] \in {"posted", "registering"}
  \/ at[t] \in Recording /\ mark[t] = "success"

\* The uploads of a task that are registered, or never will be.
Settled == [t \in Tasks |-> IF Owes(t) THEN posts[t] - 1 ELSE posts[t]]

TasksOf(x) == {t \in Tasks : Acct(t) = x}

\* No upload is registered that a session still owes: what is recorded is at
\* most what is settled.
UploadInv ==
  /\ \A t \in Tasks : Settled[t] >= 0
  /\ \A x \in Accounts : today[x] <= SumOver(Settled, TasksOf(x))
  /\ burst <= hour
  /\ hour <= SumOver(Settled, Tasks)

\* What the proof needs of the types.
UploadTypes ==
  /\ posts \in [Tasks -> Nat] /\ at \in [Tasks -> Places] /\ mark \in [Tasks -> Marks]
  /\ burst \in Nat /\ hour \in Nat /\ today \in [Accounts -> Nat]

LEMMA UploadTyped == TypeOK => UploadTypes
BY DEF TypeOK, UploadTypes, Places

LEMMA TasksOfIsFinite ==
  IsFiniteSet(Tasks) /\ \A x : TasksOf(x) \in SUBSET Tasks /\ IsFiniteSet(TasksOf(x))
BY SessionAssumption, FS_Subset DEF TasksOf

LEMMA SettledType == UploadTypes => Settled \in [Tasks -> Int]
BY DEF UploadTypes, Settled

\* More may be settled by a step, and less recorded.
LEMMA SettlingKeeps ==
  ASSUME UploadInv, UploadTypes, UploadTypes', \A t \in Tasks : Settled[t] <= Settled'[t],
         \A x \in Accounts : today'[x] <= today[x], burst' <= hour', hour' <= hour
  PROVE  UploadInv'
<1>1. Settled \in [Tasks -> Int] /\ Settled' \in [Tasks -> Int]
  BY DEF UploadTypes, Settled
<1>2. \A t \in Tasks : Settled'[t] >= 0
  BY <1>1 DEF UploadInv
<1>3. ASSUME NEW x \in Accounts PROVE today'[x] <= SumOver(Settled', TasksOf(x))
  <2>1. SumOver(Settled, TasksOf(x)) <= SumOver(Settled', TasksOf(x))
    BY <1>1, TasksOfIsFinite, SumMonotone
  <2>2. SumOver(Settled, TasksOf(x)) \in Int /\ SumOver(Settled', TasksOf(x)) \in Int
    BY <1>1, TasksOfIsFinite, SumType
  <2>3. today[x] <= SumOver(Settled, TasksOf(x)) /\ today[x] \in Nat /\ today'[x] \in Nat
    BY DEF UploadInv, UploadTypes
  <2> QED BY <2>1, <2>2, <2>3
<1>4. hour' <= SumOver(Settled', Tasks)
  <2>1. SumOver(Settled, Tasks) <= SumOver(Settled', Tasks)
    BY <1>1, TasksOfIsFinite, SumMonotone
  <2>2. SumOver(Settled, Tasks) \in Int /\ SumOver(Settled', Tasks) \in Int
    BY <1>1, TasksOfIsFinite, SumType
  <2>3. hour <= SumOver(Settled, Tasks) /\ hour \in Nat /\ hour' \in Nat
    BY DEF UploadInv, UploadTypes
  <2> QED BY <2>1, <2>2, <2>3
<1> QED BY <1>2, <1>3, <1>4 DEF UploadInv, TasksOf, Acct

\* A step of a session that records nothing and comes to owe nothing new.
Sheds(t) ==
  /\ UNCHANGED <<posts, burst, hour, today>>
  /\ Owes(t)' => Owes(t)
  /\ \A u \in Tasks \ {t} : at'[u] = at[u] /\ mark'[u] = mark[u]

LEMMA ShedsKeeps ==
  ASSUME UploadInv, UploadTypes, UploadTypes', NEW t \in Tasks, Sheds(t) PROVE UploadInv'
<1>1. ASSUME NEW u \in Tasks PROVE Settled[u] <= Settled'[u]
  <2>1. Owes(u)' => Owes(u)
    BY DEF Sheds, Owes
  <2>2. posts[u] \in Nat /\ posts' = posts
    BY DEF UploadTypes, Sheds
  <2>3. Settled'[u] = IF Owes(u)' THEN posts[u] - 1 ELSE posts[u]
    BY <2>2 DEF Settled
  <2> QED BY <2>1, <2>2, <2>3 DEF Settled
<1>2. /\ burst' <= hour' /\ hour' <= hour
      /\ \A x \in Accounts : today'[x] <= today[x]
  BY DEF Sheds, UploadTypes, UploadInv
<1> QED BY <1>1, <1>2, SettlingKeeps

LEMMA MostShed ==
  ASSUME UploadTypes, NEW t \in Tasks,
         \/ Begin(t) \/ Enter(t) \/ ProxyFails(t) \/ PlaceSession(t) \/ StartJob(t)
         \/ CheckParallel(t) \/ CheckCooldown(t) \/ CheckSession(t) \/ ReadRaises(t)
         \/ BrowserFails(t) \/ LoggedOut(t) \/ Decide(t) \/ Confirm(t) \/ RecordRaises(t)
         \/ Count(t) \/ Read(t) \/ Write(t) \/ Finish(t) \/ TimesOut(t)
  PROVE  Sheds(t)
<1> USE DEF Sheds, UploadTypes, Owes, Recording, Goes, Fails, Records, coordVars
<1>1. CASE Begin(t) BY <1>1 DEF Begin
<1>2. CASE Enter(t) BY <1>2 DEF Enter
<1>3. CASE ProxyFails(t) BY <1>3 DEF ProxyFails
<1>4. CASE PlaceSession(t) BY <1>4 DEF PlaceSession, Place
<1>5. CASE StartJob(t) BY <1>5 DEF StartJob, RegisterStart
<1>6. CASE CheckParallel(t) BY <1>6 DEF CheckParallel
<1>7. CASE CheckCooldown(t) BY <1>7 DEF CheckCooldown
<1>8. CASE CheckSession(t) BY <1>8 DEF CheckSession
<1>9. CASE ReadRaises(t) BY <1>9 DEF ReadRaises
<1>10. CASE BrowserFails(t) BY <1>10 DEF BrowserFails
<1>11. CASE LoggedOut(t) BY <1>11 DEF LoggedOut
<1>12. CASE Decide(t) BY <1>12 DEF Decide, RecordSkip
<1>13. CASE Confirm(t) BY <1>13 DEF Confirm
<1>14. CASE RecordRaises(t) BY <1>14 DEF RecordRaises
<1>15. CASE Count(t) BY <1>15 DEF Count
<1>16. CASE Read(t) BY <1>16 DEF Read
<1>17. CASE Write(t) BY <1>17 DEF Write
<1>18. CASE Finish(t) BY <1>18 DEF Finish
<1>19. CASE TimesOut(t) BY <1>19 DEF TimesOut
<1> QED BY <1>1, <1>2, <1>3, <1>4, <1>5, <1>6, <1>7, <1>8, <1>9, <1>10, <1>11, <1>12,
           <1>13, <1>14, <1>15, <1>16, <1>17, <1>18, <1>19

\* The click on publish: one upload more, which is owed.
LEMMA PostKeepsUploads ==
  ASSUME UploadInv, UploadTypes, UploadTypes', NEW t \in Tasks, Post(t) PROVE UploadInv'
<1>1. at' = [at EXCEPT ![t] = "posted"] /\ at[t] = "uploading" /\ posts' = [posts EXCEPT ![t] = @ + 1]
  BY DEF Post, Goes
<1>2. UNCHANGED <<mark, burst, hour, today>>
  BY DEF Post, coordVars
<1>3. ASSUME NEW u \in Tasks PROVE Settled[u] <= Settled'[u]
  <2>1. posts[u] \in Nat /\ posts'[u] \in Nat
    BY DEF UploadTypes
  <2>2. CASE u = t
    <3>1. ~Owes(t) /\ Owes(t)' /\ posts'[t] = posts[t] + 1
      BY <1>1 DEF Owes, Recording, UploadTypes
    <3> QED BY <2>1, <2>2, <3>1 DEF Settled
  <2>3. CASE u # t
    <3>1. (Owes(u)' <=> Owes(u)) /\ posts'[u] = posts[u]
      BY <1>1, <1>2, <2>3 DEF Owes, UploadTypes
    <3> QED BY <2>1, <3>1 DEF Settled
  <2> QED BY <2>2, <2>3
<1>4. /\ burst' <= hour' /\ hour' <= hour
      /\ \A x \in Accounts : today'[x] <= today[x]
  BY <1>2 DEF UploadTypes, UploadInv
<1> QED BY <1>3, <1>4, SettlingKeeps

\* The end of a session that uploaded: what it owed is recorded, once.
LEMMA RegisterKeepsUploads ==
  ASSUME UploadInv, UploadTypes, NEW t \in Tasks, Register(t) PROVE UploadInv'
<1> DEFINE x == Acct(t)
<1>1. at' = [at EXCEPT ![t] = "returned"] /\ mark' = [mark EXCEPT ![t] = "failure"]
  BY DEF Register, Leaves, Goes
<1>2. /\ burst' = burst + 1 /\ hour' = hour + 1
      /\ today' = [today EXCEPT ![x] = @ + 1] /\ posts' = posts
  BY DEF Register, RegisterEnds, CountsUploads
<1>3. Owes(t) /\ ~Owes(t)' /\ \A u \in Tasks \ {t} : Owes(u)' <=> Owes(u)
  BY <1>1 DEF Register, Owes, Recording, UploadTypes
<1>4. Settled \in [Tasks -> Int] /\ Settled[t] + 1 \in Int /\ Settled[t] >= 0
  BY SettledType DEF UploadInv
<1>5. Settled' = [Settled EXCEPT ![t] = Settled[t] + 1]
  <2>1. \A u \in Tasks : Settled'[u] = IF u = t THEN Settled[t] + 1 ELSE Settled[u]
    BY <1>2, <1>3 DEF Settled, UploadTypes
  <2>2. DOMAIN Settled' = Tasks /\ Settled' = [u \in Tasks |-> Settled'[u]]
    BY DEF Settled
  <2> HIDE DEF Settled
  <2> QED BY <1>4, <2>1, <2>2
<1>6. \A u \in Tasks : Settled'[u] >= 0
  BY <1>4, <1>5 DEF UploadInv
<1>10. ASSUME NEW S \in SUBSET Tasks, IsFiniteSet(S)
       PROVE  SumOver(Settled', S) = IF t \in S THEN SumOver(Settled, S) - Settled[t] + (Settled[t] + 1)
                                     ELSE SumOver(Settled, S)
  <2>1. Settled \in [Tasks -> Int] /\ Settled' \in [Tasks -> Int]
    BY <1>4, <1>5
  <2>2. \A u \in Tasks \ {t} : Settled'[u] = Settled[u]
    BY <1>4, <1>5
  <2>3. Settled'[t] = Settled[t] + 1
    BY <1>4, <1>5
  <2>4. SumOver(Settled', S) = IF t \in S THEN SumOver(Settled, S) - Settled[t] + Settled'[t]
                               ELSE SumOver(Settled, S)
    BY <1>10, <2>1, <2>2, SumChanges
  <2> QED BY <2>3, <2>4
<1>7. ASSUME NEW y \in Accounts PROVE today'[y] <= SumOver(Settled', TasksOf(y))
  <2>1. SumOver(Settled', TasksOf(y))
          = IF t \in TasksOf(y) THEN SumOver(Settled, TasksOf(y)) - Settled[t] + (Settled[t] + 1)
            ELSE SumOver(Settled, TasksOf(y))
    BY <1>10, TasksOfIsFinite
  <2>2. SumOver(Settled, TasksOf(y)) \in Int /\ today[y] \in Nat /\ Settled[t] \in Int
        /\ today[y] <= SumOver(Settled, TasksOf(y))
    BY <1>4, TasksOfIsFinite, SumType DEF UploadInv, UploadTypes
  <2>3. (t \in TasksOf(y) <=> x = y) /\ today'[y] = IF x = y THEN today[y] + 1 ELSE today[y]
    BY <1>2 DEF TasksOf, UploadTypes
  <2> DEFINE sum == SumOver(Settled, TasksOf(y))
             new == SumOver(Settled', TasksOf(y))
             own == Settled[t]
  <2>4. /\ new = IF x = y THEN sum - own + (own + 1) ELSE sum
        /\ sum \in Int /\ own \in Int /\ today[y] \in Nat /\ today[y] <= sum
    BY <2>1, <2>2, <2>3
  <2> HIDE DEF sum, new, own, x
  <2>5. today'[y] <= new
    BY <2>3, <2>4
  <2> QED BY <2>5 DEF new
<1>8. hour' <= SumOver(Settled', Tasks)
  <2>1. SumOver(Settled', Tasks) = SumOver(Settled, Tasks) - Settled[t] + (Settled[t] + 1)
    BY <1>10, TasksOfIsFinite
  <2>2. SumOver(Settled, Tasks) \in Int /\ hour \in Nat /\ Settled[t] \in Int
        /\ hour <= SumOver(Settled, Tasks)
    BY <1>4, TasksOfIsFinite, SumType DEF UploadInv, UploadTypes
  <2> QED BY <1>2, <2>1, <2>2
<1>9. burst' <= hour'
  BY <1>2 DEF UploadInv, UploadTypes
<1> QED BY <1>6, <1>7, <1>8, <1>9 DEF UploadInv, TasksOf, Acct

LEMMA UploadStep ==
  ASSUME UploadInv, TypeOK, TypeOK', [Next]_vars PROVE UploadInv'
<1>0. UploadTypes /\ UploadTypes'
  BY UploadTyped DEF TypeOK, UploadTypes, Places
<1>1. ASSUME NEW t \in Tasks, SessionStep(t) \/ TimesOut(t) \/ ReadRaises(t) \/ RecordRaises(t)
      PROVE  UploadInv'
  <2>1. CASE Post(t) BY <1>0, <2>1, PostKeepsUploads
  <2>2. CASE Register(t) BY <1>0, <2>2, RegisterKeepsUploads
  <2>3. CASE Sheds(t) BY <1>0, <2>3, ShedsKeeps
  <2>4. CASE End(t)
    <3>1. burst' = burst /\ hour' = hour /\ today' = today
      BY <1>0, <2>4 DEF End, coordVars, RegisterEnds, CountsUploads, UploadTypes
    <3>2. Sheds(t)
      BY <1>0, <2>4, <3>1 DEF End, Leaves, Goes, Sheds, Owes, Recording, UploadTypes
    <3> QED BY <1>0, <3>2, ShedsKeeps
  <2> QED BY <1>0, <1>1, <2>1, <2>2, <2>3, <2>4, MostShed DEF SessionStep
<1>2. CASE UNCHANGED <<at, mark, posts>> /\ burst' <= hour' /\ hour' <= hour
           /\ \A x \in Accounts : today'[x] <= today[x]
  <2>1. \A t \in Tasks : Settled[t] <= Settled'[t]
    BY <1>0, <1>2, SettledType DEF Settled, Owes
  <2> QED BY <1>0, <1>2, <2>1, SettlingKeeps
<1>3. ASSUME UNCHANGED <<at, mark, posts, burst, hour, today>> PROVE UploadInv'
  BY <1>0, <1>2, <1>3 DEF UploadTypes, UploadInv
<1>4. ASSUME NEW x \in Accounts, OperatorActs(x) \/ Reconnects(x) \/ CooldownPasses(x)
      PROVE  UploadInv'
  BY <1>3, <1>4 DEF OperatorActs, Reconnects, CooldownPasses, coordVars, sessionVars
<1>5. CASE WindowsSlide
  BY <1>0, <1>2, <1>5
  DEF WindowsSlide, BurstSlides, HourSlides, SkipWindowSlides, Midnight, sessionVars,
      UploadInv, UploadTypes
<1>6. CASE WorkerDies
  <2>1. /\ at' = [t \in Tasks |-> IF at[t] \in Busy THEN "lost" ELSE at[t]]
        /\ burst' = 0 /\ hour' = 0 /\ today' = [x \in Accounts |-> 0] /\ posts' = posts
    BY <1>6 DEF WorkerDies, CoordReset
  <2>2. \A t \in Tasks : ~Owes(t)'
    BY <2>1 DEF Owes, Recording, Busy, Working
  <2>3. \A t \in Tasks : Settled[t] <= Settled'[t]
    BY <1>0, <2>1, <2>2 DEF Settled, UploadTypes
  <2>4. burst' <= hour' /\ hour' <= hour /\ \A x \in Accounts : today'[x] <= today[x]
    BY <1>0, <2>1 DEF UploadTypes
  <2> QED BY <1>0, <2>3, <2>4, SettlingKeeps
<1>7. CASE UNCHANGED vars
  BY <1>3, <1>7 DEF vars, coordVars, sessionVars
<1> QED BY <1>1, <1>4, <1>5, <1>6, <1>7 DEF Next

\* The invariant says what the run's property says.
LEMMA UploadsAreOwedOrPosted == UploadInv /\ TypeOK => RecordedUploadsHappened
<1> SUFFICES ASSUME UploadInv, TypeOK PROVE RecordedUploadsHappened
  OBVIOUS
<1>1. Settled \in [Tasks -> Int] /\ posts \in [Tasks -> Nat]
  BY UploadTyped, SettledType DEF TypeOK
<1>2. \A t \in Tasks : Settled[t] \in Int /\ posts[t] \in Int /\ Settled[t] <= posts[t]
  BY <1>1 DEF Settled
<1>3. ASSUME NEW x \in Accounts PROVE today[x] <= PostsOf(x)
  <2>1. SumOver(Settled, TasksOf(x)) <= SumOver(posts, TasksOf(x))
    BY <1>2, TasksOfIsFinite, SumMonotone
  <2>2. SumOver(Settled, TasksOf(x)) \in Int /\ SumOver(posts, TasksOf(x)) \in Int
    BY <1>2, TasksOfIsFinite, SumType
  <2>3. today[x] <= SumOver(Settled, TasksOf(x)) /\ today[x] \in Nat
    BY DEF UploadInv, TypeOK
  <2>4. PostsOf(x) = SumOver(posts, TasksOf(x))
    BY DEF PostsOf, SumOver, TasksOf
  <2> QED BY <2>1, <2>2, <2>3, <2>4
<1>4. hour <= FoldFunction(+, 0, posts)
  <2>1. SumOver(Settled, Tasks) <= SumOver(posts, Tasks)
    BY <1>2, TasksOfIsFinite, SumMonotone
  <2>2. SumOver(Settled, Tasks) \in Int /\ SumOver(posts, Tasks) \in Int
    BY <1>2, TasksOfIsFinite, SumType
  <2>3. hour <= SumOver(Settled, Tasks) /\ hour \in Nat
    BY DEF UploadInv, TypeOK
  <2>4. DOMAIN posts = Tasks
    BY <1>1
  <2>5. hour <= SumOver(posts, DOMAIN posts)
    BY <2>1, <2>2, <2>3, <2>4
  <2> QED BY <2>5 DEF FoldFunction, SumOver
<1> QED BY <1>3, <1>4 DEF RecordedUploadsHappened, UploadInv

\* The coordinator never records an upload that did not take place, for any
\* number of sessions, whatever fails, dies or is cancelled between the click
\* on publish and the record of it.
THEOREM RecordedUploadsTookPlace == Spec => []RecordedUploadsHappened
<1>1. Init => UploadInv
  <2> SUFFICES ASSUME Init PROVE UploadInv
    OBVIOUS
  <2>1. \A t \in Tasks : ~Owes(t) /\ posts[t] = 0
    BY DEF Init, Owes, Recording
  <2>2. Settled = [t \in Tasks |-> 0]
    BY <2>1 DEF Settled
  <2>3. ASSUME NEW S \in SUBSET Tasks PROVE SumOver(Settled, S) >= 0
    <3>1. IsFiniteSet(S)
      BY TasksOfIsFinite, FS_Subset
    <3>2. \A t \in S : Settled[t] \in Int /\ Settled[t] >= 0
      BY <2>2
    <3> QED BY <3>1, <3>2, SumIsNat
  <2> QED BY <2>2, <2>3, TasksOfIsFinite DEF Init, CoordInit, UploadInv
<1>2. Spec => []TypeOK
  BY SessionTypes
<1>3. UploadInv /\ TypeOK /\ TypeOK' /\ [Next]_vars => UploadInv'
  BY UploadStep
<1>4. UploadInv /\ TypeOK => RecordedUploadsHappened
  BY UploadsAreOwedOrPosted
<1> QED BY <1>1, <1>2, <1>3, <1>4, PTL DEF Spec
=============================================================================
