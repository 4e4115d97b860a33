------------------------------ MODULE MCServices -----------------------------
(***************************************************************************)
(* The services and engines beside the task queue, for TLC: each behaviour *)
(* has a cast, the services that take part in it.                          *)
(***************************************************************************)
EXTENDS Portfolio, ContentBrain, CeoBrain, AccountBrain,
        LicenseClient, PostScheduler, SessionPlanner, AccountConnect,
        Identity, TLC

CONSTANTS top, mid, low, fan, fresh,                         \* contents and accounts
          guard, user, guest, poster, planner, clerk,
          desk, laptop, gold, item1, item2, job1, job2, fanPage, noPage,
          plan1, plan2, login1, login2

VARIABLE cast   \* who takes part in a behaviour

-----------------------------------------------------------------------------

MCContents == <<top, mid, low>>
MCGateSettings == {[threshold |-> 50, explore |-> 50], [threshold |-> 200, explore |-> 0]}
MCStageDays == 0 :> 1 @@ 1 :> 1 @@ 2 :> 1
\* Rows that earlier reports have left in table lifecycle.
MCRows == {[NewContent EXCEPT !.state = s] : s \in {"testing", "winning", "recycle"}}

Report(kinds, suspect) == [kinds |-> kinds, engaged |-> TRUE, suspect |-> suspect]
MCReports ==
  {Report({}, FALSE), Report({"soft_ban"}, FALSE), Report({"fingerprint_changed", "geo_mismatch"}, TRUE)}

MCMachineOf == guard :> desk @@ user :> desk @@ guest :> laptop
MCSeats == gold :> 1
MCScore == item1 :> 1 @@ item2 :> 2
MCUploadGap == [RAMP_UP |-> 3, NORMAL |-> 2]

Engines == {"clip", "allocator", "brain", "curator", "gates", "ruler", "account", "persona"}
Casts == {{e} : e \in Engines} \cup {{guard, user}, {user, guest}, {guest}, {poster}, {planner}, {clerk}}

engineVars == <<portfolioVars, brainVars, ceoVars, accountBrainVars>>
licenseVars == <<serverVars, clientVars>>
serviceVars == <<licenseVars, review, postVars, planVars, connectVars, identityVars>>
vars == <<engineVars, serviceVars, cast>>

-----------------------------------------------------------------------------
(* Init and Next                                                           *)

EngineInit ==
  /\ PortfolioInit(IF cast = {"allocator"} THEN MCRows ELSE {NewContent})
  /\ cast = {"allocator"} => content[top].state # "recycle" /\ content[mid].state # "winning"
  /\ BrainInit /\ CeoInit
  /\ AccountBrainInit
  /\ cast # {"account"} => mind = [a \in Minds |-> Unmet]

\* The guest's license file is copied from a desk that is activated.
LicenseInit ==
  /\ ServerInit
  /\ device = [l \in Licenses |-> [m \in Machines |-> IF cast = {guest} /\ m = desk THEN "active" ELSE "none"]]
  /\ ClientInit(IF cast = {guest} THEN {desk} ELSE {}, gold)

PosterInit ==
  \/ PostInit([j \in Jobs |-> Unused])
  \/ /\ cast = {poster}
     /\ PostInit(job1 :> [item |-> item1, page |-> fanPage, status |-> "queued", due |-> TRUE]
              @@ job2 :> [item |-> item2, page |-> fanPage, status |-> "queued", due |-> TRUE])

PlannerInit ==
  /\ PlanInit
  /\ life.age \in IF cast = {planner} THEN {Unregistered, RampUp} ELSE {Unregistered}

ClerkInit ==
  /\ ConnectInit
  /\ account.provider = IF cast = {clerk} THEN "real_chrome" ELSE "playwright"

Init ==
  /\ cast \in Casts
  /\ IdentityInit
  /\ cast # {"persona"} => proxy = Local /\ provider = "playwright"
  /\ EngineInit /\ LicenseInit /\ PosterInit /\ PlannerInit /\ ClerkInit

PortfolioActs ==
  \/ cast = {"clip"} /\ Advance(top)
  \/ cast = {"allocator"} /\ WarmUpActs /\ acquainted'[fresh] <= acquainted'[fan]
  \/ cast = {"allocator"} /\ AllocateActs /\ allotment'.unchecked \subseteq {fresh}

\* The curator's brain makes one decision in a process, the brain's keeps none
\* in the queue.
BrainActs ==
  \/ cast = {"brain"} /\ (BrainRestarts \/ \E c \in Clips, p \in Platforms : Decide(c, p, FALSE))
  \/ cast = {"curator"} /\ BrainNext /\ boosts'.scored <= 1

CeoActs ==
  \/ /\ cast = {"gates"} /\ CeoNext
     /\ <<rulings', losses', graded', ruled', spoken'>> = <<rulings, losses, graded, ruled, spoken>>
     /\ (top \in rated' => mid \in rated') /\ (mid \in rated' => low \in rated')
     /\ rated' # rated => strategy'.mode = "recovery"
     /\ IF handed' = NoDirective THEN TRUE
        ELSE \A e \in HandedRates(strategy'.explore) : handed'.explore <= e
  \/ /\ cast = {"ruler"} /\ CeoNext /\ <<strategy', graded'>> = <<strategy, graded>>
     /\ rated' \subseteq {low} /\ \A n \in Niches \ {low} : ~ruled'[n]

EngineActs ==
  \/ PortfolioActs /\ UNCHANGED <<brainVars, ceoVars, accountBrainVars>>
  \/ BrainActs /\ UNCHANGED <<portfolioVars, ceoVars, accountBrainVars>>
  \/ CeoActs /\ UNCHANGED <<portfolioVars, brainVars, accountBrainVars>>
  \/ cast = {"account"} /\ AccountBrainNext /\ UNCHANGED <<portfolioVars, brainVars, ceoVars>>

\* On one machine the guard asks on its own and never forces, the user does what
\* the license page offers; two machines race for the one seat.
LicenseActs ==
  \/ \E r \in Requests \cap cast :
       \/ CallAdvances(r) /\ (cast # {user, guest} => txn'[r] = NoTxn \/ call'[r] # Idle)
       \/ DeactivateLocal(MachineOf[r])
       \/ r # guard /\ AskActivation(r, gold)
       \/ /\ cast # {user, guest}
          /\ \/ r # user /\ AskStatus(r, FALSE)
             \/ r # guard /\ AskStatus(r, TRUE)
             \/ r # guard /\ AskActivation(r, Typo)
             \/ CacheExpires(MachineOf[r])
  \/ cast = {guest} /\ FileCopied(desk, laptop)
  \/ cast \in {{guard, user}, {guest}} /\ DayPasses
  \/ Requests \cap cast # {} /\ VendorActs /\ UNCHANGED clientVars

\* The operator speaks to the first process only.
PlannerActs == PlanNext /\ (OperatorActs => stops = 0)

\* Of the two Chromes one, of the two bad states one;
\* the first request is no recount, the second no PATCH.
ClerkActs ==
  /\ clerk \in cast /\ ConnectNext
  /\ account'.provider # "playwright" /\ account'.status # "banned"
  /\ ~RecountReads(login1) /\ ~PatchReads(login2)

ServiceActs ==
  \/ LicenseActs /\ UNCHANGED <<review, postVars, planVars, connectVars, identityVars>>
  \/ poster \in cast /\ PostNext /\ UNCHANGED <<licenseVars, planVars, connectVars, identityVars>>
  \/ planner \in cast /\ PlannerActs /\ UNCHANGED <<licenseVars, review, postVars, connectVars, identityVars>>
  \/ ClerkActs /\ UNCHANGED <<licenseVars, review, postVars, planVars, identityVars>>
  \/ cast = {"persona"} /\ IdentityNext /\ UNCHANGED <<licenseVars, review, postVars, planVars, connectVars>>

Next ==
  /\ UNCHANGED cast
  /\ \/ EngineActs /\ UNCHANGED serviceVars
     \/ ServiceActs /\ UNCHANGED engineVars

Spec == Init /\ [][Next]_vars
=============================================================================
