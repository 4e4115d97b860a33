----------------------------- MODULE MCHandlers -----------------------------
(***************************************************************************)
(* The handlers of TikTok tasks, the learning engines, the fleet library   *)
(* and the simulation pipeline, for TLC: each behaviour has a cast, those  *)
(* that run side by side in it.                                            *)
(***************************************************************************)
EXTENDS VideoDownload, ProductSearch, ProductInfo, RemixPlan,
        MediaFiles, ProductWords, PublishGate, AngleBank, PatternMemory, FleetSessions, Pipeline, TLC

CONSTANTS pair, shopper, solo, finder, scout, writer, studio, keeper, reader, reviewer, analyst, oracle, veteran, marshal,  \* TikTok handlers
          clerk, poster, breeder, director,   \* the pipeline and its parts
          good, bad, large, small, page, other, phone, noAccount, noProduct, product,
          one, two, three, first, second, blank, home

VARIABLE cast   \* who takes part in a behaviour

-----------------------------------------------------------------------------
(* The handlers: what they are asked for                                   *)

MCThings == {studio, one, two, three, first, second, product, blank, home}
MCDownloads == {pair, shopper, solo}
MCSelected == pair :> <<[video |-> one, app |-> TRUE, url |-> TRUE],
                        [video |-> two, app |-> FALSE, url |-> TRUE]>>
           @@ shopper :> <<[video |-> one, app |-> TRUE, url |-> TRUE]>>
           @@ solo :> <<[video |-> blank, app |-> FALSE, url |-> FALSE],
                        [video |-> three, app |-> FALSE, url |-> TRUE]>>
MCPageOf == pair :> page @@ shopper :> page @@ solo :> page
MCQueriesOf == finder :> <<first, second>>
MCProductOf == finder :> product
MCPriority == good :> 1 @@ bad :> 1
MCAttempts == scout :> 1 @@ writer :> 2
MCProductAt == scout :> product
MCInfoPageOf == scout :> page
MCSearchPageOf == finder :> page
MCLinksOn == [t \in MCThings |->
  CASE t = first -> {one, two} [] t = second -> {three, studio}
    [] t = product -> {one, two} [] OTHER -> {}]
MCViews == [t \in MCThings |-> IF t = one THEN "viral" ELSE IF t = two THEN "many" ELSE "few"]
MCAuthorOf == [t \in MCThings |-> IF t \in {one, two} THEN 1 ELSE 2]
MCCandidates == <<[url |-> one, author |-> 1, passes |-> TRUE],
                  [url |-> one, author |-> 1, passes |-> TRUE],
                  [url |-> two, author |-> 1, passes |-> TRUE],
                  [url |-> three, author |-> 2, passes |-> TRUE],
                  [url |-> blank, author |-> 3, passes |-> TRUE],
                  [url |-> first, author |-> 3, passes |-> FALSE]>>

\* The words of a title: "khan" and "ao" are nouns of the search, "va" a stop
\* word, "item" says nothing.
MCWords == {"khan", "4", "va", "item", "serumx"}
MCVocabulary == MCWords \cup {"ao"}
MCTitles == {<<>>} \cup [1..1 -> MCWords] \cup [1..2 -> {"khan", "serumx"}]
  \cup {<<"khan", "va", "4", "va", "serumx">>, <<"item", "va", "serumx", "ao">>,
        <<"khan", "4", "serumx", "ao", "va", "khan">>}
MCAiQueries ==
  {<<>>, <<<<"khan", "va", "4", "va", "khan", "serumx">>>>, <<<<"va", "item">>, <<"khan", "serumx">>>>}
MCAiKeywords == {<<>>, <<<<"khan", "4">>, <<"serumx">>, <<"item">>, <<"khan">>>>}
MCFading == 0 :> 1000 @@ 1 :> 368
MCStride == 0 :> 1 @@ 1 :> 2
\* Each account in a cluster of its own; k-means may swap the first two.
MCClean == one :> two @@ two :> two @@ three :> three @@ first :> home @@ second :> home @@ home :> home
MCContentOf == first :> one @@ second :> first
MCClusterOf == first :> "c0" @@ second :> "c1"
MCPhrases == <<<<"khan", "serumx">>>>

Casts == {{studio}, {pair}, {shopper, solo}, {solo, finder}, {solo, scout}, {scout, writer}, {keeper}, {reader}, {reviewer}, {analyst}, {oracle}, {veteran}, {marshal}, {clerk}, {poster}, {breeder}, {director}}

tiktokVars == <<downloadVars, searchVars, deviceVars, remixVars, routerVars, infoVars>>
textVars == <<mediaFileVars, wordVars, gateVars, angleVars, patternVars>>
simulationVars == <<pipelineVars, sharedVars>>
handlerVars == <<tiktokVars, textVars>>
vars == <<tiktokVars, textVars, fleetAndBrainVars, simulationVars, cast>>

-----------------------------------------------------------------------------
(* Init and Next                                                           *)

Init ==
  /\ cast \in Casts
  /\ DevicesInit(Downloads \cup Searches \cup Extractions)
  /\ DownloadInit /\ SearchInit /\ RemixInit
  /\ RouterInit(large) /\ InfoInit
  /\ MediaFilesInit
  /\ IF cast = {reader} THEN WordsInit ELSE read = <<<<>>, <<>>>> /\ described = NoProductInfo
  /\ GateInit
  /\ AngleInit
  /\ PatternInit
  /\ FleetInit
  /\ LedgerInit /\ ScalingInit /\ PipelineInit
  /\ SwarmInit /\ clusterOf = MCClusterOf
  /\ cast # {oracle} => luck = 0
  /\ cast # {pair} => env = [provider |-> "auto", mobile |-> cast # {solo, finder}]   \* a search has no phone

\* The answers of the running requests that were not recorded.
Unmarked == UNION {{c} \X unwritten'[c] : c \in Callers}

\* The operator switches a key or a model off during the extraction's request,
\* or changes the preferred model when it is over.
OneEdit ==
  /\ OperatorEdits /\ keyOn = Keys /\ modelOn = Models
  /\ IF preferred' # preferred THEN reading[scout] = "done" ELSE asking[scout] = "configured"

TikTokActs ==
  \/ studio \in cast /\ RemixStep
     /\ UNCHANGED <<downloadVars, searchVars, deviceVars, routerVars, infoVars>>
  \/ \E c \in Callers \cap cast :
       InfoStep(c) /\ Cardinality(Unmarked) <= 1 /\ UNCHANGED <<downloadVars, searchVars, remixVars>>
  \/ /\ writer \in cast /\ OneEdit
     /\ UNCHANGED <<downloadVars, searchVars, deviceVars, remixVars, infoVars>>
  \/ \E d \in Downloads \cap cast :
       /\ DownloadStep(d) \/ DownloadCancelled(d)
       /\ UNCHANGED <<searchVars, remixVars, routerVars, infoVars>>
  \/ \E t \in Searches \cap cast :
       /\ SearchStep(t) \/ SearchRaises(t)
       /\ UNCHANGED <<downloadVars, remixVars, routerVars, infoVars>>
  \/ AppActs /\ UNCHANGED <<searchVars, remixVars, routerVars, infoVars>>

\* The angles are either used for long, and generated anew when one of the first
\* two is at the limit, or learnt of, in tests and then in reports.
AngleActs ==
  \/ InBank = {} /\ FillBank
  \/ /\ tests = 0 /\ perf[one].n + perf[two].n = 0
     /\ \/ Enrich
        \/ FillBank /\ InBank # Angles /\ \E a \in Angles : bank[a].uses = Hard
  \/ /\ Enrich \/ AngleIsLearnt \/ AnglesForgotten
     /\ tests' # tests => perf[one].n + perf[two].n = 0 /\ passes'[three] = passes[three]
     /\ perf'[three] = perf[three] /\ bank'[two].early = 0 /\ bank'[three].early = 0
     /\ \A a \in Angles : bank'[a].uses <= 1

\* What an account does besides scrolling.
Taps(plan) == {s.action : s \in Range(plan.steps)} \cap {"tap_item", "view_profile", "like_item"}

\* One account grows old, session by session: no other, no proxy; it taps
\* nothing, and its last start is forgotten before the next.
VeteranActs ==
  /\ FleetNext
  /\ UNCHANGED <<proxy, hint>> /\ health'[first].sessions < MaxSessions
  /\ turn'[second] = turn[second] /\ health'[second] = health[second]
  /\ mode' # mode => window'.bans > window.bans
  /\ window'.starts <= 1 /\ (window'.starts < window.starts => turn[first].step = "none")
  /\ window'.uploads >= window.uploads /\ window'.bans >= window.bans
  /\ Taps(turn'[first].plan) = {}

\* Two accounts in good standing share the windows, and one of them taps; the operator ends SAFE.
MarshalActs ==
  /\ FleetNext
  /\ UNCHANGED <<face, drift, streak, shunned>> /\ Reported' <= 2
  /\ window'.bans >= window.bans /\ Taps(turn'[second].plan) = {}
  /\ proxy'[second] = proxy[second]
  /\ mode' # mode => mode = "SAFE" \/ window'.bans > window.bans
  /\ \A a \in Members : past[a] # past'[a] => Last(past'[a]) # "captcha"

HandlerActs ==
  \/ TikTokActs /\ UNCHANGED textVars
  \/ keeper \in cast /\ MediaFilesNext /\ UNCHANGED <<tiktokVars, wordVars, gateVars, angleVars, patternVars>>
  \/ reader \in cast /\ WordsNext /\ UNCHANGED <<tiktokVars, mediaFileVars, gateVars, angleVars, patternVars>>
  \/ reviewer \in cast /\ GateNext /\ UNCHANGED <<tiktokVars, mediaFileVars, wordVars, angleVars, patternVars>>
  \/ analyst \in cast /\ AngleActs /\ UNCHANGED <<tiktokVars, mediaFileVars, wordVars, gateVars, patternVars>>
  \/ oracle \in cast /\ PatternNext /\ UNCHANGED <<tiktokVars, mediaFileVars, wordVars, gateVars, angleVars>>

Acts ==
  \/ HandlerActs /\ UNCHANGED fleetAndBrainVars
  \/ veteran \in cast /\ VeteranActs /\ UNCHANGED handlerVars
  \/ marshal \in cast /\ MarshalActs /\ UNCHANGED handlerVars

\* Clicks of one content, sales of two, before the second flush; the profit of
\* a content is either written or stays as it was.
ClerkActs ==
  /\ LedgerNext
  /\ \A c \in Contents \ {two} : touches'[c] = 0
  /\ \A i \in DOMAIN sales' : sales'[i].content = two \/ (i > 1 /\ sales'[i].content = three)
  /\ sales' # sales \/ touches' # touches => flushes <= 1
  /\ \A w \in Ledgers :
       /\ bookSeen'[w] = bookSeen[w] \/ book' # book \/ seen' # seen
       /\ \A c \in Contents : bookSeen'[w][c] \in {bookSeen[w][c], NoRecord, book'[c]}

\* One content is measured, the other one only posted.
PosterActs == ScalingNext /\ rank'[first] = rank[first] /\ (measures' # measures => Len(sent) <= 1)

\* Every cluster has an account at work; one fitness moves at a time.
BreederActs ==
  /\ DarwinCycle([n \in Clusters |-> 2]) /\ UNCHANGED clusterOf
  /\ Cardinality({n \in Names : eco'.fit[n] \notin {eco.fit[n], FirstLevel}}) <= 1

\* The pipeline runs, after a sale at most, and then without an account at risk. SQLite writes, the second account
\* posts whenever it may, and every post does well without excess.
DirectorActs ==
  \/ /\ clusterOf' \in IF inCycle.step # "settle" THEN {clusterOf}
                       ELSE {MCClusterOf, first :> "c1" @@ second :> "c0"}
     /\ PipelineNext
     /\ lost' = lost /\ \A c \in Contents : bookSeen'[Ours][c] \in {NoRecord, book'[c]}
     /\ flush[Ours].step = "mark" => sales' # sales
     /\ inCycle'.step = "rank" => second \in inCycle'.posts
     /\ risk'[second] <= 300 /\ (sales # <<>> => risk'[first] <= 300)
     /\ inCycle'.engaged \ inCycle'.logs \subseteq {first}
     /\ \A c \in Scaled : rank'[c].tier = "NORMAL" /\ book'[c].score >= book[c].score
     /\ \A n \in Names \ {"c0"} : eco'.fit[n] \in {eco.fit[n], FirstLevel}
  \/ /\ sales = <<>> /\ RecordConversion(one, 20)
     /\ UNCHANGED <<scalingVars, swarmVars, pipelineVars>>

SimulationActs ==
  \/ clerk \in cast /\ ClerkActs /\ UNCHANGED <<scalingVars, swarmVars, pipelineVars>>
  \/ poster \in cast /\ PosterActs /\ UNCHANGED <<ledgerVars, swarmVars, pipelineVars>>
  \/ breeder \in cast /\ BreederActs /\ UNCHANGED <<ledgerVars, scalingVars, pipelineVars>>
  \/ director \in cast /\ DirectorActs

Next ==
  /\ UNCHANGED cast
  /\ \/ Acts /\ UNCHANGED simulationVars
     \/ SimulationActs /\ UNCHANGED <<handlerVars, fleetAndBrainVars>>

Spec == Init /\ [][Next]_vars
=============================================================================
