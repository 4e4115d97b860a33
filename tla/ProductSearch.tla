--------------------------- MODULE ProductSearch ---------------------------
(***************************************************************************)
(* search_tiktok_handler (workers/handlers/tiktok/search_tiktok.py): the   *)
(* phone looks at a Shop product, else the account's browser page goes     *)
(* through the queries and scrolls each result page until it has enough,   *)
(* nothing new comes, or the rounds are used up.                           *)
(***************************************************************************)
EXTENDS Devices, SequencesExt, FiniteSetsExt

CONSTANTS
  Searches,     \* search tasks
  QueriesOf,    \* _selected_search_queries of a task, a sequence
  ProductOf,    \* its Shop product, or NoProduct
  NoProduct,
  HomePage,     \* tiktok.com
  SearchPageOf, \* the page of its account's AdsPower profile
  LinksOn,      \* the links a screen that shows a thing has
  Watchable,    \* links that are videos: no photo, live, tag or shop page
  Views,        \* views of a video: "few", "many" or "viral"
  Relevant,     \* videos whose text scores above min_relevance_score
  AuthorOf,     \* the author in a video's url
  PerAuthor,    \* max_per_author
  QualityFilters, \* TIKTOK_SEARCH_APPLY_MIN_VIEWS
  RequireLogin, \* TIKTOK_SEARCH_REQUIRE_LOGIN
  MaxResults,   \* max_results
  ScrollMax,    \* scroll_max
  StagnantLimit, \* stagnant_limit
  MinRounds,    \* _MIN_ROUNDS_BEFORE_BOTTOM
  ShopEnabled   \* TIKTOK_MOBILE_FALLBACK_ENABLED

ASSUME SearchAssumption ==
  /\ MaxResults \in Nat \ {0} /\ ScrollMax \in Nat \ {0} /\ PerAuthor \in Nat \ {0}
  /\ StagnantLimit \in Nat \ {0} /\ MinRounds \in Nat
  /\ {ShopEnabled, QualityFilters, RequireLogin} \subseteq BOOLEAN
  /\ LinksOn \in [Things -> SUBSET Things]

VARIABLES
  phase,    \* where a handler stands
  query,    \* the query it is at
  round,    \* scroll rounds made for it
  stagnant, \* rounds without a new link, in a row
  still,    \* scrolls that moved nothing and came with no new link, in a row
  raw,      \* links the query's page has shown, in order
  accepted, \* those that passed the filters, in order
  found     \* all_videos

searchVars == <<phase, query, round, stagnant, still, raw, accepted, found>>

SearchEnded == {"waiting", "returned", "dead", "again"}
Bottom == IF MinRounds < ScrollMax THEN MinRounds ELSE ScrollMax

SearchInit ==
  /\ phase = [t \in Searches |-> "waiting"]
  /\ query = [t \in Searches |-> 1]
  /\ round = [t \in Searches |-> 0]
  /\ stagnant = [t \in Searches |-> 0]
  /\ still = [t \in Searches |-> 0]
  /\ raw = [t \in Searches |-> <<>>]
  /\ accepted = [t \in Searches |-> <<>>]
  /\ found = [t \in Searches |-> <<>>]

PhaseOf(t, place) == phase' = [phase EXCEPT ![t] = place]
HasQueries(t) == QueriesOf[t] # <<>>
AtMost(n, s) == SubSeq(s, 1, IF Len(s) < n THEN Len(s) ELSE n)
\* Any order a page can list links in.
Listings(S) == SetToSeqs(S)
Shown(t) == LinksOn[showing[SearchPageOf[t]]]
pageVars == <<round, stagnant, still, raw, accepted>>

-----------------------------------------------------------------------------
(* The phone                                                               *)

\* A Shop product goes to the phone first; queries are needed otherwise.
BeginSearch(t) ==
  /\ phase[t] = "waiting"
  /\ IF ProductOf[t] # NoProduct /\ ShopEnabled
     THEN Opens(Phone, ProductOf[t], t) /\ PhaseOf(t, "discovering")
     ELSE UNCHANGED deviceVars /\ PhaseOf(t, IF HasQueries(t) THEN "account" ELSE "dead")
  /\ UNCHANGED <<query, pageVars, found>>

\* collect_visible_video_links: the first links in the dump of the screen.
VisibleLinks == UNION {{AtMost(MaxResults, l) : l \in Listings(links)} : links \in SUBSET (LinksOn[showing[Phone]] \cap Watchable)}

\* What is visible, and when that is too little what is visible after
\* scrolling, without repetition; nothing when there is no device, the app
\* does not open or it asks for a login.
Discovered ==
  {<<>>} \cup UNION {IF Len(first) >= MaxResults THEN {first}
                     ELSE {AtMost(MaxResults, first \o SelectSeq(more, LAMBDA v : ~Contains(first, v))) :
                             more \in VisibleLinks} : first \in VisibleLinks}

Discover(t) ==
  /\ phase[t] = "discovering"
  /\ \E videos \in Discovered :
       /\ found' = [found EXCEPT ![t] = videos]
       /\ PhaseOf(t, IF videos # <<>> THEN "returned"
                     ELSE IF HasQueries(t) THEN "account" ELSE "dead")
  /\ Closes(Phone, t)
  /\ UNCHANGED <<query, pageVars>>

-----------------------------------------------------------------------------
(* The browser                                                             *)

\* The account is read: it exists, is TikTok's, uses AdsPower and has a
\* session or a confirmed login.  Its profile is opened on the home page.
OpenProfile(t) ==
  /\ phase[t] = "account"
  /\ \/ UNCHANGED deviceVars /\ PhaseOf(t, "dead")
     \/ UNCHANGED deviceVars /\ PhaseOf(t, "again")
     \/ Opens(SearchPageOf[t], HomePage, t) /\ PhaseOf(t, "confirming")
  /\ UNCHANGED <<query, pageVars, found>>

\* _has_tiktok_auth_signal: a session cookie, or the avatar of a user who is
\* logged in; neither is seen when the context does not answer.
AuthSignals == BOOLEAN

\* Without a signal the handler is over for good.
ConfirmAuth(t) ==
  /\ phase[t] = "confirming"
  /\ \E signal \in AuthSignals :
       IF RequireLogin /\ ~signal
       THEN PhaseOf(t, "dead") /\ Closes(SearchPageOf[t], t)
       ELSE PhaseOf(t, "loading") /\ UNCHANGED deviceVars
  /\ UNCHANGED <<query, pageVars, found>>

\* The query's page, its video tab, and whether it asks for a login; a state
\* that cannot be read asks for nothing.
LoadResults(t) ==
  /\ phase[t] = "loading"
  /\ \/ Opens(SearchPageOf[t], QueriesOf[t][query[t]], t) /\ PhaseOf(t, "scrolling")
     \/ RequireLogin /\ PhaseOf(t, "dead") /\ Closes(SearchPageOf[t], t)
  /\ UNCHANGED <<query, pageVars, found>>

\* _filter_search_videos, card by card.  A card shows its views and its text
\* or not yet; a viral video needs neither text nor relevance, and an author
\* fills up with the videos of this query that were accepted.
FromAuthor(videos, a) == Cardinality({i \in DOMAIN videos : AuthorOf[videos[i]] = a})
Meets(v, full) == full /\ (Views[v] = "viral" \/ (Views[v] = "many" /\ v \in Relevant))
Filtered(videos, v, full) ==
  IF \/ v \notin Watchable \/ Contains(videos, v)
     \/ QualityFilters /\ (~Meets(v, full) \/ FromAuthor(videos, AuthorOf[v]) >= PerAuthor)
  THEN videos ELSE Append(videos, v)

\* The links the page has not shown before are collected, the filters look
\* at all of them again.
CardsRead(t, listing, full) ==
  /\ raw' = [raw EXCEPT ![t] = @ \o SelectSeq(listing, LAMBDA v : v \in Watchable /\ ~Contains(raw[t], v))]
  /\ accepted' = [accepted EXCEPT ![t] = FoldLeft(LAMBDA videos, v : Filtered(videos, v, v \in full), @, listing)]

\* What ends a query's rounds before the page is scrolled, and after: at the
\* bottom, twice nothing moved and nothing new came.
Enough(t) == Len(accepted'[t]) >= MaxResults
Exhausted(t) == stagnant'[t] >= StagnantLimit /\ round[t] + 1 >= Bottom
AtBottom(t, moved) == ~moved /\ round[t] + 1 >= Bottom /\ still'[t] >= 2

ScrollRound(t) ==
  /\ phase[t] = "scrolling"
  /\ \E seen \in SUBSET Shown(t) : \E listing \in Listings(seen) : \E full \in SUBSET seen :
       CardsRead(t, listing, full)
  /\ stagnant' = [stagnant EXCEPT ![t] = IF raw'[t] = raw[t] THEN @ + 1 ELSE 0]
  /\ round' = [round EXCEPT ![t] = @ + 1]
  /\ IF Enough(t) \/ Exhausted(t) THEN PhaseOf(t, "merging") /\ UNCHANGED still
     ELSE \E moved \in BOOLEAN :
            /\ still' = [still EXCEPT ![t] = IF raw'[t] = raw[t] /\ ~moved THEN @ + 1 ELSE 0]
            /\ IF round'[t] = ScrollMax THEN PhaseOf(t, "merging")
               ELSE \/ UNCHANGED phase
                    \/ AtBottom(t, moved) /\ PhaseOf(t, "merging")
  /\ UNCHANGED <<query, found, deviceVars>>

\* What a query leaves: the accepted links, or all of them if none passed.
QueryLinks(t) == AtMost(MaxResults, IF accepted[t] = <<>> THEN raw[t] ELSE accepted[t])
Unseen(t) == SelectSeq(QueryLinks(t), LAMBDA v : ~Contains(found[t], v))

\* The query's links that no earlier query had, then the next query.
MergeQuery(t) ==
  /\ phase[t] = "merging"
  /\ found' = [found EXCEPT ![t] = @ \o Unseen(t)]
  /\ IF Len(found'[t]) >= MaxResults \/ query[t] = Len(QueriesOf[t])
     THEN /\ Closes(SearchPageOf[t], t)
          /\ PhaseOf(t, "counting")
          /\ UNCHANGED query
     ELSE /\ query' = [query EXCEPT ![t] = @ + 1]
          /\ PhaseOf(t, "loading")
          /\ UNCHANGED deviceVars
  /\ round' = [round EXCEPT ![t] = 0]
  /\ stagnant' = [stagnant EXCEPT ![t] = 0]
  /\ still' = [still EXCEPT ![t] = 0]
  /\ raw' = [raw EXCEPT ![t] = <<>>]
  /\ accepted' = [accepted EXCEPT ![t] = <<>>]

ReturnFound(t) ==
  /\ phase[t] = "counting"
  /\ found' = [found EXCEPT ![t] = AtMost(MaxResults, @)]
  /\ PhaseOf(t, IF found[t] = <<>> THEN "dead" ELSE "returned")
  /\ UNCHANGED <<query, pageVars, deviceVars>>

\* Any exception of the browser is retried, and what the earlier queries
\* found is lost with the handler.
SearchRaises(t) ==
  /\ phase[t] \in {"confirming", "loading", "scrolling"}
  /\ PhaseOf(t, "again")
  /\ Closes(SearchPageOf[t], t)
  /\ found' = [found EXCEPT ![t] = <<>>]
  /\ raw' = [raw EXCEPT ![t] = <<>>]
  /\ accepted' = [accepted EXCEPT ![t] = <<>>]
  /\ UNCHANGED <<query, round, stagnant, still>>

SearchStep(t) ==
  \/ BeginSearch(t) \/ Discover(t) \/ OpenProfile(t) \/ ConfirmAuth(t) \/ LoadResults(t)
  \/ ScrollRound(t) \/ MergeQuery(t) \/ ReturnFound(t)

=============================================================================
