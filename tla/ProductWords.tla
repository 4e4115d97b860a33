---------------------------- MODULE ProductWords ----------------------------
(***************************************************************************)
(* What extract_product_info (extract_product_info.py) makes of a title    *)
(* and of the AI's answer: the keywords and the search queries it hands to *)
(* search_tiktok (search_tiktok.py), which has a rule of its own for what  *)
(* a query is.  A text is the sequence of its words, folded.               *)
(***************************************************************************)
EXTENDS Naturals, SequencesExt

CONSTANTS
  Words,         \* whatever a text may hold
  Nouns,         \* _SEARCH_PRODUCT_NOUNS
  Digits,        \* numbers
  Stops,         \* _SEARCH_QUERY_STOPWORDS
  Blanks,        \* "unknown", "product", "item"
  Longish,       \* words of four letters and more
  Wordy,         \* words of five letters and more
  Phrases,       \* _SEARCH_QUERY_PHRASES, a sequence
  Titles,        \* titles a page or the AI gives; <<>> is none
  AiQueries,     \* search_queries the AI gives, sequences of texts
  AiKeywords     \* keywords it gives, sequences of texts

ASSUME WordsAssumption ==
  /\ Stops \cap (Nouns \cup Digits \cup Blanks) = {}
  /\ Wordy \subseteq Longish
  /\ Titles \subseteq Seq(Words) /\ Phrases \in Seq(Seq(Words))
  /\ AiQueries \subseteq Seq(Seq(Words)) /\ AiKeywords \subseteq Seq(Seq(Words))
  /\ IsFiniteSet(Nouns)

VARIABLES
  read,      \* title candidates of the Shop page, in the order they are tried
  described  \* what the handler returns

wordVars == <<read, described>>

MaxQueries == 5
MaxKeywords == 10

\* The elements of s at the places A, and those that pass a test, in their order.
Sifted(s, A) == [n \in 1 .. Cardinality(A) |-> s[CHOOSE i \in A : Cardinality(A \cap (1 .. i)) = n]]
Those(s, Test(_)) == Sifted(s, {i \in DOMAIN s : Test(s[i])})

-----------------------------------------------------------------------------
(* Titles and keywords                                                     *)

\* Nothing but "TikTok Shop" and the like is left of a generic title.
MeaningfulTitle(t) == \E w \in Range(t) : w \notin Blanks \cup Digits
ChosenTitle(candidates) ==
  LET telling == Those(candidates, MeaningfulTitle) IN IF telling = <<>> THEN <<>> ELSE Head(telling)

\* _clean_keyword, _add_keyword: junk, a word of two letters and a repetition
\* are not added.
CleanKeyword(k) ==
  IF k = <<>> \/ (Len(k) = 1 /\ (Head(k) \in Blanks \/ Head(k) \notin Longish \cup Nouns)) THEN <<>> ELSE k
AddKeyword(ks, k) ==
  IF CleanKeyword(k) = <<>> \/ Contains(ks, k) THEN ks ELSE Append(ks, k)
UpToLen(n, s) == SubSeq(s, 1, IF Len(s) < n THEN Len(s) ELSE n)
AddKeywords(ks, more, limit) ==
  IF Len(ks) >= limit THEN ks ELSE UpToLen(limit, FoldLeft(AddKeyword, ks, more))

Windows(ts, n) == [i \in 1..(IF Len(ts) < n THEN 0 ELSE Len(ts) - n + 1) |-> SubSeq(ts, i, i + n - 1)]
Singles(ts) == [i \in DOMAIN ts |-> <<ts[i]>>]
Telling(q) == \E w \in Range(q) : w \in Nouns \cup Digits

\* Phrases about the product, longest first; then its words, then any phrase.
TitleKeywords(title) ==
  LET ts == Those(title, LAMBDA w : w \notin Stops)
      phrases == Those(Windows(ts, 5) \o Windows(ts, 4) \o Windows(ts, 3) \o Windows(ts, 2), Telling)
      telling == AddKeywords(<<>>, phrases, MaxKeywords)
      named == IF Len(telling) < 5 THEN AddKeywords(telling, Singles(Those(ts, LAMBDA w : w \in Nouns \cup Longish)), MaxKeywords)
                ELSE telling IN
  IF Len(named) < 3 THEN AddKeywords(named, Windows(ts, 3) \o Windows(ts, 2) \o Singles(ts), 5) ELSE named

Merged(primary, secondary) == AddKeywords(<<>>, primary \o secondary, MaxKeywords)

-----------------------------------------------------------------------------
(* Search queries                                                          *)

\* Mutant: the query as it came, stop words included.
QueryAsGiven(q) ==
  LET spoken == Those(q, LAMBDA w : w \notin Blanks)
      ts == Those(spoken, LAMBDA w : w \notin Stops) IN
  IF Len(ts) \in 2..5 /\ (Telling(ts) \/ \E w \in Range(ts) : w \in Wordy) THEN spoken ELSE <<>>

\* _clean_search_query: two to five words that say something.
CleanQuery(q) ==
  LET ts == Those(q, LAMBDA w : w \notin Blanks \cup Stops) IN
  IF Len(ts) \in 2..5 /\ (Telling(ts) \/ \E w \in Range(ts) : w \in Wordy) THEN ts ELSE <<>>

AddQuery(qs, q) ==
  LET c == CleanQuery(q) IN
  IF c = <<>> \/ Contains(qs, c) \/ Len(qs) = MaxQueries THEN qs ELSE Append(qs, c)

\* For each noun of the source, in the order Python's set has in this process.
Nearby(source, noun) ==
  LET near == Those(source, LAMBDA w : w = noun \/ w \in Digits \cup Longish) IN
  IF Len(near) >= 2 THEN UpToLen(5, near) ELSE <<>>

\* derive_search_queries: known phrases, the keywords, phrases of the title,
\* and what surrounds a noun.
Queries(title, keywords, order) ==
  LET source == Those(FoldLeft(LAMBDA text, k : text \o k, title, keywords), LAMBDA w : w \notin Stops)
      ts == Those(title, LAMBDA w : w \notin Stops)
      known == Those(Phrases, LAMBDA p : Len(p) > 1 /\ Range(p) \subseteq Range(source))
      phrases == Those(Windows(ts, 5) \o Windows(ts, 4) \o Windows(ts, 3) \o Windows(ts, 2), Telling)
      nouns == Those(order, LAMBDA n : n \in Range(source))
      around == [i \in DOMAIN nouns |-> Nearby(source, nouns[i])] IN
  FoldLeft(AddQuery, <<>>, known \o keywords \o phrases \o around)

\* The AI's queries come first.
Validated(answers, title, keywords, order) ==
  FoldLeft(AddQuery, <<>>, answers \o Queries(title, keywords, order))

\* search_tiktok's own rule, _is_valid_search_query.
ValidSearchQuery(q) ==
  /\ Len(q) \in 2..5
  /\ \E w \in Range(q) : w \notin Blanks

-----------------------------------------------------------------------------
(* The handler                                                             *)

NoProductInfo == [state |-> "none", title |-> <<>>, keywords |-> <<>>, queries |-> <<>>]
Info(state, title, keywords, queries) ==
  [state |-> state, title |-> title, keywords |-> keywords, queries |-> queries]

WordsInit ==
  /\ read \in [1..2 -> Titles]
  /\ described = NoProductInfo

\* A Shop page with a title: its queries, or nothing to search for, for good.
ReadsTitle ==
  /\ described.state = "none"
  /\ LET title == ChosenTitle(read)
         keywords == TitleKeywords(title) IN
     \E order \in SetToSeqs(Nouns) :
       LET queries == Queries(title, keywords, order) IN
       described' = IF title = <<>> THEN Info("fetched", title, <<>>, <<>>)
                  ELSE IF queries = <<>> THEN Info("fatal", title, keywords, queries)
                  ELSE Info("dom", title, keywords, queries)
  /\ UNCHANGED read

\* The AI refines what the page gave; its failure leaves it.
RefinesTitle ==
  /\ described.state = "dom"
  /\ \/ described' = [described EXCEPT !.state = "done"]
     \/ \E more \in AiKeywords :
          LET keywords == Merged(described.keywords, more) IN
          \E answers \in AiQueries, order \in SetToSeqs(Nouns) :
          LET queries == Validated(answers, described.title, keywords, order) IN
          described' = Info("done", described.title,
               IF more = <<>> THEN described.keywords ELSE keywords,
               IF queries = <<>> THEN described.queries ELSE queries)
  /\ UNCHANGED read

\* Without a Shop title the AI's answer is all there is: an unknown title or
\* too few keywords are retried, no query is fatal.
AiDescribes ==
  /\ described.state = "fetched"
  /\ \E title \in Titles, more \in AiKeywords :
       LET keywords == UpToLen(MaxKeywords, IF more = <<>> THEN TitleKeywords(title) ELSE Merged(more, <<>>)) IN
       \E answers \in AiQueries, order \in SetToSeqs(Nouns) :
       LET queries == Validated(answers, title, keywords, order) IN
       described' =
            IF ~MeaningfulTitle(title) \/ Len(keywords) < 3 THEN Info("retry", title, keywords, queries)
            ELSE IF queries = <<>> THEN Info("fatal", title, keywords, queries)
            ELSE Info("done", title, keywords, queries)
  /\ UNCHANGED read

WordsNext == ReadsTitle \/ RefinesTitle \/ AiDescribes

-----------------------------------------------------------------------------
(* Property                                                                *)

\* What the extraction hands over the search accepts: a product that was
\* extracted has a query, no query twice, and none that search_tiktok's own
\* rule would drop, whoever proposed it.
QueriesAreSearchable ==
  described.state \in {"dom", "done"} =>
    /\ described.queries # <<>> /\ Len(described.queries) <= MaxQueries
    /\ IsInjective(described.queries)
    /\ \A i \in DOMAIN described.queries : ValidSearchQuery(described.queries[i])
=============================================================================
