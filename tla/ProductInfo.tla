---------------------------- MODULE ProductInfo ----------------------------
(***************************************************************************)
(* extract_product_info_handler (extract_product_info.py), which reads a   *)
(* Shop product in the account's browser page and lets the AI refine it,   *)
(* and generate_content_handler (generate_content.py), which writes a      *)
(* caption for it and caches it.                                           *)
(***************************************************************************)
EXTENDS Devices, AiRouter

CONSTANTS
  Extractions,  \* extract_product_info tasks with a Shop product
  Writers,      \* generate_content tasks with USE_AI_CAPTION=true
  ProductAt,    \* the product page of an extraction
  InfoPageOf    \* the page of its account's AdsPower profile

ASSUME InfoAssumption ==
  /\ Extractions \cap Writers = {} /\ Callers = Extractions \cup Writers
  /\ ProductAt \in [Extractions -> Things]

VARIABLES
  reading,   \* where a handler stands
  title      \* the page the title was read from, or "none"

infoVars == <<reading, title>>

InfoInit ==
  /\ reading = [c \in Callers |-> "waiting"]
  /\ title = [c \in Callers |-> <<"none">>]

ReadingOf(c, place) == reading' = [reading EXCEPT ![c] = place]

\* extract_tiktok_shop_product_info: no profile, or the product's page.
OpenShop(c) ==
  /\ reading[c] = "waiting" /\ c \in Extractions
  /\ \/ Opens(InfoPageOf[c], ProductAt[c], c) /\ ReadingOf(c, "looking")
     \/ UNCHANGED deviceVars /\ ReadingOf(c, "fetching")
  /\ UNCHANGED <<title, routerVars>>

\* The page's title, a page without one (fatal), or no page at all.  A
\* title that yields no query is fatal too.
ReadShop(c) ==
  /\ reading[c] = "looking"
  /\ \/ /\ title' = [title EXCEPT ![c] = <<showing[InfoPageOf[c]], c \notin crossed>>]
        /\ ReadingOf(c, "refining")
     \/ UNCHANGED title /\ (ReadingOf(c, "fatal") \/ ReadingOf(c, "fetching"))
  /\ Closes(InfoPageOf[c], c)
  /\ UNCHANGED routerVars

\* The request with what was read, fetched, or (a writer) extracted before.
AskAi(c) ==
  /\ \/ reading[c] \in {"refining", "fetching"}
     \/ reading[c] = "waiting" /\ c \in Writers
  /\ asking[c] = "no"
  /\ AskFor(c)
  /\ ReadingOf(c, IF reading[c] = "refining" THEN "refined" ELSE "asked")
  /\ UNCHANGED <<title, deviceVars>>

AiAnswers(c) ==
  /\ reading[c] \in {"refined", "asked"}
  /\ RouterStep(c)
  /\ UNCHANGED <<infoVars, deviceVars>>

\* With a title of the page the AI's answer only refines the result.
Refine(c) ==
  /\ reading[c] = "refined" /\ asking[c] \in {"answered", "failed", "broken"}
  /\ ReadingOf(c, "done")
  /\ Forgets(c)
  /\ UNCHANGED <<title, deviceVars>>

\* Without one a failure, an unknown title or too few keywords are retried,
\* and an answer without a query is fatal.
TakeAnswer(c) ==
  /\ reading[c] = "asked" /\ asking[c] \in {"answered", "failed", "broken"}
  /\ IF asking[c] # "answered" THEN ReadingOf(c, "retry")
     ELSE \E place \in IF c \in Extractions THEN {"done", "retry", "fatal"} ELSE {"done", "retry"} :
            ReadingOf(c, place)
  /\ Forgets(c)
  /\ UNCHANGED <<title, deviceVars>>

InfoStep(c) ==
  \/ OpenShop(c) \/ ReadShop(c) \/ AskAi(c) \/ AiAnswers(c) \/ Refine(c) \/ TakeAnswer(c)

=============================================================================
