----------------------------- MODULE Attribution -----------------------------
(***************************************************************************)
(* What a content earned: clicks and sales recorded under its tracking     *)
(* code, the flush that attributes the pending sales (70 % to the last     *)
(* click, 30 % shared by the others), and the smoothed profit score        *)
(* (core/attribution_engine.py, attribution_store.py, profit_engine.py,    *)
(* profit_store.py). The stores are SQLite files that several processes    *)
(* share, each behind a cache of its own. A content stands for its id and  *)
(* niche; scores are thousandths.                                          *)
(***************************************************************************)
EXTENDS Integers, Sequences, FiniteSets, Functions, FiniteSetsExt

CONSTANTS
  Contents,            \* content ids
  Clean,               \* Contents -> Contents: the id that survives in a tracking code
  Ledgers,             \* processes that use the stores
  Worths,              \* revenue of a sale, 70 % of which is a whole number
  MaxTouches, MaxSales, MaxFlushes   \* bounds: rows of the two tables, flushes

ASSUME CleanIsFinal == \A c \in Contents : Clean[c] \in Contents /\ Clean[Clean[c]] = Clean[c]

VARIABLES
  touches,             \* table touches: how many of each content; they differ in nothing that counts
  sales,               \* table conversions
  credit,              \* table attr_results
  flush,               \* what each process holds of a flush_to_profit_engine under way
  seen,                \* the touches a process has cached (key tc:<content>)
  book,                \* table profit_records
  bookSeen,            \* the records a process has cached
  taken,               \* ghost: the sales some flush has taken up
  again,               \* ghost: a sale was taken up by two flushes
  lost,                \* ghost: credit whose write SQLite refused
  flushes              \* bound: flushes begun

ledgerVars == <<touches, sales, credit, flush, seen, book, bookSeen, taken, again, lost, flushes>>

NotCached == -1
NoRecord == [score |-> 0, updates |-> -1]
NoCredit == [clicks |-> 0, sold |-> 0, last |-> 0, assist |-> 0]
NewRecord == [score |-> 500, updates |-> 0]
NoFlush == [step |-> "idle", ids |-> {}, acc |-> <<>>]

LedgerInit ==
  /\ touches = [c \in Contents |-> 0] /\ sales = <<>>
  /\ credit = [c \in Contents |-> NoCredit]
  /\ flush = [w \in Ledgers |-> NoFlush]
  /\ seen = [w \in Ledgers |-> [c \in Contents |-> NotCached]]
  /\ book = [c \in Contents |-> NewRecord]
  /\ bookSeen = [w \in Ledgers |-> [c \in Contents |-> NoRecord]]
  /\ taken = {} /\ again = FALSE /\ lost = [c \in Contents |-> 0] /\ flushes = 0

SumOf(f, S) == FoldFunctionOnSet(+, 0, f, S)

-----------------------------------------------------------------------------
(* Clicks and sales                                                        *)

\* generate_tracking_code writes the id without ':' and '/', parse_tracking_code
\* reads that one back.
CodeOf(c) == Clean[c]

\* insert_touch drops a cached result, not the cached touches (key tc:).
RecordClick(c) ==
  /\ SumOf(touches, Contents) < MaxTouches
  /\ touches' = [touches EXCEPT ![CodeOf(c)] = @ + 1]
  /\ UNCHANGED <<sales, credit, flush, seen, book, bookSeen, taken, again, lost, flushes>>

RecordConversion(c, worth) ==
  /\ Len(sales) < MaxSales
  /\ sales' = Append(sales, [content |-> CodeOf(c), worth |-> worth, attributed |-> FALSE])
  /\ UNCHANGED <<touches, credit, flush, seen, book, bookSeen, taken, again, lost, flushes>>

-----------------------------------------------------------------------------
(* The profit of a content                                                 *)

\* _sigmoid of the margin, at one margin on each side of break-even; without
\* cost the margin is that of a division by 1e-6.
RawProfit(revenue, cost) ==
  CASE cost = 0 -> IF revenue = 0 THEN 500 ELSE 1000
    [] revenue = 0 -> 47
    [] revenue > 0 /\ revenue < cost -> 216
    [] revenue = cost -> 500
    [] OTHER -> 895

Smoothed(old, raw) ==
  LET alpha == IF raw >= 700 THEN 4 ELSE 2 IN (alpha * raw + (10 - alpha) * old) \div 10

\* update_profit starts from the cached record if this process has a fresh one.
KnownRecord(w, c) == IF bookSeen[w][c] = NoRecord THEN book[c] ELSE bookSeen[w][c]

UpdatedRecord(rec, revenue, cost) ==
  [score |-> Smoothed(rec.score, RawProfit(revenue, cost)), updates |-> rec.updates + 1]

\* Both writes of ProfitStore.set: a refused one still updates the cache.
UpdateProfit(w, c, revenue, cost) ==
  LET rec == UpdatedRecord(KnownRecord(w, c), revenue, cost) IN
  /\ book' \in {book, [book EXCEPT ![c] = rec]}
  /\ bookSeen' = [bookSeen EXCEPT ![w][c] = rec]

-----------------------------------------------------------------------------
(* The flush                                                               *)

Pending == {i \in DOMAIN sales : ~sales[i].attributed}

\* get_touches_by_content: cached, or read and cached.
TouchesOf(w, c) == IF seen[w][c] = NotCached THEN touches[c] ELSE seen[w][c]

\* _attribute_conversion, summed for its content. A sale nobody clicked for
\* is a last click as well.
ShareOf(n, worth) ==
  IF n <= 1 THEN [clicks |-> 1, sold |-> 1, last |-> worth, assist |-> 0]
  ELSE LET each == (worth * 3) \div (10 * (n - 1))
       IN [clicks |-> n, sold |-> 1, last |-> (worth * 7) \div 10, assist |-> (n - 1) * each]

\* The floats of the code split a sale up to rounding; whole numbers do so
\* when every share is one.
ASSUME LedgerAssumption ==
  /\ IsFiniteSet(Contents) /\ MaxTouches \in Nat /\ Worths \subseteq Nat
  /\ \A n \in 0..MaxTouches, worth \in Worths : ShareOf(n, worth).last + ShareOf(n, worth).assist = worth

Plus(a, b) == [k \in DOMAIN a |-> a[k] + b[k]]
CreditOf(w, ids, c) ==
  LET share(i) == ShareOf(TouchesOf(w, c), sales[i].worth)
  IN [k \in DOMAIN NoCredit |-> SumOf([i \in ids |-> share(i)[k]], ids)]

TakePending(w) ==
  /\ flush[w].step = "idle" /\ Pending # {}
  /\ flushes < MaxFlushes /\ flushes' = flushes + 1
  /\ LET sold == {sales[i].content : i \in Pending}
         ofContent(c) == {i \in Pending : sales[i].content = c}
     IN /\ flush' = [flush EXCEPT ![w] =
             [step |-> "write", ids |-> Pending, acc |-> [c \in sold |-> CreditOf(w, ofContent(c), c)]]]
        /\ seen' = [seen EXCEPT ![w] = [c \in Contents |-> IF c \in sold THEN TouchesOf(w, c) ELSE @[c]]]
  /\ taken' = taken \cup Pending
  /\ again' = (again \/ Pending \cap taken # {})
  /\ UNCHANGED <<touches, sales, credit, book, bookSeen, lost>>

\* upsert_attr_result, then update_profit with the revenue of this flush alone;
\* a statement that SQLite refuses twice is given up in silence.
WriteCredit(w, costs) ==
  /\ flush[w].step = "write"
  /\ \E c \in DOMAIN flush[w].acc :
       LET got == flush[w].acc[c]
           left == DOMAIN flush[w].acc \ {c}
       IN /\ \/ credit' = [credit EXCEPT ![c] = Plus(@, got)] /\ UNCHANGED lost
             \/ lost' = [lost EXCEPT ![c] = @ + got.last + got.assist] /\ UNCHANGED credit
          /\ UpdateProfit(w, c, got.last + got.assist, IF c \in DOMAIN costs THEN costs[c] ELSE 0)
          /\ flush' = [flush EXCEPT ![w] = [step |-> IF left = {} THEN "mark" ELSE "write", ids |-> @.ids,
                                             acc |-> Restrict(@.acc, left)]]
  /\ UNCHANGED <<touches, sales, seen, taken, again, flushes>>

\* Mutant: the sales are marked while their credit is still being written.
MarkEarly(w) ==
  /\ flush[w].step # "idle"
  /\ sales' = [i \in DOMAIN sales |-> IF i \in flush[w].ids THEN [sales[i] EXCEPT !.attributed = TRUE] ELSE sales[i]]
  /\ flush' = [flush EXCEPT ![w].step = IF @ = "mark" THEN "idle" ELSE @]
  /\ UNCHANGED <<touches, credit, seen, book, bookSeen, taken, again, lost, flushes>>

\* mark_attributed, refused or not.
MarkAttributed(w) ==
  /\ flush[w].step = "mark"
  /\ sales' \in {sales, [i \in DOMAIN sales |-> IF i \in flush[w].ids THEN [sales[i] EXCEPT !.attributed = TRUE]
                                                ELSE sales[i]]}
  /\ flush' = [flush EXCEPT ![w] = NoFlush]
  /\ UNCHANGED <<touches, credit, seen, book, bookSeen, taken, again, lost, flushes>>

-----------------------------------------------------------------------------
(* The process ends; its cached rows grow old                              *)

LedgerDies(w) ==
  /\ flush' = [flush EXCEPT ![w] = NoFlush]
  /\ seen' = [seen EXCEPT ![w] = [c \in Contents |-> NotCached]]
  /\ bookSeen' = [bookSeen EXCEPT ![w] = [c \in Contents |-> NoRecord]]
  /\ UNCHANGED <<touches, sales, credit, book, taken, again, lost, flushes>>

CacheExpires(w) ==
  /\ \/ /\ seen' = [seen EXCEPT ![w] = [c \in Contents |-> NotCached]] /\ UNCHANGED bookSeen
     \/ /\ bookSeen' = [bookSeen EXCEPT ![w] = [c \in Contents |-> NoRecord]] /\ UNCHANGED seen
  /\ UNCHANGED <<touches, sales, credit, flush, book, taken, again, lost, flushes>>

\* get_revenue
RevenueOf(c) == credit[c].last + credit[c].assist

LedgerStep(w) ==
  \/ TakePending(w)
  \/ WriteCredit(w, <<>>)
  \/ MarkAttributed(w)
  \/ LedgerDies(w)
  \/ CacheExpires(w)

LedgerNext ==
  \/ \E c \in Contents : RecordClick(c) \/ \E worth \in Worths : RecordConversion(c, worth)
  \/ \E w \in Ledgers : LedgerStep(w)

-----------------------------------------------------------------------------
(* Properties                                                              *)

WorthOf(ids, c) == SumOf([i \in DOMAIN sales |-> sales[i].worth], {i \in ids : sales[i].content = c})

\* What a content is credited with (and what SQLite refused to write down)
\* covers its sales that are marked attributed, whatever dies between the
\* writes; and unless two flushes took the same sale, it never exceeds the
\* sales taken up: a last click and its assists share one revenue.
CreditMatchesSales ==
  \A c \in Contents :
    LET credited == RevenueOf(c) + lost[c]
    IN /\ credited >= WorthOf({i \in DOMAIN sales : sales[i].attributed}, c)
       /\ ~again => credited <= WorthOf(taken, c)

=============================================================================
