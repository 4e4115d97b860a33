------------------------------ MODULE AiRouter ------------------------------
(***************************************************************************)
(* The AI provider store (core/ai_key_store.py) and the calls made with    *)
(* its keys: generate_text (core/ai_router.py) and _call_gemini_product_info *)
(* (workers/handlers/tiktok/extract_product_info.py).  The Gemini library  *)
(* has one configuration per process, set before a call and read by the    *)
(* executor thread that makes it.                                          *)
(***************************************************************************)
EXTENDS Naturals, Sequences, FiniteSets, SequencesExt

CONSTANTS
  Callers,     \* tasks that ask for a text
  Keys,        \* rows of ai_api_keys
  Faulty,      \* keys with which a call may fail; with the others it answers
  Priority,    \* of each key; a lower one goes first
  Models,      \* rows of ai_models, of one provider
  Attempts,    \* calls per candidate: _PROVIDER_RETRIES + 1, or 1
  FailureCap   \* bound of failure_count

ASSUME RouterAssumption ==
  /\ IsFiniteSet(Keys) /\ IsFiniteSet(Models)
  /\ Faulty \subseteq Keys /\ Priority \in [Keys -> Nat]
  /\ Attempts \in [Callers -> Nat \ {0}]
  /\ FailureCap \in Nat

VARIABLES
  keyOn,       \* enabled keys
  failures,    \* failure_count of each key
  modelOn,     \* enabled models
  preferred,   \* models with is_default
  configured,  \* the key the library is configured with
  line,        \* a caller's candidates
  nth,         \* the one it is at
  left,        \* calls it may still make with that candidate
  asking,      \* "no", "configured", "answered", "failed", "broken"
  mixed,       \* ghost: callers whose configuration another one replaced during their call
  astray,      \* ghost: the failed calls, <<candidate, attempt>>, of each request to which that happened
  unwritten    \* ghost: the candidates of each request whose answer could not be recorded

storeVars == <<keyOn, failures, modelOn, preferred>>
callVars == <<configured, line, nth, left, asking, mixed, astray, unwritten>>
routerVars == <<storeVars, callVars>>

RouterInit(first) ==
  /\ keyOn = Keys /\ failures = [k \in Keys |-> 0]
  /\ modelOn = Models /\ preferred = {first}
  /\ configured = CHOOSE k \in Keys : TRUE
  /\ line = [c \in Callers |-> <<>>] /\ nth = [c \in Callers |-> 0]
  /\ left = [c \in Callers |-> 0]
  /\ asking = [c \in Callers |-> "no"]
  /\ mixed = {}
  /\ astray = [c \in Callers |-> {}] /\ unwritten = [c \in Callers |-> {}]

-----------------------------------------------------------------------------
(* The store                                                               *)

\* create_model and update_model, in one transaction each.
MakeDefault(m) == preferred' = {m}

OperatorEdits ==
  /\ \/ \E m \in Models : MakeDefault(m) /\ UNCHANGED <<keyOn, failures, modelOn>>
     \/ /\ \E m \in Models : modelOn' = (modelOn \ {m}) \cup ({m} \ modelOn)
        /\ UNCHANGED <<keyOn, failures, preferred>>
     \/ /\ \E k \in Keys : keyOn' = (keyOn \ {k}) \cup ({k} \ keyOn)
        /\ UNCHANGED <<failures, modelOn, preferred>>
  /\ UNCHANGED callVars

MarkSuccess(k) == failures' = [failures EXCEPT ![k] = 0]
MarkFailure(k) == failures' = [failures EXCEPT ![k] = IF @ < FailureCap THEN @ + 1 ELSE @]

\* get_enabled_candidates: the enabled keys, by priority and the least failed
\* first, for each enabled model; models do not tell calls apart.
Before(k, l) == Priority[k] < Priority[l] \/ (Priority[k] = Priority[l] /\ failures[k] <= failures[l])
Rounds == Cardinality(modelOn)
CandidateLines ==
  {[i \in 1 .. Rounds * Len(s) |-> s[((i - 1) % Len(s)) + 1]] : s \in
     {t \in SetToSeqs(keyOn) : \A i, j \in DOMAIN t : i < j => Before(t[i], t[j])}}

-----------------------------------------------------------------------------
(* A call                                                                  *)

Configure(c, key) ==
  /\ configured' = key
  /\ mixed' = (mixed \ {c}) \cup {d \in Callers \ {c} : asking[d] = "configured" /\ key # configured}

Candidate(c) == line[c][nth[c]]

\* The candidates are read once; none is an error.
AskFor(c) ==
  \E s \in CandidateLines :
    /\ line' = [line EXCEPT ![c] = s] /\ nth' = [nth EXCEPT ![c] = 1]
    /\ left' = [left EXCEPT ![c] = Attempts[c]]
    /\ IF s = <<>> THEN asking' = [asking EXCEPT ![c] = "failed"] /\ UNCHANGED <<configured, mixed>>
       ELSE asking' = [asking EXCEPT ![c] = "configured"] /\ Configure(c, Head(s))
    /\ UNCHANGED <<storeVars, astray, unwritten>>

\* The executor thread calls with the key that is configured by then, and the
\* answer is credited to the candidate.
Answered(c) ==
  /\ asking[c] = "configured"
  /\ MarkSuccess(Candidate(c))
  /\ asking' = [asking EXCEPT ![c] = "answered"]
  /\ UNCHANGED <<keyOn, modelOn, preferred, configured, line, nth, left, mixed, astray, unwritten>>

\* The call raises, or times out.
CallFails(c) ==
  /\ asking[c] = "configured" /\ configured \in Faulty
  /\ astray' = [astray EXCEPT ![c] = @ \cup (IF c \in mixed THEN {<<nth[c], left[c]>>} ELSE {})]
  /\ UNCHANGED <<keyOn, modelOn, preferred, line, unwritten>>

TriesAgain(c) ==
  /\ CallFails(c) /\ left[c] > 1
  /\ left' = [left EXCEPT ![c] = @ - 1]
  /\ Configure(c, Candidate(c))
  /\ UNCHANGED <<failures, nth, asking>>

\* The except clause: the next candidate, if any.
PassesOver(c) ==
  /\ MarkFailure(Candidate(c))
  /\ left' = [left EXCEPT ![c] = Attempts[c]]
  /\ IF nth[c] = Len(line[c])
     THEN asking' = [asking EXCEPT ![c] = "failed"] /\ UNCHANGED <<nth, configured, mixed>>
     ELSE nth' = [nth EXCEPT ![c] = @ + 1] /\ Configure(c, line[c][nth[c] + 1]) /\ UNCHANGED asking

\* The mark itself raises inside that clause, and ends the request.
MarkRaises(c) ==
  /\ asking' = [asking EXCEPT ![c] = "broken"]
  /\ UNCHANGED <<failures, nth, left, configured, mixed>>

\* Mutant: the failed candidate ends the request.
GivesUp(c) ==
  /\ CallFails(c) /\ left[c] = 1
  /\ MarkFailure(Candidate(c))
  /\ asking' = [asking EXCEPT ![c] = "failed"]
  /\ UNCHANGED <<configured, nth, left, mixed>>

\* The last attempt with a candidate failed.
FallsBack(c) == CallFails(c) /\ left[c] = 1 /\ (PassesOver(c) \/ MarkRaises(c))

\* The answer is there, but the store does not take its mark: for the code a
\* failure of the candidate.
AnswerUnwritten(c) ==
  /\ asking[c] = "configured"
  /\ unwritten' = [unwritten EXCEPT ![c] = @ \cup {nth[c]}]
  /\ PassesOver(c) \/ MarkRaises(c)
  /\ UNCHANGED <<keyOn, modelOn, preferred, line, astray>>

RouterStep(c) == Answered(c) \/ FallsBack(c) \/ TriesAgain(c) \/ AnswerUnwritten(c)

\* The caller goes on with the answer or the error.
Forgets(c) ==
  /\ line' = [line EXCEPT ![c] = <<>>] /\ nth' = [nth EXCEPT ![c] = 0]
  /\ left' = [left EXCEPT ![c] = 0]
  /\ asking' = [asking EXCEPT ![c] = "no"]
  /\ mixed' = mixed \ {c}
  /\ astray' = [astray EXCEPT ![c] = {}] /\ unwritten' = [unwritten EXCEPT ![c] = {}]
  /\ UNCHANGED <<storeVars, configured>>

-----------------------------------------------------------------------------
(* Properties                                                              *)

\* "All configured AI providers failed" (ai_router.py:297) is true of each
\* candidate by itself: its key fails, or its answer could not be recorded, or
\* each of its attempts was made while another request replaced the library's
\* configuration.  No mishap costs a request a candidate beyond the one it was
\* calling, whatever is edited or marked meanwhile.
WorkingKeyAnswers ==
  \A c \in Callers : asking[c] = "failed" =>
    \A i \in DOMAIN line[c] :
      \/ line[c][i] \in Faulty \/ i \in unwritten[c]
      \/ \A a \in 1..Attempts[c] : <<i, a>> \in astray[c]
=============================================================================
