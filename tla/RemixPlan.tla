----------------------------- MODULE RemixPlan -----------------------------
(***************************************************************************)
(* From candidates to a remix: select_videos_handler (select_videos.py)    *)
(* and remake_video_handler (remake_video.py) of one job.  Scores carry    *)
(* random noise and clips random lengths, so both are choices here.        *)
(***************************************************************************)
EXTENDS Naturals, Sequences, FiniteSets, SequencesExt

CONSTANTS
  Candidates,     \* the `videos` of a search: Seq of [url, author, passes]
  TopN,           \* top_n
  MaxPerAuthor,   \* max_per_author
  ClipCounts,     \* _MIN_CLIPS_TOTAL .. _MAX_CLIPS_TOTAL
  ClipLengths,    \* _MIN_SEGMENT_SECONDS .. _MAX_SEGMENT_SECONDS
  MaxTotal        \* _MAX_TOTAL_SECONDS

ASSUME RemixAssumption ==
  /\ TopN \in Nat \ {0} /\ MaxPerAuthor \in Nat \ {0}
  /\ ClipCounts \subseteq Nat \ {0}
  /\ ClipLengths \subseteq Nat \ {0} /\ MaxTotal \in Nat
  /\ \A l \in ClipLengths : l <= MaxTotal

VARIABLES
  step,       \* "select", "download", "cut", "trim", "remixed", "retry", "fatal"
  ranking,    \* the candidates the author cap left, best first
  picked,     \* selected_videos
  clips       \* the segments, as <<index of the source, length>>

remixVars == <<step, ranking, picked, clips>>

RemixInit == step = "select" /\ ranking = <<>> /\ picked = <<>> /\ clips = <<>>

\* Candidates that pass the hard filters; the first of each url.
Passing == SelectSeq(Candidates, LAMBDA v : v.passes)
Distinct == {Passing[i] : i \in {j \in DOMAIN Passing :
               \A k \in 1 .. (j - 1) : Passing[k].url # Passing[j].url}}

\* How many entries of a ranking an author has.
CountOf(s, a) == Cardinality({i \in DOMAIN s : s[i].author = a})

\* Walks a ranking and keeps at most MaxPerAuthor of each author.
AuthorCapped(s) ==
  FoldLeft(LAMBDA kept, v : IF CountOf(kept, v.author) < MaxPerAuthor
                            THEN Append(kept, v) ELSE kept, <<>>, s)

Least(a, b) == IF a < b THEN a ELSE b
Greatest(a, b) == IF a < b THEN b ELSE a

\* A random sample of the top of the ranking, ranked.
PoolSize(n) == Least(n, Greatest(TopN * 2, TopN + 3))
Samples(s) ==
  LET pool == 1 .. PoolSize(Len(s)) IN
  {SetToSortSeq(chosen, LAMBDA i, j : i < j) :
     chosen \in kSubset(Least(TopN, PoolSize(Len(s))), pool)}

SelectVideos ==
  /\ step = "select"
  /\ IF Distinct = {} THEN step' = "retry" /\ UNCHANGED <<ranking, picked>>
     ELSE \E scored \in SetToSeqs(Distinct) :
            /\ ranking' = AuthorCapped(scored)
            /\ \E sample \in Samples(ranking') :
                 picked' = [i \in DOMAIN sample |-> ranking'[sample[i]]]
            /\ step' = "download"
  /\ UNCHANGED clips

\* `total` clips over n videos, the first ones one more.
DistributeClips(total, n) ==
  [i \in 1 .. n |-> (total \div n) + (IF i <= total % n THEN 1 ELSE 0)]

\* Some of the picked videos were downloaded and still exist; every clip may
\* fail to cut, and a video that is too short yields none.
CutSegments ==
  /\ step = "download"
  /\ \E valid \in SUBSET DOMAIN picked, total \in ClipCounts :
       IF valid = {} THEN step' = "fatal" /\ UNCHANGED clips
       ELSE LET sources == SetToSortSeq(valid, LAMBDA i, j : i < j)
                budget == DistributeClips(total, Len(sources)) IN
            \E cut \in [DOMAIN sources -> 0 .. total] :
              /\ \A i \in DOMAIN sources : cut[i] <= budget[i]
              /\ IF \A i \in DOMAIN sources : cut[i] = 0
                 THEN step' = "retry" /\ UNCHANGED clips
                 ELSE LET source == FlattenSeq([i \in DOMAIN sources |->
                                      [c \in 1 .. cut[i] |-> sources[i]]]) IN
                      /\ step' = "trim"
                      /\ \E length \in [DOMAIN source -> ClipLengths] :
                           clips' = [i \in DOMAIN source |-> <<source[i], length[i]>>]
  /\ UNCHANGED <<ranking, picked>>

Seconds(s) == FoldLeft(LAMBDA sum, c : sum + c[2], 0, s)

\* Drops trailing segments beyond the maximum.
Kept(s) ==
  LET fits == {n \in 0 .. Len(s) : Seconds(SubSeq(s, 1, n)) <= MaxTotal} IN
  SubSeq(s, 1, CHOOSE n \in fits : \A m \in fits : m <= n)

\* The order is random; then the list is trimmed, concatenated and finished,
\* and ffmpeg may fail.
FinishRemix ==
  /\ step = "trim"
  /\ \E order \in SetToSeqs(DOMAIN clips) :
       clips' = Kept([i \in DOMAIN order |-> clips[order[i]]])
  /\ step' \in {"remixed", "retry"}
  /\ UNCHANGED <<ranking, picked>>

RemixStep == SelectVideos \/ CutSegments \/ FinishRemix

=============================================================================
