--------------------------- MODULE MCTaskRuntime ---------------------------
(* Instances of TaskRuntime for TLC.                                       *)
EXTENDS TaskRuntime, TLC

CONSTANTS a, b, c, j1, w1, w2

\* One job: b depends on a.
ChainTasks == {a, b}
ChainJobOf == a :> j1 @@ b :> j1
ChainParents == a :> {} @@ b :> {a}
ChainPriority == a :> 0 @@ b :> 1
ChainRetries == a :> 2 @@ b :> 2
ChainRefs == a :> {} @@ b :> {}

\* One job: b depends on a and reads its result; c reads it too but declares
\* no dependency (create_job accepts that), and outranks both.
ForkTasks == {a, b, c}
ForkJobOf == a :> j1 @@ b :> j1 @@ c :> j1
ForkParents == a :> {} @@ b :> {a} @@ c :> {}
ForkPriority == a :> 0 @@ b :> 0 @@ c :> 1
ForkRetries == a :> 2 @@ b :> 1 @@ c :> 2
ForkRefs == a :> {} @@ b :> {a} @@ c :> {a}

\* One task, over which a lapsed worker and its successor race.
SoloTasks == {a}
SoloJobOf == a :> j1
SoloParents == a :> {}
SoloPriority == a :> 0
SoloRetries == a :> 2
SoloRefs == a :> {}
=============================================================================
