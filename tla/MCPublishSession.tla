-------------------------- MODULE MCPublishSession --------------------------
(* Instances of PublishSession for TLC.                                    *)
EXTENDS PublishSession, TLC

CONSTANTS p, q, r, x, y, direct, shared, nobody

\* Two tasks of one account.
TwinTasks == {p, q}
TwinAccounts == {x}
TwinAccountOf == p :> x @@ q :> x

\* They differ in nothing, so safety is checked up to their exchange.
Twins == Permutations(TwinTasks)

\* Two accounts with a task each.
PairTasks == {p, r}
PairAccounts == {x, y}
PairAccountOf == p :> x @@ r :> y

\* One task.
SoloTasks == {p}
SoloAccountOf == p :> x

\* Every account behind one proxy.
AllShared == [n \in Accounts |-> shared]

\* Rows that carry the payload's account, as create_job fills them, and rows
\* filed under another account.
RowFromPayload == AccountOf
RowElsewhere == [t \in Tasks |-> nobody]
=============================================================================
