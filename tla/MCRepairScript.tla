--------------------------- MODULE MCRepairScript ---------------------------
(* One task, one worker and the repair script.                             *)
EXTENDS RepairScript, TLC

CONSTANTS a, j1, w1

SoloJobOf == a :> j1
SoloParents == a :> {}
SoloPriority == a :> 0
SoloRetries == a :> 2
SoloRefs == a :> {}
=============================================================================
