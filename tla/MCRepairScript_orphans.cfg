SPECIFICATION RepairSpec
CONSTANTS
  a = a
  j1 = j1
  w1 = w1
  Jobs = {j1}
  Tasks = {a}
  JobOf <- SoloJobOf
  Parents <- SoloParents
  Priority <- SoloPriority
  MaxRetries <- SoloRetries
  Delayed = {}
  MaxAttempts = 3
  Workers = {w1}
  MaxConcurrency = 1
  BatchSize = 1
  PromoteLimit = 1
  Refs <- SoloRefs
  Publishers = {}
  Outages = TRUE
  DbFaults = FALSE
  Recovery = FALSE
PROPERTIES
  ClearsOrphans
