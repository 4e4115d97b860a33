\* recover_expired_executions called on a timer.
SPECIFICATION Spec
CONSTANTS
  a = a
  b = b
  c = c
  j1 = j1
  w1 = w1
  w2 = w2
  Jobs = {j1}
  Tasks <- SoloTasks
  JobOf <- SoloJobOf
  Parents <- SoloParents
  Priority <- SoloPriority
  MaxRetries <- SoloRetries
  Delayed = {}
  MaxAttempts = 3
  Workers = {w1, w2}
  MaxConcurrency = 1
  BatchSize = 2
  PromoteLimit = 2
  Refs <- SoloRefs
  Publishers = {}
  Outages = TRUE
  DbFaults = FALSE
  Recovery = TRUE
PROPERTIES
  FencedCompletion
