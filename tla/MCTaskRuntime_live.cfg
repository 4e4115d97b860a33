\* Nothing breaks: every job ends.
SPECIFICATION FairSpec
CONSTANTS
  a = a
  b = b
  c = c
  j1 = j1
  w1 = w1
  w2 = w2
  Jobs = {j1}
  Tasks <- ForkTasks
  JobOf <- ForkJobOf
  Parents <- ForkParents
  Priority <- ForkPriority
  MaxRetries <- ForkRetries
  Delayed = {c}
  MaxAttempts = 2
  Workers = {w1, w2}
  MaxConcurrency = 1
  BatchSize = 2
  PromoteLimit = 2
  Refs <- ForkRefs
  Publishers = {}
  Outages = FALSE
  DbFaults = FALSE
  Recovery = FALSE
PROPERTIES
  JobSettles
CHECK_DEADLOCK FALSE
