\* The deployed system, with crashes and failing writes.
SPECIFICATION Spec
CONSTANTS
  a = a
  b = b
  c = c
  j1 = j1
  w1 = w1
  w2 = w2
  Jobs = {j1}
  Tasks <- ForkTasks
  JobOf <- ForkJobOf
  Parents <- ForkParents
  Priority <- ForkPriority
  MaxRetries <- ForkRetries
  Delayed = {c}
  MaxAttempts = 3
  Workers = {w1, w2}
  MaxConcurrency = 1
  BatchSize = 2
  PromoteLimit = 2
  Refs <- ForkRefs
  Publishers = {b}
  Outages = TRUE
  DbFaults = TRUE
  Recovery = FALSE
INVARIANTS
  TypeOK
  OneRunningExecution
  RunningHasExecution
  NeverAheadOfParents
  DecidesOnThePresent
  RetriesCountFailures
  BudgetLeft
  JobAgreesWithTasks
PROPERTIES
  ImplementsLifecycle
  DesertionIsFinal
