\* A session near the thresholds, executed up to four times, and an operator who edits its account.
SPECIFICATION FairSpec
CONSTANTS
  p = p
  q = q
  r = r
  x = x
  y = y
  direct = direct
  shared = shared
  nobody = nobody
  Tasks <- SoloTasks
  Accounts <- TwinAccounts
  AccountOf <- SoloAccountOf
  RowAccount <- RowElsewhere
  Proxies = {direct, shared}
  NoProxy = direct
  ProxyOf <- AllShared
  MaxPerProxy = 1
  BurstCap = 2
  HourCap = 2
  FailedBefore = 3
  MaxTries = 4
  Operator = TRUE
  Faults = FALSE
  Timeouts = FALSE
  DenialFits = TRUE
PROPERTIES
  RiskGoverns
  SessionEnds
CHECK_DEADLOCK FALSE
