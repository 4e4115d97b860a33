\* Two accounts behind a proxy with room for one, and the TASK_TIMEOUT that start_backend sets.
SPECIFICATION FairSpec
CONSTANTS
  p = p
  q = q
  r = r
  x = x
  y = y
  direct = direct
  shared = shared
  nobody = nobody
  Tasks <- PairTasks
  Accounts <- PairAccounts
  AccountOf <- PairAccountOf
  RowAccount <- RowFromPayload
  Proxies = {direct, shared}
  NoProxy = direct
  ProxyOf <- AllShared
  MaxPerProxy = 1
  BurstCap = 1
  HourCap = 1
  FailedBefore = 0
  MaxTries = 2
  Operator = FALSE
  Faults = FALSE
  Timeouts = FALSE
  DenialFits = FALSE
PROPERTIES
  SoftDenyIsSoft
CHECK_DEADLOCK FALSE
