\* The only publish task of an account.
SPECIFICATION Spec
CONSTANTS
  p = p
  q = q
  r = r
  x = x
  y = y
  direct = direct
  shared = shared
  nobody = nobody
  Tasks <- SoloTasks
  Accounts <- TwinAccounts
  AccountOf <- SoloAccountOf
  RowAccount <- RowFromPayload
  Proxies = {direct, shared}
  NoProxy = direct
  ProxyOf <- AllShared
  MaxPerProxy = 1
  BurstCap = 2
  HourCap = 2
  FailedBefore = 0
  MaxTries = 1
  Operator = FALSE
  Faults = FALSE
  Timeouts = FALSE
  DenialFits = TRUE
PROPERTIES
  RefusedForAnother
CHECK_DEADLOCK FALSE
