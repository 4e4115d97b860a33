\* Two tasks of an account with three failures.
SPECIFICATION Spec
CONSTANTS
  p = p
  q = q
  r = r
  x = x
  y = y
  direct = direct
  shared = shared
  nobody = nobody
  Tasks <- TwinTasks
  Accounts <- TwinAccounts
  AccountOf <- TwinAccountOf
  RowAccount <- RowFromPayload
  Proxies = {direct, shared}
  NoProxy = direct
  ProxyOf <- AllShared
  MaxPerProxy = 2
  BurstCap = 2
  HourCap = 2
  FailedBefore = 3
  MaxTries = 1
  Operator = FALSE
  Faults = FALSE
  Timeouts = FALSE
  DenialFits = TRUE
PROPERTIES
  BanStands
CHECK_DEADLOCK FALSE
