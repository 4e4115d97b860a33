\* Two accounts and a cap of one upload.
SPECIFICATION Spec
CONSTANTS
  p = p
  q = q
  r = r
  x = x
  y = y
  direct = direct
  shared = shared
  nobody = nobody
  Tasks <- PairTasks
  Accounts <- PairAccounts
  AccountOf <- PairAccountOf
  RowAccount <- RowElsewhere
  Proxies = {direct, shared}
  NoProxy = direct
  ProxyOf <- AllShared
  MaxPerProxy = 2
  BurstCap = 1
  HourCap = 1
  FailedBefore = 0
  MaxTries = 1
  Operator = FALSE
  Faults = FALSE
  Timeouts = FALSE
  DenialFits = TRUE
INVARIANTS
  UploadCaps
CHECK_DEADLOCK FALSE
