\* Two sessions of one account that end in every way.
SPECIFICATION Spec
CONSTANTS
  p = p
  q = q
  r = r
  x = x
  y = y
  direct = direct
  shared = shared
  nobody = nobody
  Tasks <- TwinTasks
  Accounts <- TwinAccounts
  AccountOf <- TwinAccountOf
  RowAccount <- RowElsewhere
  Proxies = {direct, shared}
  NoProxy = direct
  ProxyOf <- AllShared
  MaxPerProxy = 1
  BurstCap = 1
  HourCap = 1
  FailedBefore = 0
  MaxTries = 1
  Operator = FALSE
  Faults = TRUE
  Timeouts = TRUE
  DenialFits = FALSE
INVARIANTS
  TypeOK
  SlotsReleased
  NeverOvercounts
  RecordedUploadsHappened
SYMMETRY Twins
CHECK_DEADLOCK FALSE
