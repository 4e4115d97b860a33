\* The services and engines beside the task queue.
SPECIFICATION Spec
CONSTANTS
  top = top
  mid = mid
  low = low
  fan = fan
  fresh = fresh
  Contents <- MCContents
  WinCycles = 2
  FailCycles = 2
  ScaleCycles = 3
  DecayCycles = 2
  MaxCycles = 9
  MaxDays = 3
  PostAccounts = {fan, fresh}
  WarmupEnabled = TRUE
  StageDays <- MCStageDays
  Budgets = {1, 5}
  Clips = {top}
  Platforms = {"tiktok", "reels"}
  FreePlatforms = 0
  WornPlatforms = 1
  Ration = 50
  MaxDecisions = 5
  Niches = {top, mid, low}
  Graded = {fan}
  Week = 3
  PauseTime = 2
  FreezeTime = 2
  BoostTime = 1
  GateSettings <- MCGateSettings
  MaxLosses = 4
  OperatorWords = {"boost", "restrict"}
  MaxRulings = 2
  Minds = {fan}
  Suspension = 2
  RestNeeded = 1
  DecayPerTick = 60
  Efforts = {0, 80}
  Reports <- MCReports
  Trusted = {80, 100}
  MaxEvents = 4
  guard = guard
  user = user
  guest = guest
  poster = poster
  planner = planner
  clerk = clerk
  desk = desk
  laptop = laptop
  gold = gold
  item1 = item1
  item2 = item2
  job1 = job1
  job2 = job2
  fanPage = fanPage
  noPage = noPage
  plan1 = plan1
  plan2 = plan2
  login1 = login1
  login2 = login2
  Licenses = {gold}
  Machines = {desk, laptop}
  Typo = typo
  Seats <- MCSeats
  Requests = {guard, user, guest}
  MachineOf <- MCMachineOf
  Grace = 1
  Items = {item1, item2}
  Score <- MCScore
  AutoApprove = FALSE
  Jobs = {job1, job2}
  PostPages = {fanPage}
  NoPage = noPage
  PerCycle = 2
  PerTick = 2
  PerDay = 2
  Uploads = 2
  FailLimit = 2
  MaxMishaps = 1
  Plans = {plan1, plan2}
  Gap = 1
  Day = 2
  UploadGap <- MCUploadGap
  WarmUp = 1
  RampUp = 2
  Cooldown = 1
  Severe = 2
  Orders = {"UPLOAD"}
  StaleAfter = 1
  MaxStops = 1
  Countries = {"VN", "US"}
  Local = "local"
  MaxSalts = 1
  MaxBoots = 1
  MaxEdits = 2
  Logins = {login1, login2}
  VerifyLogin = TRUE
INVARIANTS
  RoutedOnMerit
  RecoveryTrumps
  PauseHolds
  SeatsRespected
  TrustIsBounded
  ReviewDecides
  BlockIsRespected
  DeviceIsStable
PROPERTIES
  SuspensionHolds
  PlanIsSound
  SessionsSpaced
CHECK_DEADLOCK FALSE
