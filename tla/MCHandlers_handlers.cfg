\* The handlers of TikTok tasks.
SPECIFICATION Spec
CONSTANTS
  Blank = blank
  clerk = clerk
  poster = poster
  breeder = breeder
  director = director
  Contents = {one, two, three, first, home}
  Clean <- MCClean
  Ledgers = {pair, solo}
  Worths = {20}
  MaxTouches = 2
  MaxSales = 2
  MaxFlushes = 2
  Scaled = {one, first}
  Posters = {first, second}
  Gain = 5
  ViewLevels = {1000}
  Rates = {0, 1000}
  ProfitLevels = {47, 1000}
  Factors = {2000, 3000}
  DropLimit = 2
  DailyPosts = 2
  PostGap = 2
  MaxMeasures = 3
  MaxPosts = 2
  MaxClock = 3
  Clusters = {"c0", "c1", "c2", "c3"}
  Newborns = {"n0"}
  Accounts = {first, second}
  Levels = {300, 1000}
  WeakFitness = 450
  WaveFitness = 600
  BreedFitness = 800
  WeakLimit = 1
  SoftStreak = 2
  HardStreaks = {3}
  WaveAfter = 2
  WaveLength = 2
  BreedSize = 2
  Niches = {"x"}
  Boosts = {1000}
  Cap = 400
  CapRounds = 10
  MaxCycle = 4
  Ours = pair
  ContentOf <- MCContentOf
  Roles = {"IDLE", "HARVESTER"}
  RawRisks = {300, 1000}
  Restricted = 600
  HardStop = 850
  Breakdowns = {{}, {"observer"}}
  ThrottlePosts = 1
  PausePosts = 2
  PauseLoss = 40
  MaxRounds = 3
  veteran = veteran
  marshal = marshal
  Members = {first, second}
  WarmupSessions = 1
  Daring = {"engage", "upload"}
  Stride <- MCStride
  MaxPartials = 1
  BadStreak = 2
  HistoryMax = 3
  CaptchaLimit = 2
  Earned = 2
  MaxStarts = 2
  MaxUploads = 1
  BanSpike = 2
  Stickiness = 1
  AlikeMin = 1
  MaxSessions = 4
  Asking = {first}
  oracle = oracle
  SeriesLength = 10
  MinSamples = 2
  Fading <- MCFading
  MaxAge = 1
  MaxCycles = 2
  MaxExposures = 3
  MaxLooks = 4
  analyst = analyst
  Angles = {one, two, three}
  RawScores = {550, 900}
  Keep = 2
  Soft = 5
  Hard = 10
  ScaleAfter = 1
  SaturateAfter = 1
  MemorySize = 1
  MaxUses = 11
  MaxTests = 2
  MaxReports = 2
  reviewer = reviewer
  Paths = {"a", "b"}
  NoPath = "none"
  MaxRenders = 2
  MaxAttempts = 2
  pair = pair
  scout = scout
  writer = writer
  good = good
  bad = bad
  large = large
  small = small
  studio = studio
  keeper = keeper
  reader = reader
  MaxOffers = 1
  MaxRuns = 1
  Words <- MCVocabulary
  Nouns = {"khan", "ao"}
  Digits = {"4"}
  Stops = {"va"}
  Blanks = {"item"}
  Longish = {"khan", "serumx"}
  Wordy = {"serumx"}
  Phrases <- MCPhrases
  Titles <- MCTitles
  AiQueries <- MCAiQueries
  AiKeywords <- MCAiKeywords
  solo = solo
  shopper = shopper
  finder = finder
  page = page
  other = other
  phone = phone
  noAccount = noAccount
  noProduct = noProduct
  product = product
  one = one
  two = two
  three = three
  first = first
  second = second
  blank = blank
  home = home
  Phone = phone
  Pages = {page}
  Things <- MCThings
  Downloads <- MCDownloads
  Selected <- MCSelected
  PageOf <- MCPageOf
  NoAccount = noAccount
  Providers = {"auto", "web_only", "ytdlp_only", "browser_first", "mobile_first"}
  Searches = {finder}
  QueriesOf <- MCQueriesOf
  ProductOf <- MCProductOf
  NoProduct = noProduct
  SearchPageOf <- MCSearchPageOf
  HomePage = home
  LinksOn <- MCLinksOn
  Watchable = {one, two, three}
  Views <- MCViews
  Relevant = {two}
  AuthorOf <- MCAuthorOf
  PerAuthor = 1
  QualityFilters = TRUE
  RequireLogin = TRUE
  MaxResults = 2
  ScrollMax = 3
  StagnantLimit = 1
  MinRounds = 2
  ShopEnabled = TRUE
  Candidates <- MCCandidates
  TopN = 2
  MaxPerAuthor = 1
  ClipCounts = {2, 3}
  ClipLengths = {1, 2}
  MaxTotal = 3
  Callers = {scout, writer}
  Keys = {good, bad}
  Faulty = {bad}
  Priority <- MCPriority
  Models = {large, small}
  Attempts <- MCAttempts
  FailureCap = 1
  Extractions = {scout}
  Writers = {writer}
  ProductAt <- MCProductAt
  InfoPageOf <- MCInfoPageOf
INVARIANTS
  CreditMatchesSales
  StoppedForGood
  QuietAfterBlock
  RightVideo
  QueriesAreSearchable
  UploadsAreReviewed
  WorkingKeyAnswers
PROPERTIES
  
  SilencedForWeakness
  ExcessLastsACycle
CHECK_DEADLOCK FALSE
