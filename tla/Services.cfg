SPECIFICATION MCSpec
SYMMETRY Symmetry
CHECK_DEADLOCK FALSE
CONSTANTS
  People = {"ann"}
  NoPassword = none
  Passwords = {short, d1, d2}
  Weak = {short}
  Clients = {c1, c2}
  MaxFailures = 2
  SessionCap = 1
  WebmasterCap = 1
  MaxSessions = 2
  MaxOpened = 3
  MaxGuesses = 4
  Owners = {c1, c2}
  Hosts = {"h1", "h2"}
  PublicHosts = {"h1"}
  Methods = {"DNS_TXT", "META_TAG"}
  SiteLimit = 1
  MaxPending = 1
  MaxTokens = 2
  Maps = {"root", "leaf"}
  Pages = {"p1", "p2"}
  MapDoc <- MCMapDoc
  Norm <- MCNorm
  BlockedPages = {"p2"}
  MapWorkers = {v1, v2}
  WorkerID <- MCWorkerID
  MapBatch = 2
  MaxTries = 2
  MapDepth = 4
  MaxMapFaults = 1
  ParserURLs = 2
  ParserSitemaps = 2
  ParserDepth = 3
  ParserSize = 20
  Customers = {"u"}
  Catalogue <- MCCatalogue
  PaymentIds = {d1, d2}
  Amounts = {1, 2}
  Consumers = {c1, c2}
  FreeLimit = 1
  MaxSubscriptions = 2
  MaxUsage = 3
  ClientKeys = {d1, d2}
  GuardRequests = {c1, c2}
  Rate = 1
  Burst = 2
  MaxClients = 1
  IdleTTL = 3
  MaxStall = 1
  RingSize = 3
  Latencies = {1, 2, 5}
  ClockBound = 5
  ObservedBound = 5
  Versions = {x1, x2, x3}
  MapCommands = {c1, c2}
  WordSize = 16
  MaxSwitches = 3
  MaxRuins = 1
  Migrators = {"m1", "m2", "m3", "m4"}
  Release <- MCRelease
  LegacyVersions = {1, 2, 3}
  MaxMigratorDeaths = 2
  Domains = {1}
  Snapshots <- MCSnapshots
  HitCap = 1
  BucketWeight = 21
  MinBuckets = 2
  DayTicks = 3
  WeekTicks = 3
  HourTicks = 2
  PauseTicks = 1
  BoostTicks = 2
  FeedbackLimit = 1
  Materializers = {w1}
  MaxTick = 3
  HubPages = {1, 2}
  Builders = {c1, c2}
  PageTypeOf <- MCPageType
  Evidences <- MCEvidences
  BatchSize = 2
  MaxVersion = 2
  MaxBuildFaults = 1
  AdminSessions = {c1, c2}
  PreviewTokens = {d1, d2}
  MaxReviewVersion = 3
  MaxStamp = 4
INVARIANTS
  AccountsBounded
  VerifiedByOwnProof
  FetchedIsStored
  BillingIsExact
  PlatformHolds
  PagesFollowHistory
  ConsoleIsSafe
PROPERTY
  BoostsAreBounded
