SPECIFICATION MCSpec
SYMMETRY Symmetry
CHECK_DEADLOCK FALSE
CONSTANTS
  Pages = {p1, p2}
  NoPage = NoPage
  Crawlers = {r1, r2}
  Nobody = Nobody
  Priorities = {1, 100}
  WebmasterPriority = 100
  MaxAttempts = 2
  BatchSize = 2
  MaxRows = 2
  MaxCrashes = 1
  SpelledURLs <- MCSpelledURLs
  PathSegments <- MCPathSegments
  Params <- MCParams
  Tracking = {"utm"}
  SessionNames = {"sid"}
  SearchNames = {"q"}
  KeyRank <- MCKeyRank
  TrapLimits <- MCTrapLimits
  RobotGroups <- MCRobotGroups
  DomainRows <- MCDomainRows
  FeedbackRows <- MCFeedbackRows
  BoostCap = 3
  PathBound = 6
  QueryBound = 2
  DomainBound = 2
  FeedbackBound = 2
  ParserURLs = 1
  ParserSitemaps = 1
  ParserDepth = 3
  ParserSize = 9
  XmlNames = {"urlset", "sitemapindex", "url", "sitemap", "loc"}
  XmlTexts = {"", "a"}
  DocBound = 9
  NestBound = 4
  FetchURLs <- MCFetchURLs
  HostNames = {"h", "g"}
  Addresses = {"pub", "priv"}
  Forbidden = {"priv"}
  FetchRedirects = 1
  FetchRetries = 1
  RetryBase = 1
  RetryMax = 4
  RetryAfters = {2, 9}
  MaxNodes = 4
  MaxTextChars = 3
  MaxStructuredItems = 1
  MaxItemChars = 2
  MaxChars = 3
  MaxPassages = 4
  NodeKinds <- MCNodeKinds
  PageBound = 4
  HeaderBound = 2
  WordBound = 4
  WordLengths = {1, 2, 3, 7}
  Reqs = {r1, r2}
  RawQueries = {"q1", "Q1"}
  Primaries = {"q1"}
  PrimaryOf <- MCPrimaryOf
  Respelled <- MCRespelled
  AskedLimits = {1, 2, 3}
  DefaultLimit = 2
  MaxLimit = 3
  BackendMax = 5
  IndexHits <- MCIndexHits
  PerHost = 2
  SlotCap = 2
  BackendCap = 1
  CacheCap = 1
  MaxChanges = 1
  TopK = 2
  Discount <- MCDiscount
  Thresholds <- MCThresholds
  JudgedURLs <- MCJudgedURLs
  Grades = {0, 1, 3}
  GoldenBound = 2
  JudgmentBound = 2
  ResultBound = 2
  SignalGrid <- MCSignalGrid
  Findings <- MCFindings
  VerifiedHosts = {"a", "c"}
  AskedQueries <- MCAskedQueries
  ShortWords = {"x"}
  ResultCount = 4
  MinText = 2
  MinClaim = 2
  MaxText = 4
  MaxClaim = 3
  MaxSources = 2
  MinConfidence = 0
  Hours = 2
  MaxAsked = 1
  IndexedPlaces <- MCPlaces
  GeoQueries <- MCGeoQueries
  Viewports <- MCViewports
  SourceBoost <- MCSourceBoost
  DistancePenalty <- MCDistancePenalty
  CandidateCap = 3
  MaxCandidates = 3
  Absent = absent
  GeoDefault = 1
  GeoLimit = 2
  RadiusDefault = 4
  RadiusMax = 5
  LatMax = 5
  LonMax = 6
  IdCap = 1
  PlaceBound = 3
INVARIANTS
  OneActivePerPage
  PageCrawledOnce
  
  ParsedIsListed
  FetchIsContained
  ExtractionIsFaithful
  SharingIsSound
  QualityIsSound
  AnswerIsGrounded
  PlacesAreAccounted
PROPERTY
  ContractSpec
