SPECIFICATION MCSpec
CHECK_DEADLOCK FALSE
CONSTANTS
  Maps = {"root", "leaf"}
  Pages = {"p1"}
  MapDoc <- MCMapDoc
  Norm <- MCNorm
  BlockedPages = {}
  MapWorkers = {"v"}
  WorkerID <- MCWorkerID
  MapBatch = 2
  MaxTries = 2
  MapDepth = 4
  MaxMapFaults = 1
  ParserURLs = 2
  ParserSitemaps = 2
  ParserDepth = 3
  ParserSize = 20
  Reqs = {"s1", "s2"}
  RawQueries = {"q1"}
  Primaries = {"q1"}
  PrimaryOf <- MCPrimaryOf
  Respelled <- MCRespelled
  AskedLimits = {2, 3}
  DefaultLimit = 2
  MaxLimit = 3
  BackendMax = 5
  IndexHits <- MCIndexHits
  PerHost = 2
  SlotCap = 2
  BackendCap = 1
  CacheCap = 1
  MaxChanges = 0
  None = None
PROPERTIES
  SitemapsSettle
  EveryRequestAnswered
  EventuallyOut
  EventuallyDone
