CONSTANTS
    url = url
    url2 = url2
    w1 = w1
    idA = idA
    s1 = s1
    NoId = NoId
    Entities = {url, url2}
    Workers = {w1}
    Ids = {idA}
    TypeOf <- UrlTypeOf
    Types <- WebOnly
    Serves <- Indexer
    IdOf <- SoleId
    UrlId <- UrlIds
    Generic = {}
    Texts = {"page"}
    Sites = {s1}
    MaxExtracted = 1
    MaxVersion = 1
    MaxAttempts = 2
    BatchSize = 1
    RebuildLimit = 1
    MaxRebuilds = 1
    MaxFailures = 1
    MaxFaults = 0
SPECIFICATION RebuildSpec
INVARIANTS RebuildLosesNothing
