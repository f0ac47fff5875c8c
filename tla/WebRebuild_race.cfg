CONSTANTS
    url = url
    url2 = url2
    w1 = w1
    idA = idA
    s1 = s1
    NoId = NoId
    Entities = {url}
    Workers = {w1}
    Ids = {idA}
    TypeOf <- OneTypeOf
    Types <- WebOnly
    Serves <- Indexer
    IdOf <- SoleId
    UrlId <- OneId
    Generic = {}
    Texts = {"page"}
    Sites = {s1}
    MaxExtracted = 1
    MaxVersion = 2
    MaxAttempts = 2
    BatchSize = 1
    RebuildLimit = 1
    MaxRebuilds = 1
    MaxFailures = 0
    MaxFaults = 0
SPECIFICATION RebuildSpec
INVARIANTS DeletedStaysOut
