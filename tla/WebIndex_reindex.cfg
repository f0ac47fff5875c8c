CONSTANTS
    url = url
    w1 = w1
    w2 = w2
    idA = idA
    idB = idB
    s1 = s1
    s2 = s2
    NoId = NoId
    Entities = {url}
    Workers = {w1, w2}
    Ids = {idA, idB}
    TypeOf <- UrlTypeOf
    Types <- BothTypes
    Serves <- OneWebIndexer
    IdOf <- Distinct
    Generic = {}
    Texts = {"page", "edited"}
    Sites = {s1}
    MaxExtracted = 2
    MaxVersion = 2
    MaxAttempts = 2
    BatchSize = 1
    MaxFailures = 0
    MaxFaults = 0
SPECIFICATION WebSpec
INVARIANTS CurrentContentIsIndexed
