CONSTANTS
    url = url
    w1 = w1
    w2 = w2
    idA = idA
    idB = idB
    s1 = s1
    s2 = s2
    NoId = NoId
    Entities = {url}
    Workers = {w1}
    Ids = {idA, idB}
    TypeOf <- UrlTypeOf
    Types <- BothTypes
    Serves <- SoleWebIndexer
    IdOf <- SoleId
    Generic = {}
    Texts = {"page"}
    Sites = {s1}
    MaxExtracted = 1
    MaxVersion = 2
    MaxAttempts = 2
    BatchSize = 1
    MaxFailures = 1
    MaxFaults = 1
SPECIFICATION WebFairSpec
PROPERTIES DeletionTakesEffect EventuallySettled
