CONSTANTS
    r1 = r1
    r2 = r2
    r3 = r3
    n1 = n1
    x = x
    y = y
    Batches = {1, 2}
    Files <- ThenMatched
    MaxLines = 2
    Records = {r1, r2, r3}
    Values = {n1, x, y}
    None = None
    Importers = {c1, c2}
    Workers = {w1, w2}
    Ids = {"organizations-1"}
    IdOf <- SharedId
    PageSize = 1
    MaxPlaces = 3
    MaxPreviews = 1
    MaxFaults = 1
SPECIFICATION Spec
SYMMETRY Interchange
INVARIANTS DoneIsComplete NoReviewWhileApplying SourcesCountOnce
