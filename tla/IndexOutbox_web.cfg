CONSTANTS
    url = url
    w1 = w1
    w2 = w2
    idA = idA
    idB = idB
    NoId = NoId
    Entities = {url}
    Workers = {w1, w2}
    Ids = {idA, idB}
    Types <- WebTypes
    TypeOf <- WebTypeOf
    Serves <- WebServes
    IdOf <- Distinct
    Generic = {w2}
    MaxVersion = 2
    MaxAttempts = 2
    BatchSize = 2
    MaxFaults = 1
SPECIFICATION Spec
INVARIANTS ExclusiveLeases NewestNotSuperseded
PROPERTIES ContractSpec AckedByHolder
