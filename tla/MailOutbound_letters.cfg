SPECIFICATION MCSpec
SYMMETRY Interchange
CHECK_DEADLOCK FALSE
CONSTANTS
    Deliveries = {d1, d2, d3}
    Messages = {d1, d2, d3}
    MessageOf <- OwnMessage
    Recipients = {"bob"}
    RecipientOf <- SameReader
    Domains = {"host"}
    DomainOf <- SameDomain
    Workers = {"w1", "w2"}
    Ids = {"gateway-1"}
    IdOf <- SharedId
    NoId = NoId
    QueueIds = {"q1", "q2"}
    NoQueue = NoQueue
    NoDelivery = NoDelivery
    BatchSize = 2
    MaxAttempts = 2
    AttemptsColumn = 3
    MaxManualDeadRetries = 1
    HardBounceThreshold = 2
    CoolThreshold = 1
    MaxFaults = 1
    Mailboxes = {"ann", "bob"}
    Outside = "outside"
    MessageIds = {1, 2}
    StorageKeys = {d1, d2, d3}
    NoKey = "none"
    InboundEvents = {"e"}
    MailRequests = {"r1", "r2"}
    Quota = 2
    MaxAttachments = 2
    MaxParts = 1
    PruneLimit = 2
    MaxStoreFaults = 1
INVARIANTS
    BounceCountedOnce
    SubmittedIsAccepted
    MailStoreHolds
PROPERTY
    PromiseSpec
