SPECIFICATION MailStoreFairSpec
CHECK_DEADLOCK FALSE
CONSTANTS
    Mailboxes = {"ann"}
    Outside = "outside"
    MessageIds = {1, 2}
    StorageKeys = {"k"}
    NoKey = "none"
    InboundEvents = {"e"}
    MailRequests = {"r"}
    Quota = 1
    MaxAttachments = 1
    MaxParts = 1
    PruneLimit = 3
    MaxStoreFaults = 0
PROPERTY TrashIsEmptied
