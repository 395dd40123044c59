CONSTANTS
    Clients = {c1}
    Sessions = {s1}
    MaxAttachments = 1
    MaxCalls = 0
    Budgets <- Late
SPECIFICATION FairSpec
PROPERTY LossReleases
CHECK_DEADLOCK FALSE
