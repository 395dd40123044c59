CONSTANTS
    Clients = {c1, c2}
    Sessions = {s1, s2}
    MaxAttachments = 3
    MaxCalls = 1
    Budgets <- Sharing
SPECIFICATION FairSpec
INVARIANTS OneHandle CallsKeepLease RoutesAreLive
PROPERTIES LossReleases ShutdownEnds
CHECK_DEADLOCK FALSE
