CONSTANTS
    MaxRequests = 2
    MaxCalls = 2
    Settings <- Agents
SPECIFICATION FairSpec
INVARIANTS MessagesAreKept ResultsFollowCalls ContextIsTranscript
PROPERTIES ContinueIsHonoured RunSettles
CHECK_DEADLOCK FALSE
