\* One document in two versions of its definition, and a state or a watch of it.
CONSTANTS
    States = {s1}
    Watches = {w1}
    Versions = {1, 2}
    MaxPending = 2
    MaxCommits = 6
SPECIFICATION FairSpec
CONSTRAINT OneReader
PROPERTIES ImplementsStream ReadersCatchUp WatchesEnd
CHECK_DEADLOCK FALSE
