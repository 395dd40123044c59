\* Three commits of either store.
SPECIFICATION Spec
CONSTANTS
    t = t d = d h = h
    Tasks = {t}
    Latest = {d}
    Rewindable = {h}
    MaxAttempts = 3
    Settings <- Stores
INVARIANTS SidecarsStayLean
PROPERTIES ImplementsStorage
CHECK_DEADLOCK FALSE
