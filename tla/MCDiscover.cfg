SPECIFICATION FairSpec
CONSTANTS
    Keys = {1, 2}
    BadName = BadName
    NoPeer = NoPeer
    RawEvents <- MCFewEvents
    MAX_DISCOVERED_ENDPOINTS = 1
    MaxQueued = 1
    MaxTime = 2
    Windows = {0, 1}
    NotGiven = NotGiven
    MAX_WINDOW = 1
    MAX_STALE_AFTER = 1
    StaleAfters = {NotGiven, 0, 1}
    BackendMayClose = TRUE
    MAX_RETAINED_TOMBSTONES = 1
    TOMBSTONE_RETENTION = 1
INVARIANTS TypeOK ShownIsResolved EndingIsHonest
PROPERTIES WindowEndsPass InterruptEndsPass
