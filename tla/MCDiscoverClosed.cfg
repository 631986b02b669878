SPECIFICATION FairSpec
CONSTANTS
    Keys = {1}
    BadName = BadName
    NoPeer = NoPeer
    RawEvents <- MCRawEvents
    MAX_DISCOVERED_ENDPOINTS = 1
    MaxQueued = 0
    MaxTime = 3
    Windows = {0, 2}
    NotGiven = NotGiven
    MAX_WINDOW = 2
    MAX_STALE_AFTER = 1
    StaleAfters = {NotGiven, 0, 1}
    BackendMayClose = TRUE
    MAX_RETAINED_TOMBSTONES = 256
    TOMBSTONE_RETENTION = 300
PROPERTIES PassEnds
