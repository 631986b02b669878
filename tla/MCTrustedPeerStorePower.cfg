SPECIFICATION PowerSpec
CONSTANTS
    Processes = {p1, p2}
    Identities = {i1, i2}
    Labels = {0, 128}
    MAX_TRUSTED_PEERS = 2
    MAX_STORE_BYTES = 800
    NoProcess = NoProcess
SYMMETRY MCSymmetry
INVARIANTS SuccessIsDurable StoreStaysLoadable
