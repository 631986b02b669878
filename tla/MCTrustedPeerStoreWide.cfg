SPECIFICATION Spec
CONSTANTS
    Processes = {p1, p2}
    Identities = {i1, i2}
    Labels = {0, 192}
    MAX_TRUSTED_PEERS = 2
    MAX_STORE_BYTES = 65536
    NoProcess = NoProcess
INVARIANTS StoreStaysLoadable
