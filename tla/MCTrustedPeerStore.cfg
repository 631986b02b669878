SPECIFICATION FairSpec
CONSTANTS
    Processes = {p1, p2}
    Identities = {i1, i2}
    Labels = {64}
    MAX_TRUSTED_PEERS = 2
    MAX_STORE_BYTES = 800
    NoProcess = NoProcess
INVARIANTS TypeOK TransactionsAreCurrent
PROPERTIES CorruptionIsKept ImplementsSet LockIsReleased
