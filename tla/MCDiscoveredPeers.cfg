SPECIFICATION Spec
CONSTANTS
    Keys = {1, 2, 3}
    Peers = {a, b}
    NoPeer = NoPeer
    MaxTime = 4
    Windows = {0, 2}
    MAX_RETAINED_TOMBSTONES = 2
    TOMBSTONE_RETENTION = 2
SYMMETRY MCSymmetry
INVARIANTS TypeOK TombstonesBounded TransitionsTellAll CountMatchesVisible
PROPERTIES ImplementsRegister
