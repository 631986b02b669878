SPECIFICATION Spec
CONSTANTS
    AttemptIds = {a1, a2}
    Bytes = {0, 1, 2, 3, 4}
    MaxLen = 5
    MaxText = 5
    MaxChanges = 2
    MAX_DEVICE_NAME_CHARS = 3
    MAX_DISCOVERY_NAME_BYTES = 5
    U16_MAX = 12
    MAX_DISCOVERY_TXT_BYTES = 48
    MAX_DISCOVERY_TXT_ENTRY_BYTES = 12
    MAX_PEER_IDENTITY_BYTES = 2
    MAX_TRUSTED_PEER_LABEL_CHARS = 3
    MAX_TRUSTED_PEER_LABEL_BYTES = 6
    MAX_RECORD_LINE_BYTES = 14
INVARIANTS
    DecodeIsInverse
    ReadsOnlyWhatWasSent
    AnnouncementsAreRead
    NamesSurvive
    LinesAreCanonical
CHECK_DEADLOCK FALSE
