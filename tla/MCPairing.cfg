SPECIFICATION Spec
CONSTANTS
    AttemptIds = {a1, a2}
    Responders = {r1, r2}
    Deadlines = {1}
    MaxTime = 1
    Damaged <- MCDamaged
SYMMETRY MCSymmetry
INVARIANTS TypeOK FramesHaveAuthors OutcomesAreDecided
PROPERTIES TerminalAbsorbs NoProgressOutOfTurn
