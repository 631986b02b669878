SPECIFICATION FairSpec
CONSTANTS
    AttemptIds = {a1}
    Responders = {r1, r2}
    Deadlines = {0, 2}
    MaxTime = 2
    Damaged <- MCDamaged
PROPERTIES EveryAttemptResolves ImplementsOutcome
