SPECIFICATION FairSpec
CONSTANTS
    QueueCapacity = 4
    MaxStops = 3
    MaxEvents = 2
INVARIANTS TypeOK StoppedIsSilent ExitIsRequested FailedStopIsFinal RenameIsTold
PROPERTIES StopEnds
