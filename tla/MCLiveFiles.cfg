SPECIFICATION Spec
CONSTANTS
    QueueFrames = 1
    MaxSessions <- MCMaxSessions
INVARIANTS
    NoLiveFileLeft
CHECK_DEADLOCK FALSE
