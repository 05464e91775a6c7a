SPECIFICATION Spec
CONSTANTS
    QueueFrames = 1
    MaxSessions <- MCMaxSessions
INVARIANTS
    RunningIsActive
CHECK_DEADLOCK FALSE
