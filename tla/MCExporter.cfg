SPECIFICATION Spec
CONSTANTS
    Base <- MCBase
    Candidate <- MCCandidate
    Fold <- MCFold
    CaseSensitive = FALSE
    QueueSize <- MCQueueSize
    QueueCap = 2
    MaxKept = 2
    MaxJobs = 3
    MaxForeign = 1
INVARIANTS
    TypeOK
    SendNeverBlocks
    JobsAreBooked
    StatusTellsTheTruth
    NothingLeftBehind
    SpoolOutlivesJobs
PROPERTIES
    NeverOverwritten
    EveryJobEnds
CHECK_DEADLOCK FALSE
