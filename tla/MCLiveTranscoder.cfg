SPECIFICATION Spec
CONSTANTS
    QueueFrames = 1
    MaxSessions <- MCMaxSessions
INVARIANTS
    TypeOK
    AcceptingIsOpen
    GoodIsComplete
    DetachedFileStays
    NoForgottenEncoder
    StatusNamesTheSession
PROPERTIES
    EverySessionEnds
CHECK_DEADLOCK FALSE
