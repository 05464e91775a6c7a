SPECIFICATION Spec
CONSTANTS
    Windows = FALSE
    DefaultConfig <- MCDefault
    Requested <- MCRequested
    Edited <- MCEdited
    Handler = {h1, h2}
INVARIANTS
    TypeOK
    StoredIsApplied
    FileIsWhole
PROPERTIES
    ShutdownEnds
CHECK_DEADLOCK FALSE
