SPECIFICATION Spec
CONSTANTS
    Loaded <- MCLoaded
    Updated <- MCUpdated
    Handler = {h1}
    Client = {c1}
    MaxRuns <- MCMaxRuns
    MaxFrames <- MCMaxFrames
    Delay = 1
    Cooldown = 2
    Never = Never
INVARIANTS
    TypeOK
    CaptureIsExclusive
    StatusIsTrue
    NewestFrameWins
PROPERTIES
    NoticesAreEarned
    KeepsCapturing
CHECK_DEADLOCK FALSE
