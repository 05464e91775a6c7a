SPECIFICATION Spec
CONSTANTS
    Duration <- MCDuration
    Metadata = {}
    NoMetadata = NoMetadata
    NoTimer = NoTimer
    NoLive = NoLive
    MaxTime = 2
    MaxFrames = 3
    MaxGeneration = 4
INVARIANTS
    LiveIsSegment
CHECK_DEADLOCK FALSE
