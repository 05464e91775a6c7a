SPECIFICATION FairSpec
CONSTANTS
    Duration <- MCDuration
    Metadata = {m1}
    NoMetadata = NoMetadata
    NoTimer = NoTimer
    NoLive = NoLive
    MaxTime = 4
    MaxFrames = 3
    MaxGeneration = 5
INVARIANTS
    TypeOK
    CallbackMatchesDeadline
    RecordingIsGuarded
    NothingHeldOutsideRecording
    SegmentsAreRuns
    LiveCoversSegment
PROPERTIES
    OnlyOverdueTimesOut
    LifecycleSpec
    OverdueEnds
CHECK_DEADLOCK FALSE
