SPECIFICATION Spec
CONSTANTS
    MemoryDuration <- MCMemoryDuration
    Fault <- MCFault
    MaxGap = 1
    MaxFrames = 3
INVARIANTS
    StillSaveable
