SPECIFICATION Spec
CONSTANTS
    MemoryDuration <- MCMemoryDuration
    Fault <- MCFault
    MaxGap = 1
    MaxFrames = 5
INVARIANTS
    TypeOK
    BooksBalance
    SegmentsAreIntact
PROPERTIES
    BufferContract
