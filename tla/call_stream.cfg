SPECIFICATION Spec
CONSTANTS
    MaxGeneration = 3
    QueueSize = 1
    LinkSize = 2
    FrameChunks = 2
CHECK_DEADLOCK FALSE
INVARIANTS
    TypeOK
    NoCancelledFrames
    CarrierIsClear
    TeardownIsComplete
PROPERTIES
    StreamEnds
    InterruptionArrives
