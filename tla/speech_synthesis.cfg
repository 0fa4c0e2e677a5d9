SPECIFICATION ResponseSpec
CONSTANTS
    Texts = {t1, t2}
    MaxSegments = 3
    StageQueueSize = 1
    MaxEntries = 1
    End = End
CHECK_DEADLOCK FALSE
INVARIANTS
    SpeechIsWhole
PROPERTIES
    StreamEnds
