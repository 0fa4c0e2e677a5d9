SPECIFICATION Spec
CONSTANTS
    GreetingCached  = TRUE
    DurationLimited = FALSE
    MaxTurns        = 4
    MaxHandoffs     = 0
    MaxSttTasks     = 1
    LlmQueueSize    = 0
    TtsQueueSize    = 3
    EventQueueSize  = 3
CHECK_DEADLOCK FALSE
INVARIANTS
    NoCancelledAudio
    SilentAfterBargeIn
    FlushIsFinal
PROPERTY
    FloorIsKept
    CancelledSpeechDrains
