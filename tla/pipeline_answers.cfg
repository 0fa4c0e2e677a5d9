SPECIFICATION Spec
CONSTANTS
    GreetingCached  = FALSE
    DurationLimited = TRUE
    MaxTurns        = 3
    MaxHandoffs     = 1
    MaxSttTasks     = 1
    LlmQueueSize    = 1
    TtsQueueSize    = 2
    EventQueueSize  = 2
CHECK_DEADLOCK FALSE
INVARIANTS
    TypeOK
    NeverDeaf
