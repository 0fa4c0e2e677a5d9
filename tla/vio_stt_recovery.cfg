SPECIFICATION Spec
CONSTANTS
    GreetingCached  = TRUE
    DurationLimited = FALSE
    MaxTurns        = 3
    MaxHandoffs     = 0
    MaxSttTasks     = 1
    LlmQueueSize    = 0
    TtsQueueSize    = 2
    EventQueueSize  = 2
CHECK_DEADLOCK FALSE
INVARIANT
    TtsWorkerSurvives
