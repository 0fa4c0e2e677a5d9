SPECIFICATION Spec
CONSTANTS
    MaxUtterances = 2
    MaxChunks = 2
    QueueSize = 1
    MaxMessages = 1
    Permits = 1
    MaxAttempts = 2
CHECK_DEADLOCK FALSE
INVARIANTS
    ConnectedIsHeard
    SpeechIsKept
PROPERTIES
    UtterancesAreAnswered
