SPECIFICATION FairSpec
CONSTANTS
    MaxRequests = 1
    MaxToolCalls = 1
    MaxAttempts = 1
CHECK_DEADLOCK FALSE
PROPERTIES
    WaitingEnds
    MuteEnds
    CompletionFreesCall
