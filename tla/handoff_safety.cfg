SPECIFICATION Spec
CONSTANTS
    MaxRequests = 1
    MaxToolCalls = 1
    MaxAttempts = 2
CHECK_DEADLOCK FALSE
INVARIANTS
    TypeOK
    ReportsFit
PROPERTY GateIsKept
