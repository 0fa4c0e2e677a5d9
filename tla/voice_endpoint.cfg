SPECIFICATION Spec
CONSTANTS
    MaxSockets = 2
    MaxMessages = 1
CHECK_DEADLOCK FALSE
PROPERTIES
    CallsLeaveNothing
