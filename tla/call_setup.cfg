SPECIFICATION Spec
CONSTANTS
    Asks = {a1}
    Streams = {w1, w2}
    Numbers = {n1, n2}
    MaxSessions = 1
    MaxRate = 1
    MaxObjects = 2
    Default = Default
    None = None
CHECK_DEADLOCK FALSE
INVARIANTS
    OneStream
    EngineServesOwner
PROPERTIES
    SlotsComeBack
    ShutdownEnds
