SPECIFICATION Spec
CONSTANTS
    o1 = o1
    o2 = o2
    Observers = {o1}
    QueueDepth = 1
    BufferLength = 2
    MaxEvents = 2
    MaxRegistered = 1
CHECK_DEADLOCK FALSE
INVARIANTS
    NeverPanics
