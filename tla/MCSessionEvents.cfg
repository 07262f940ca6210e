SPECIFICATION FairSpec
CONSTANTS
    o1 = o1
    o2 = o2
    Observers = {o1, o2}
    QueueDepth = 1
    BufferLength = 2
    MaxEvents = 4
    MaxRegistered = 2
CHECK_DEADLOCK FALSE
INVARIANTS
    TypeOK
    ObserversHeard
    NothingStuck
PROPERTIES
    NoSilentLoss
    HandedOutEventually
