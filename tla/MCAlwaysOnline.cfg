SPECIFICATION FairSpec
CHECK_DEADLOCK FALSE
CONSTANTS
    MaxReTryTimes = 2
    MaxEvents = 3
    MaxFailures = 2
INVARIANTS StoppedIsQuiet MarkIsTakenBack OngoingIsServed
PROPERTIES WakesUp SyncEnds
