SPECIFICATION FairSpec
CHECK_DEADLOCK FALSE
CONSTANTS
    MaxReTryTimes = 3
    MaxEvents = 2
    MaxFailures = 0
PROPERTIES SuspensionEnds
