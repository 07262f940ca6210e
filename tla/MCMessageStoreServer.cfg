SPECIFICATION FairSpec
CONSTANTS
    s1 = s1
    s2 = s2
    Sessions = {s1, s2}
    PointSecStates <- AllStatuses
    MaxChanges = 3
    MaxCrashes = 1
    MaxFailures = 1
    MaxWipes = 1
    MaxSorts = 1
INVARIANTS
    TypeOK
    StoreOpenIffUnlocked
    AvailabilityTold
    ObservedOnce
    SortsOwned
PROPERTIES
    ImplementsAvailability
    LockFollowsBackup
    WipeNotLost
