SPECIFICATION FairSpec
CONSTANTS
    Options <- AllOptions
    MaxSignals = 2
    MaxUpdates = 2
    MaxFaults = 2
INVARIANTS
    TypeOK
    WaitGroupNeverNegative
    CleanExitReleasesMount
    ReadyMeansLoaded
PROPERTIES
    MountChangesOnlyAsAsked
    ImplementsLifecycle
    StopRequestsEndProcess
    UpdatesDoNotBlockWatchers
CHECK_DEADLOCK FALSE
