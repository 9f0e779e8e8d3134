SPECIFICATION Spec
CONSTANTS
    Options <- DurationOptions
    MaxSignals = 1
    MaxUpdates = 0
    MaxFaults = 0
INVARIANTS
    WaitedComponentsAreTold
CHECK_DEADLOCK FALSE
