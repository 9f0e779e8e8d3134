SPECIFICATION ServiceSpec
CONSTANTS
    Options <- UnitOptions
    MaxSignals = 2
    MaxUpdates = 0
    MaxFaults = 2
PROPERTIES
    RestartRecoversFreeMount
CHECK_DEADLOCK FALSE
