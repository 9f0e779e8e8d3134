SPECIFICATION ServiceSpec
CONSTANTS
    Options <- UnitOptions
    MaxSignals = 0
    MaxUpdates = 0
    MaxFaults = 1
PROPERTIES
    RestartRecovers
CHECK_DEADLOCK FALSE
