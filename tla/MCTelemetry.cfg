SPECIFICATION FairSpec
CONSTANTS
    Requests = {r1, r2}
    Kinds <- TestKinds
    LastMetric = 3
    Shown <- DefaultLevel
    MaxPanics = 1
INVARIANTS
    TypeOK
    MetricsAgree
    AnsweredIsVisible
    OneAnswer
    OnlyLibraryFailsSilently
PROPERTIES
    RequestsEnd
CHECK_DEADLOCK FALSE
