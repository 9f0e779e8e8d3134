SPECIFICATION Spec
CONSTANTS
    Requests = {r1}
    Kinds <- TestKinds
    LastMetric = 3
    Shown <- DefaultLevel
    MaxPanics = 0
INVARIANTS
    PartitionedByStatusCode
CHECK_DEADLOCK FALSE
