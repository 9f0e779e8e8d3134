SPECIFICATION Spec
CONSTANTS
    Stem <- GpgStem
    Dot = 1
    DotDot = 2
    Trees <- BesideTrees
INVARIANTS
    AnyGpgFileServed
CHECK_DEADLOCK FALSE
