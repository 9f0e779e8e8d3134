SPECIFICATION Spec
CONSTANTS
    Stem <- GpgStem
    Dot = 1
    DotDot = 2
    Trees <- AllTrees
INVARIANTS
    TypeOK
    TreeWellFormed
    
    ServedTree
    HiddenOnlyByAnother
PROPERTIES
    InodesOnlyGrow
    PreloadEnds
CHECK_DEADLOCK FALSE
