SPECIFICATION SharedSpec
CONSTANTS
    Goroutines = {g1, g2}
    Callers = {g1, g2}
    Calls <- TestCalls
    Keys = {k1, k2}
    Givens <- TestGivens
    Values = {v1}
    Times <- TestTimes
    Windows <- TestWindows
    Version = 0
    Nobody = Nobody
    MaxCalls = 3
    Arguments <- TestArguments
    MaxPosts = 1
INVARIANTS
    TypeOK
    MethodsAreAtomic
    UnlockedNeedQuiet
    TokensAccounted
PROPERTIES
    CallsEnd
    ImplementsAtomic
CHECK_DEADLOCK FALSE
