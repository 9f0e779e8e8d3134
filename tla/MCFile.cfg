SPECIFICATION FairSpec
CONSTANTS
    f1 = f1
    f2 = f2
    None = None
    Reqs = {r1, r2}
    Files = {f1, f2}
    Size <- Sizes
    MaxLen = 2
    MaxOffset = 3
    Hosts <- BothHosts
    MaxErrors = 1
INVARIANTS
    TypeOK
    
    ReplyIsContent
    BuffersFreed
    LockedMemoryBounded
PROPERTIES
    RequestsAnswered
CHECK_DEADLOCK FALSE
