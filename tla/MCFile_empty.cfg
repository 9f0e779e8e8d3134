SPECIFICATION Spec
CONSTANTS
    f1 = f1
    f2 = f2
    None = None
    Reqs = {r1}
    Files = {f1}
    Size <- SizeEmpty
    MaxLen = 2
    MaxOffset = 3
    Hosts <- RecentHost
    MaxErrors = 0
INVARIANTS
    NeverCrashes
CHECK_DEADLOCK FALSE
