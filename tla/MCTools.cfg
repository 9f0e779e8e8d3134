SPECIFICATION FairSpec
CONSTANTS
    Kind <- KeyKinds
    Disks <- TestDisks
    Stdin <- Input
    Commands <- TestCommands
    Fields <- ConfigFields
    Zero = "zero"
    Fallback <- ConfigFallback
    Required = {"path"}
    Environ <- ConfigEnviron
    Edits <- TestEdits
    Plaintexts <- Secrets
    LockLimit = 3
    MaxCommands = 2
    MaxFaults = 1
INVARIANTS
    TypeOK
    SuccessIsComplete
    OneFileSpoiled
    EncryptedCanBeRead
    PanicOnlyOnLongChains
PROPERTIES
    CommandEnds
CHECK_DEADLOCK FALSE
