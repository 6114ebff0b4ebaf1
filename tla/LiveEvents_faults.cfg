SPECIFICATION Spec
CONSTANTS
    Items = {"pull_request", "other", "ignored"}
    Kind <- OneOfEach
    MaxVersion = 2
    MaxEvents = 2
    MaxAttempts = 2
    MaxFaults = 2
    MaxSyncs = 1
INVARIANTS
    TypeOK
    FinishedIsStored
    NeverDroppedUntried
    SyncNotOverwritten
PROPERTIES
    PromiseSpec
