SPECIFICATION Spec
CONSTANTS
    Items = {"issue"}
    Kind <- OneOfEach
    MaxVersion = 2
    MaxEvents = 2
    MaxAttempts = 5
    MaxFaults = 0
    MaxSyncs = 0
INVARIANTS
    SnapshotLatest
