SPECIFICATION Spec
CONSTANTS
    Periodicity = "hourly"
    Zone = 7200
    Items = {"issue", "pull_request"}
    Start = 86399
    Delays = {0, 1, 1799, 3600}
    MaxRestarts = 1
    MaxTicks = 3
INVARIANTS
    TypeOK
    TickOnBoundary
    IndicesApart
PROPERTIES
    OnlyOverrunsMiss
    OneTickPerPeriod
