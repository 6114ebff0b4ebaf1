SPECIFICATION Spec
CONSTANTS
    f1 = f1
    f2 = f2
    x1 = x1
    x2 = x2
    NoEntry = NoEntry
    NumRepos = 2
    Listing <- TwoRepos
    FetchProcs = {f1, f2}
    IndexProcs = {x1, x2}
    From = 0
    StartIndex <- Starts
    PerPage = 2
INVARIANTS
    TypeOK
    NoSendOnClosedChannel
    NoCrossRepository
PROPERTIES
    Terminates
    PromiseSpec
