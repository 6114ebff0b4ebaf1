SPECIFICATION Spec
CONSTANTS
    Files <- MCFiles
    Items <- MCItems
    PullRequests <- MCPullRequests
    Author <- MCAuthor
    UserFile <- MCUserFile
    MaxStores = 2
INVARIANTS NothingStoredRaw OneDocumentPerItem
PROPERTIES KnownAuthors EveryIndexMapped
