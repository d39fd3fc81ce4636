SPECIFICATION FairSpec
CONSTANTS
    Files <- MCFiles
    ChunksOf <- MCChunksOf
    Shared <- MCShared
    Pages <- MCPages
    Scope <- MCScope
    SaveEvery = 1
    StoreRetries = 1
    MaxUploads = 2
    MaxFaults = 1
    MaxBytes = 2
    MaxDagDepth = 1
    MaxFetches = 2
INVARIANTS
    TabTypeOK
    PublishedIsFile
    ResumedAreStored
    ShownIsRouted
    PreviewIsBounded
PROPERTIES
    PageFreed
    PreviewSettles
CHECK_DEADLOCK FALSE
