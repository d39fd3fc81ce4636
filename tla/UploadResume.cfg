SPECIFICATION FairSpec
CONSTANTS
    NumChunks = 3
    ChunkLength <- MCLength
    MaxInFlightBytes = 4
    Concurrency = 2
    WindowStart = 1
    MaxRetries = 1
    RootMaxRetries = 2
    MaxUploadRetries = 5
    MaxRuns = 2
    FaultErrors <- MCTransient
    MaxFaults = 1
    MaxEdits = 1
INVARIANTS
    PublishesCurrentBytes
PROPERTIES
    ProgressKept
    UploadHeals
    ImplementsAbstractUpload
