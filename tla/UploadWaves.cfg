SPECIFICATION Spec
CONSTANTS
    NumChunks = 3
    ChunkLength <- MCLength
    MaxInFlightBytes = 4
    Concurrency = 2
    WindowStart = 2
    MaxRetries = 1
    RootMaxRetries = 2
    MaxUploadRetries = 0
    MaxRuns = 1
    FaultErrors <- MCErrors
    MaxFaults = 2
    MaxEdits = 0
INVARIANTS
    QueueTypeOK
    RecordedAreStored
    RootClosed
    NoChunkForgotten
