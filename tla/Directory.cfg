SPECIFICATION FairSpec
CONSTANTS
    Nodes <- MCNodes
    CidOf <- MCCidOf
    LinksOf <- MCLinks
    WaveSize = 2
    MaxWaveRetries = 1
    MaxUploadRetries = 1
    MaxFaults = 2
INVARIANTS
    TypeOK
    MarkedNotForgotten
    LinksTravelFirst
    NothingPaidTwice
PROPERTIES
    DirectoryEnds
    ImplementsAbstractDirectory
