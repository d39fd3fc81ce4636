SPECIFICATION FairSpec
CONSTANTS
    Me = Me
    Rival = Rival
    Nobody = Nobody
    Friend = Friend
    P1 = P1
    P2 = P2
    Procs = {P1, P2}
    Secrets <- MCSecrets
    Owners <- MCOwners
    Prices <- MCPrice
    Friction = 150
    MaxRetries = 0
    MaxClaims = 1
    BufferPercent = 100
    MaxCommands = 2
    MaxFaults = 1
    Intents <- MCOwners2
    Troubles <- MCRivalry
INVARIANTS
    TypeOK
    FailedIsResumable
    RecordIsCommitted
    DoneMeansHeld
PROPERTIES
    RecordKept
    CommandEnds
