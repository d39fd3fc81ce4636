SPECIFICATION FairSpec
CONSTANTS
    Me = Me
    Rival = Rival
    Nobody = Nobody
    Friend = Friend
    P1 = P1
    P2 = P2
    Procs = {P1}
    Secrets <- MCSecrets
    Owners <- MCOwners
    Prices <- MCPrices
    Friction = 150
    MaxRetries = 2
    MaxClaims = 2
    BufferPercent = 100
    MaxCommands = 2
    MaxFaults = 2
    Intents <- MCAll
    Troubles <- MCPatient
INVARIANTS
    TransferMade
PROPERTIES
    CrashKeepsSecret
    RegistrationHeals
