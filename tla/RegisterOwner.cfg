SPECIFICATION Spec
CONSTANTS
    Me = Me
    Rival = Rival
    Nobody = Nobody
    Friend = Friend
    P1 = P1
    P2 = P2
    Procs = {P1}
    Secrets <- MCSecrets
    Owners <- MCOwners
    Prices <- MCPrice
    Friction = 150
    MaxRetries = 1
    MaxClaims = 2
    BufferPercent = 100
    MaxCommands = 2
    MaxFaults = 2
    Intents <- MCOwners2
    Troubles <- MCOutages
INVARIANTS
    OwnerReceives
