SPECIFICATION FairSpec
CONSTANTS
    MyTier = 2
    MaxConnects = 2
    MaxFaults = 1
    Names <- MCNames
    Need <- MCNeed
    People <- MCPeople
    Tier <- MCTier
    OwnerInputs <- MCOwnerInputs
    Denotes <- MCDenotes
    Whitelisted = TRUE
    MaxEdits = 2
    MaxClicks = 2
INVARIANTS
    TypeOK
    RegisteredAsChosen
PROPERTIES
    DialogsEnd
CHECK_DEADLOCK FALSE
