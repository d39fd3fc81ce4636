SPECIFICATION Spec
CONSTANTS
    MyTier = 2
    MaxConnects = 1
    MaxFaults = 0
    Names <- MCNames
    Need <- MCNeed
    People <- MCPeople
    Tier <- MCTier
    OwnerInputs <- MCOwnerInputs
    Denotes <- MCDenotes
    Whitelisted = TRUE
    MaxEdits = 3
    MaxClicks = 1
INVARIANTS
    OwnerAsTyped
CHECK_DEADLOCK FALSE
