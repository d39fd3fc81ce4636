SPECIFICATION Spec
CONSTANTS
    Procs = {p1, p2}
    Names = {"default", "work"}
    Default = "default"
    Cids = {"a", "b"}
    Scenarios <- MCScenarios
    MaxCommands = 3
    MaxFaults = 1
SYMMETRY MCSymmetry
INVARIANTS
    TypeOK
    ListedWereStored
    LossesHaveCauses
    FailuresAreOutrun
