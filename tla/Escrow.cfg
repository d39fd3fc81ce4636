SPECIFICATION Spec
CONSTANTS
    Names = {n1, n2}
    Entries = {e1, e2}
    Tabs = {t1, t2}
    Terminals = {c1}
    MaxActions = 4
    MaxFaults = 1
SYMMETRY MCSymmetry
INVARIANTS
    TypeOK
    SuccessMeansPaid
    NoDepositStranded
