---------------------------- MODULE MCRegistration ----------------------------
(***************************************************************************)
(* Values for the runs of Registration.                                    *)
(***************************************************************************)
EXTENDS Registration

CONSTANTS Friend, P1, P2

MCSecrets == 1..(MaxCommands * (MaxRetries + 1))
MCOwners  == {Me, Friend, Rival}

For(owner_, dest, governance) == [owner |-> owner_, dest |-> dest, governance |-> governance]
MCOwners2  == {For(Me, Nobody, FALSE), For(Friend, Nobody, FALSE)}
MCTransfer == {For(Me, Friend, FALSE)}
MCAll      == {For(Me, Friend, FALSE), For(Me, Nobody, TRUE), For(Friend, Nobody, FALSE)}

MCPrices == {100, 105}
MCPrice  == {100}

MCPatient  == {"read", "drop", "lag", "expiry", "price", "disk", "crash"}
MCOutages  == {"read", "timeout", "drop", "lag", "expiry", "disk", "crash"}
MCRivalry  == MCOutages \union {"rival"}
MCCrash    == {"crash"}
===============================================================================
