----------------------- MODULE MCBrowserRegistration -----------------------
(* Instances of BrowserRegistration for TLC. *)
EXTENDS BrowserRegistration

\* A name that wants the full tier, and one that is reserved.
MCNames == {"vip", "root"}
MCNeed  == [n \in MCNames |-> IF n = "vip" THEN 2 ELSE Reserved]

\* An address as it is, and a name that has to be resolved.
MCPeople      == {Me, "0xbob", "ann"}
MCTier        == [p \in MCPeople |-> IF p = "0xbob" THEN 0 ELSE 2]
MCOwnerInputs == {"0xbob", "ann.dot"}
MCDenotes     == [i \in MCOwnerInputs |-> IF i = "0xbob" THEN i ELSE "ann"]
=============================================================================
