---------------------------- MODULE AbstractUpload ----------------------------
(***************************************************************************)
(* What an uploader of a chunked file promises, whatever happens to the    *)
(* network, the node or its own process: chunks become available one by    *)
(* one and stay; what it records for a later run is a set of available     *)
(* chunks; and it only ever publishes a root whose links are all           *)
(* available, exactly one for each chunk of the file.                      *)
(***************************************************************************)
CONSTANTS Chunks, Versions

VARIABLES
    available,      \* chunks the chain holds, as <<chunk, version>>
    recorded,       \* chunks a later run would skip
    published       \* link sets of the roots the chain holds

vars == <<available, recorded, published>>

Init == available = {} /\ recorded = {} /\ published = {}

Complete(links) ==
    \A c \in Chunks : \E v \in Versions : {x \in links : x[1] = c} = {<<c, v>>}

StoreChunk ==
    /\ \E x \in Chunks \X Versions : available' = available \union {x}
    /\ UNCHANGED <<recorded, published>>

Record ==
    /\ recorded' \in SUBSET available
    /\ UNCHANGED <<available, published>>

PublishRoot ==
    /\ \E links \in SUBSET available :
          Complete(links) /\ published' = published \union {links}
    /\ UNCHANGED <<available, recorded>>

Next == StoreChunk \/ Record \/ PublishRoot

Spec == Init /\ [][Next]_vars
===============================================================================
