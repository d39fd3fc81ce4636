--------------------------- MODULE AbstractDirectory ---------------------------
(***************************************************************************)
(* What an uploader of a directory promises, as a reader of the chain sees *)
(* it: blocks become available one by one and stay; as long as nothing     *)
(* goes wrong each comes after all the blocks below it, so that a reader   *)
(* who finds a block finds all of what it links; the root is announced     *)
(* once, only when every block is available, and with their number; and    *)
(* the uploader gives up only if something went wrong.                     *)
(***************************************************************************)
CONSTANTS
    Blocks,
    Below,          \* [Blocks -> the blocks it links]
    Total           \* how many blocks there are

VARIABLES
    available,      \* blocks the chain holds
    troubled,       \* something has gone wrong
    outcome,        \* what the user is told: "running", "published" or "failed"
    announced       \* the number of blocks the user is told

vars == <<available, troubled, outcome, announced>>

Init == available = {} /\ troubled = FALSE /\ outcome = "running" /\ announced = 0

StoreBlock ==
    /\ \E b \in Blocks :
          /\ troubled \/ Below[b] \subseteq available
          /\ available' = available \union {b}
    /\ UNCHANGED <<troubled, outcome, announced>>

Publish ==
    /\ outcome = "running" /\ available = Blocks
    /\ outcome' = "published" /\ announced' = Total
    /\ UNCHANGED <<available, troubled>>

Strike ==
    /\ troubled' = TRUE
    /\ UNCHANGED <<available, outcome, announced>>

GiveUp ==
    /\ outcome = "running"
    /\ outcome' = "failed" /\ troubled' = TRUE
    /\ UNCHANGED <<available, announced>>

Next == StoreBlock \/ Publish \/ Strike \/ GiveUp

Spec == Init /\ [][Next]_vars
===============================================================================
