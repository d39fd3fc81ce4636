----------------------------- MODULE BulletinChain -----------------------------
(***************************************************************************)
(* The Bulletin chain as the uploader sees it: store calls of one account. *)
(* Nothing of it is in this repository; it is modelled from the calls      *)
(* store.ts makes.                                                         *)
(***************************************************************************)
EXTENDS SigningAccount

(***************************************************************************)
(* A block is the payload of one store call: a chunk, named by its index   *)
(* and the version of its bytes (its CID), or the root node that links     *)
(* chunks.  A foreign transaction of the same account stores none of ours. *)
(***************************************************************************)
ChunkBlock(c, v) == [kind |-> "chunk", links |-> {<<c, v>>}]
RootBlock(links) == [kind |-> "root", links |-> links]
ForeignBlock     == [kind |-> "foreign", links |-> {}]

Stored(x) == Executed(ChunkBlock(x[1], x[2]))

\* Another process signs with the same account.
ForeignTransaction ==
    /\ \E n \in Len(ledger)..(Len(ledger) + Cardinality(pool)) :
          IsNextIndex(n) /\ pool' = pool \union {[nonce |-> n, call |-> ForeignBlock]}
    /\ UNCHANGED ledger
===============================================================================
