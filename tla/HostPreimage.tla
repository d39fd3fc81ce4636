---------------------------- MODULE HostPreimage ----------------------------
(***************************************************************************)
(* Blocks kept by the host of the web application, and the one-shot lookup *)
(* that packages/ui/src/lib/hostPreimage.ts makes of its subscription: the *)
(* first block the host calls back with settles it, and so do a timer and  *)
(* an abort signal; callbacks without a block are ignored.                 *)
(***************************************************************************)
EXTENDS Integers, Sequences

VARIABLES
    preimages,  \* the blocks the host can find, by CID
    lookups     \* the lookups made so far

hostVars == <<preimages, lookups>>

(***************************************************************************)
(* A CID names its content: a leaf by what is in it, a dag-pb node by its  *)
(* links and by the total size its links declare, which may be wrong.      *)
(***************************************************************************)
Leaf(name) == [name |-> name, links |-> <<>>, declared |-> 1]
Node(links, declared) == [name |-> "node", links |-> links, declared |-> declared]
IsLeaf(cid) == cid.links = <<>>

Values == {"opening", "pending", "block", "null", "error"}
Settled(l) == l.value \notin {"opening", "pending"}
\* Whatever settled a lookup, its subscription is closed and its timer cleared.
LookupType(l) ==
    /\ l.value \in Values /\ l.subscribed \in BOOLEAN /\ l.timer \in BOOLEAN
    /\ Settled(l) => ~l.subscribed /\ ~l.timer

\* getPreimageManager is awaited before anything else.
NewLookup(cid) ==
    [cid |-> cid, value |-> "opening", subscribed |-> FALSE, timer |-> FALSE]
OneLookup(id, cid) == [i \in {id} |-> NewLookup(cid)]
MoreLookups(ls, more) ==
    [id \in DOMAIN ls \union DOMAIN more |-> IF id \in DOMAIN ls THEN ls[id] ELSE more[id]]

\* finish: whatever comes first settles the lookup and undoes the rest.
Finish(l, value) ==
    IF Settled(l) THEN l
    ELSE [l EXCEPT !.value = value, !.timer = FALSE, !.subscribed = FALSE]

\* The subscription is assigned after the first callback if that came synchronously:
\* then it is closed at once.
Subscribed(l) == [l EXCEPT !.subscribed = ~Settled(l)]

\* What lookupPreimage has become when it has made its subscription: settled already
\* if its signal is aborted or the host answers from its cache, else waiting.
Waiting(l) == [l EXCEPT !.value = "pending", !.timer = TRUE]
OpenLookup(id, aborted) ==
    /\ lookups[id].value = "opening"
    /\ LET l == Waiting(lookups[id])
       IN  \E opened \in IF aborted THEN {Finish(l, "null")}
                         ELSE {Subscribed(l)} \union
                              {Subscribed(Finish(l, v)) :
                                  v \in IF l.cid \in preimages THEN {"block"} ELSE {}} :
              lookups' = [lookups EXCEPT ![id] = opened]
    /\ UNCHANGED preimages

\* There is no host, or it gives a block that is not the one asked for.
LookupFails(id) ==
    /\ \/ /\ lookups[id].value = "opening"
          /\ lookups' = [lookups EXCEPT ![id].value = "error"]
       \/ /\ lookups[id].value = "pending"
          /\ lookups' = [lookups EXCEPT ![id] = Finish(@, "error")]
    /\ UNCHANGED preimages

Deliver(id) ==
    /\ lookups[id].value = "pending" /\ lookups[id].cid \in preimages
    /\ lookups' = [lookups EXCEPT ![id] = Finish(@, "block")]
    /\ UNCHANGED preimages

NoTimer(l) == FALSE             \* a mutant of TimerFires
TimerFires(l) == l.timer

LookupTimesOut(id) ==
    /\ TimerFires(lookups[id])
    /\ lookups' = [lookups EXCEPT ![id] = Finish(@, "null")]
    /\ UNCHANGED preimages

\* The abort event reaches the lookups of a signal that wait.
Aborted(l) == IF l.value = "pending" THEN Finish(l, "null") ELSE l

LookupStep(id, aborted) == OpenLookup(id, aborted) \/ Deliver(id) \/ LookupTimesOut(id)
=============================================================================
