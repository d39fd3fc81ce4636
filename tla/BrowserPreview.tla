--------------------------- MODULE BrowserPreview ---------------------------
(***************************************************************************)
(* PreviewView.vue of the web application and the walk of                  *)
(* lib/hostPreimage.ts it shows the result of: a CID's block is looked up, *)
(* then those its links name, all at once, each with a timer of its own.   *)
(* The view outlives changes of its route, so a fetch may come back after  *)
(* the user went on; an abort signal and a request number tell it so.      *)
(***************************************************************************)
EXTENDS BrowserUpload, SequencesExt

CONSTANTS
    Shared,         \* blocks that others stored: the host holds them from the beginning
    MaxBytes,       \* MAX_INLINE_PREVIEW_BYTES
    MaxDagDepth,    \* MAX_DAG_DEPTH
    MaxFetches      \* bound: runs of fetchContent that fetch

ASSUME PreviewAssumption ==
    /\ MaxBytes \in Nat /\ MaxDagDepth \in Nat \ {0} /\ MaxFetches \in Nat
    /\ \A b \in Shared : b.links \in Seq(Range(b.links)) /\ b # NoCid

VARIABLES
    route,      \* the CID of the address, or another place of the application
    view,       \* what PreviewView shows
    fetch       \* the runs of fetchContent; the last one is previewRequestId's

previewVars == <<route, view, fetch>>

Place(name) == [name |-> name, links |-> <<>>, declared |-> 0]
Landing   == Place("landing")       \* /upload, which shows the form
Malformed == Place("malformed")     \* a link that does not decode
Elsewhere == Place("elsewhere")     \* a route of another component
Places    == {Landing, Malformed, Elsewhere}

Blocks == Shared \union UNION {{CidOf(f)} \union Range(ChunksOf[f]) : f \in Files}

EmptyView == [loading |-> FALSE, error |-> FALSE, shown |-> NoCid, blocked |-> FALSE,
              active |-> 0]
Emptied(v) == [v EXCEPT !.shown = NoCid, !.blocked = FALSE]

Walk(r, path) == <<"preview", r, path>>
WalkOf(r) == {id \in DOMAIN lookups : id[1] = "preview" /\ id[2] = r}
Below(id, top) == IsPrefix(top[3], id[3])
LinkOf(id) == id[3][Len(id[3])]

AbortFetch(fs, r) == IF r = 0 THEN fs ELSE [fs EXCEPT ![r].aborted = TRUE]
AbortLookups(ls, r) ==
    [id \in DOMAIN ls |-> IF id[1] = "preview" /\ id[2] = r THEN Aborted(ls[id]) ELSE ls[id]]

PreviewInit == route = Elsewhere /\ view = EmptyView /\ fetch = <<>>

(***************************************************************************)
(* fetchContent, up to its first await: a malformed link leaves everything *)
(* as it is and shows an error; else the fetch before is aborted, and the  *)
(* content handed over by an upload is preferred to the host's.            *)
(***************************************************************************)
FetchContent(cid, v) ==
    IF cid = Malformed
    THEN /\ view' = [v EXCEPT !.error = TRUE, !.loading = FALSE]
         /\ UNCHANGED <<fetch, lookups>>
    ELSE LET r == Len(fetch) + 1
             cached == handOff.cid = cid
             aborted == AbortLookups(lookups, v.active)
         IN  /\ r <= MaxFetches
             /\ view' = [Emptied(v) EXCEPT !.loading = TRUE, !.error = FALSE, !.active = r]
             /\ fetch' = Append(AbortFetch(fetch, v.active),
                    [cid |-> cid, aborted |-> FALSE,
                     pc |-> IF cached THEN "cached" ELSE "walks",
                     content |-> IF cached THEN CidOf(handOff.file) ELSE NoCid])
             /\ lookups' = IF cached THEN aborted
                           ELSE MoreLookups(aborted, OneLookup(Walk(r, <<>>), cid))

\* The watcher of the address, for an instance that shows v: an address without a
\* link ends what was fetched and shown.
Watch(place, v) ==
    IF place = Landing
    THEN /\ view' = [Emptied(v) EXCEPT !.active = 0]
         /\ fetch' = AbortFetch(fetch, v.active)
         /\ lookups' = AbortLookups(lookups, v.active)
    ELSE FetchContent(place, v)

\* onBeforeUnmount: fetches that go on change nothing that is shown any more.
Unmount ==
    /\ view' = EmptyView
    /\ fetch' = [r \in DOMAIN fetch |->
                    [AbortFetch(fetch, view.active)[r] EXCEPT !.pc = "over"]]
    /\ lookups' = AbortLookups(lookups, view.active)

Retry ==
    /\ route \notin Places /\ view.error /\ ~view.loading
    /\ FetchContent(route, view)
    /\ UNCHANGED <<route, preimages, uploadVars, faults>>

\* pagehide: the page may be kept and shown again.
HidePage ==
    /\ view.active # 0
    /\ view' = [view EXCEPT !.active = 0]
    /\ fetch' = AbortFetch(fetch, view.active)
    /\ lookups' = AbortLookups(lookups, view.active)
    /\ UNCHANGED <<route, preimages, uploadVars, faults>>

(***************************************************************************)
(* resolveNode.  Promise.all ends the walk with the first child that       *)
(* fails; what the others do goes on, new lookups included.                *)
(***************************************************************************)
previewFrame == <<route, preimages, uploadVars, faults>>

Expanded(id) == \E other \in WalkOf(id[2]) : other # id /\ Below(other, id)
Unbounded(id) == FALSE              \* a mutant of Deepest
Deepest(id) == Len(id[3]) = MaxDagDepth

\* A node whose links declare no more than the limit: its children are looked up.
Expand(id) ==
    LET cid == lookups[id].cid
    IN  /\ lookups[id].value = "block" /\ ~IsLeaf(cid) /\ ~Expanded(id)
        /\ cid.declared <= MaxBytes /\ ~Deepest(id)
        /\ lookups' = MoreLookups(lookups,
              [child \in {Walk(id[2], Append(id[3], i)) : i \in DOMAIN cid.links} |->
                  NewLookup(cid.links[LinkOf(child)])])
        /\ UNCHANGED <<view, fetch, previewFrame>>

\* There is no block for it, or it is nested too deep.
NodeFails(id) ==
    \/ lookups[id].value \in {"null", "error"}
    \/ /\ lookups[id].value = "block" /\ ~IsLeaf(lookups[id].cid) /\ Deepest(id)
       /\ lookups[id].cid.declared <= MaxBytes

\* What was fetched below a node: its leaves, when all of them have come.
Complete(id) ==
    \A other \in WalkOf(id[2]) :
        Below(other, id) => /\ lookups[other].value = "block"
                            /\ IsLeaf(lookups[other].cid) \/ Expanded(other)
Assembled(id) ==
    {<<other[3], lookups[other].cid>> : other \in
        {o \in WalkOf(id[2]) : Below(o, id) /\ IsLeaf(lookups[o].cid)}}
Oversized(leaves) == MapThenSumSet(LAMBDA leaf : leaf[2].declared, leaves) > MaxBytes

\* enforceMaxBytes, for a leaf, the sum that links declare, and what was assembled.
DeclaredOnly(id) ==                 \* a mutant: the links' sizes are believed
    lookups[id].value = "block" /\ lookups[id].cid.declared > MaxBytes
TooLarge(id) ==
    \/ lookups[id].value = "block" /\ lookups[id].cid.declared > MaxBytes
    \/ Complete(id) /\ Oversized(Assembled(id))

Whatever(r, shown, blocked) ==      \* a mutant of Settle: a late answer is shown
    /\ fetch' = [fetch EXCEPT ![r].pc = "over"]
    /\ view' = [view EXCEPT !.active = IF @ = r THEN 0 ELSE @, !.loading = FALSE,
                            !.shown = shown, !.blocked = blocked]
    /\ UNCHANGED <<lookups, previewFrame>>

Settle(r, shown, blocked) ==
    LET anyway(v) == [v EXCEPT !.active = IF @ = r THEN 0 ELSE @,
                               !.loading = IF r = Len(fetch) THEN FALSE ELSE @]
    IN  /\ fetch' = [fetch EXCEPT ![r].pc = "over"]
        /\ view' = anyway(
              IF r # Len(fetch) \/ fetch[r].aborted THEN view
              ELSE [view EXCEPT !.shown = shown, !.blocked = blocked,
                                !.error = @ \/ (shown = NoCid /\ ~blocked)])
        /\ UNCHANGED <<lookups, previewFrame>>

FetchEnds(r) ==
    \/ fetch[r].pc = "cached" /\ Settle(r, fetch[r].content, FALSE)
    \/ /\ fetch[r].pc = "walks"
       /\ \/ \E id \in WalkOf(r) : TooLarge(id) /\ Settle(r, NoCid, TRUE)
          \/ \E id \in WalkOf(r) : NodeFails(id) /\ Settle(r, NoCid, FALSE)
          \/ /\ Complete(Walk(r, <<>>)) /\ ~TooLarge(Walk(r, <<>>))
             /\ Settle(r, fetch[r].cid, FALSE)

(***************************************************************************)
(* What the template shows: the content is hidden by the loading screen    *)
(* and by an error.                                                        *)
(***************************************************************************)
Visible == route \notin {Landing, Elsewhere} /\ ~view.loading /\ ~view.error
           /\ view.shown # NoCid

PreviewTypeOK ==
    /\ view.loading \in BOOLEAN /\ view.error \in BOOLEAN /\ view.blocked \in BOOLEAN
    /\ view.active \in 0..Len(fetch) /\ Len(fetch) <= MaxFetches
    /\ \A r \in DOMAIN fetch : fetch[r].pc \in {"cached", "walks", "over"}
    /\ \A id \in DOMAIN lookups : LookupType(lookups[id]) /\ Len(id[3]) <= MaxDagDepth

(***************************************************************************)
(* The page never shows another content than its address names, however    *)
(* many fetches and uploads come back after the user went on; a malformed  *)
(* address shows none at all, although it aborts nothing.                  *)
(***************************************************************************)
ShownIsRouted == Visible => view.shown = route

(***************************************************************************)
(* The tree of a document, without a walk: the paths of links that start   *)
(* at its CID and the block that each of them leads to.  A tree is whole   *)
(* when no link leads out of it, deeper than the limit or to no block.     *)
(***************************************************************************)
Paths == UNION {[1..n -> UNION {DOMAIN b.links : b \in Blocks}] : n \in 0..MaxDagDepth}
Leads(cid, path, b) ==
    \E trail \in [0..Len(path) -> Blocks] :
        /\ trail[0] = cid /\ trail[Len(path)] = b
        /\ \A n \in DOMAIN path : /\ path[n] \in DOMAIN trail[n - 1].links
                                 /\ trail[n] = trail[n - 1].links[path[n]]
Tree == [cid \in Blocks |-> {node \in Paths \X Blocks : Leads(cid, node[1], node[2])}]
Whole(cid) ==
    \A node \in Tree[cid] :
        ~IsLeaf(node[2]) => Len(node[1]) < MaxDagDepth /\ Range(node[2].links) \subseteq Blocks
LeavesOf(cid) == {node \in Tree[cid] : IsLeaf(node[2])}

\* What a user can upload is smaller than what is previewed, since its content is
\* handed over without a walk: MAX_BROWSER_UPLOAD_SIZE is 5 MB.
ASSUME UploadsAreSmall == \A f \in Files : ~Oversized(LeavesOf(CidOf(f)))

(***************************************************************************)
(* Whatever was fetched, in any order and by however many lookups: a       *)
(* document is rendered only whole, and only when its leaves together are  *)
(* within the limit, also when the links of its author declare less.       *)
(***************************************************************************)
PreviewIsBounded == Visible => Whole(view.shown) /\ ~Oversized(LeavesOf(view.shown))

(***************************************************************************)
(* The loading screen ends, even if the host never calls back.             *)
(***************************************************************************)
PreviewSettles == view.loading ~> ~view.loading
=============================================================================
