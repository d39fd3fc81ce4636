--------------------------- MODULE BrowserContent ---------------------------
(***************************************************************************)
(* Uploads and previews of one tab of the web application: the router      *)
(* keeps one instance of PreviewView for /upload and /preview, which shows *)
(* the form on the former, and an upload sends its user to the latter.     *)
(***************************************************************************)
EXTENDS BrowserPreview

CONSTANTS
    Pages,      \* the addresses that the user opens
    Scope       \* bound: the uploads, fetches and addresses that are tried together
ASSUME PagesAssumption == Pages \subseteq Places \union Blocks

vars == <<hostVars, uploadVars, previewVars, faults>>

Init ==
    /\ preimages = Shared /\ lookups = [id \in {} |-> NewLookup(NoCid)]
    /\ UploadInit /\ PreviewInit

\* The form is part of the landing page.
ShowForm(place) ==
    IF place = Landing THEN MountForm
    ELSE IF route = Landing THEN UnmountForm ELSE UNCHANGED <<page, form>>

\* PreviewView is there for all places but one.
ShowView(place) ==
    \/ place = Elsewhere /\ Unmount /\ handOff' = NoEntry
    \/ /\ place # Elsewhere /\ Watch(place, IF route = Elsewhere THEN EmptyView ELSE view)
       /\ UNCHANGED handOff

Navigate(place) ==
    /\ place # route /\ route' = place
    /\ ShowForm(place) /\ ShowView(place)
    /\ UNCHANGED <<preimages, resume, uploads, faults>>

\* Closing the dialog of an upload that was found again leads to its preview.
OpenPreview ==
    /\ Previewed /\ route' = page.cid
    /\ form' = ClosedForm /\ page' = FreshPage
    /\ Watch(page.cid, view)
    /\ UNCHANGED <<preimages, resume, uploads, handOff, faults>>

\* A reload; the address is then opened once more.
Reload ==
    /\ Misfortune /\ route # Elsewhere
    /\ ReloadUploads
    /\ route' = Elsewhere /\ view' = EmptyView
    /\ page' = FreshPage /\ form' = ClosedForm
    /\ fetch' = [r \in DOMAIN fetch |-> [fetch[r] EXCEPT !.pc = "over"]]
    /\ lookups' = [id \in {} |-> NewLookup(NoCid)]

Aborting(id) == id[1] = "preview" /\ fetch[id[2]].aborted
others == <<uploadVars, previewVars>>
HostLookup(id) == Deliver(id) /\ UNCHANGED others /\ Fortune
LookupError(id) == LookupFails(id) /\ UNCHANGED others /\ Misfortune
Opens(id) == OpenLookup(id, Aborting(id)) /\ UNCHANGED others /\ Fortune
TimesOut(id) == LookupTimesOut(id) /\ UNCHANGED others /\ Fortune

User ==
    \/ \E place \in Pages : Navigate(place)
    \/ (FormStep \/ \E u \in DOMAIN uploads : UploadStep(u)) /\ UNCHANGED previewVars
    \/ OpenPreview \/ Retry \/ HidePage

Tried == <<[u \in DOMAIN uploads |-> uploads[u].file],
           [r \in DOMAIN fetch |-> fetch[r].cid], route>>

Next ==
    \/ (User \/ Reload) /\ Tried' \in Scope
    \/ \E id \in DOMAIN lookups :
          HostLookup(id) \/ LookupError(id) \/ Opens(id) \/ TimesOut(id)
    \/ \E r \in DOMAIN fetch : FetchEnds(r) \/ \E id \in WalkOf(r) : Expand(id)

Spec == Init /\ [][Next]_vars

(***************************************************************************)
(* What runs in the tab and its workers is scheduled, and timers fire; the *)
(* host and its user need not answer anything.  Each of these steps can be *)
(* taken a bounded number of times, so one condition stands for all.       *)
(***************************************************************************)
Browser ==
    \/ \E u \in DOMAIN uploads :
          (Prepared(u) \/ GlobalTimeout(u)) /\ UNCHANGED previewVars
    \/ \E id \in DOMAIN lookups : Opens(id) \/ TimesOut(id)
    \/ \E r \in DOMAIN fetch : FetchEnds(r) \/ \E id \in WalkOf(r) : Expand(id)
FairSpec == Spec /\ WF_vars(Browser)

\* Every upload, lookup and walk of the tab stays within its limits on attempts, fetches
\* and depth, and a lookup that is over has neither timer nor subscription left.
TabTypeOK == UploadTypeOK /\ PreviewTypeOK
=============================================================================
