------------------------- MODULE BrowserRegistration -------------------------
(***************************************************************************)
(* Registration of a name in the web application: the search field         *)
(* (SearchInput.vue), the dialog that takes the owner and commits          *)
(* (RegisterModal.vue with useAddressResolver.ts), the countdown that      *)
(* reveals (WaitingPeriod.vue), and their calls in useDomainStore.ts.      *)
(* Nothing is persisted.  A dialog covers the page below it, but the       *)
(* keyboard still reaches whatever is rendered and enabled there.          *)
(***************************************************************************)
EXTENDS WalletSession, FiniteSets

CONSTANTS
    Names,          \* names that are searched for
    Need,           \* the tier each of them requires of its owner; Reserved
    People,         \* addresses that may own a name, the user's among them
    Tier,           \* tier of personhood of each
    OwnerInputs,    \* what may be typed as owner; some are addresses as they are
    Denotes,        \* the address that each stands for
    Whitelisted,    \* the user may register reserved names
    MaxEdits,       \* bound: texts typed
    MaxClicks       \* bound: registrations started

Me       == "me"
Nobody   == "nobody"
ZeroAddress == "zero"
Empty    == "empty"
Reserved == 3
Unknown  == -1
AsIs     == {i \in OwnerInputs : i \in People}

ASSUME PeopleAssumption ==
    /\ Me \in People /\ {Nobody, ZeroAddress} \intersect People = {}
    /\ Tier \in [People -> Nat] /\ Tier[Me] = MyTier
    /\ Need \in [Names -> {0, 1, 2, Reserved}] /\ Whitelisted \in BOOLEAN
    /\ Empty \notin Names \union OwnerInputs
ASSUME InputsAssumption ==
    /\ Denotes \in [OwnerInputs -> People]
    /\ \A i \in AsIs : Denotes[i] = i
    /\ MaxEdits \in Nat /\ MaxClicks \in Nat

VARIABLES
    search,     \* the search field and what its checks brought
    checks,     \* checks of a name under way
    modal,      \* RegisterModal
    lookups,    \* owner texts that are being resolved
    reads,      \* owners whose tier is being read
    waiting,    \* pendingRegistration, WaitingPeriod and its timers
    clicks,     \* runs of startRegistration, each with its registration
    chain,      \* commitments that are old enough to be revealed, and names
    edits

pageVars == <<search, checks, modal, lookups, reads, waiting>>
vars == <<walletVars, pageVars, clicks, chain, edits, faults>>

FreshSearch == [name |-> Empty, status |-> "none", need |-> Unknown, loading |-> FALSE,
                invalid |-> FALSE]
FreshModal(default) ==
    [open |-> FALSE, other |-> FALSE, gov |-> FALSE, input |-> Empty, default |-> default,
     resolved |-> default, resolving |-> FALSE, ownerTier |-> Unknown, click |-> 0]
NotWaiting == [pending |-> 0, opens |-> FALSE, shown |-> FALSE, timer |-> FALSE,
               counts |-> 0, reveals |-> 0]

\* What is mounted with the page; the resolver keeps the address of that moment.
\* Calls go on without a page, but what waited for its countdown is lost.
FreshPage(default) ==
    /\ clicks' = [c \in DOMAIN clicks |->
          IF clicks[c].pc = "waits" THEN [clicks[c] EXCEPT !.pc = "over"] ELSE clicks[c]]
    /\ search' = FreshSearch /\ checks' = {}
    /\ modal' = FreshModal(default) /\ lookups' = {} /\ reads' = {}
    /\ waiting' = NotWaiting

Init ==
    /\ WalletInit
    /\ search = FreshSearch /\ checks = {} /\ modal = FreshModal(Nobody)
    /\ lookups = {} /\ reads = {} /\ waiting = NotWaiting
    /\ clicks = <<>> /\ chain = [ripe |-> {}, names |-> [n \in Names |-> 0]] /\ edits = 0

Edited == edits < MaxEdits /\ edits' = edits + 1
dialogs  == <<modal, lookups, reads, waiting>>
onChain  == <<clicks, chain>>

(***************************************************************************)
(* The search field.  Checks carry no number: whichever comes back sets    *)
(* what is shown, and ends the loading state for all.                      *)
(***************************************************************************)
Type(name) ==
    /\ name # search.name /\ Edited
    /\ IF name = Empty
       THEN search' = FreshSearch /\ UNCHANGED checks
       ELSE /\ search' = [search EXCEPT !.name = name, !.loading = TRUE,
                                         !.invalid = FALSE]
            /\ checks' = checks \union {[name |-> name, at |-> "classify"]}
    /\ UNCHANGED <<walletVars, dialogs, onChain>> /\ Fortune

Done(k) == checks \ {k}
Classified(k) ==
    /\ k.at = "classify"
    /\ \/ /\ search' = [search EXCEPT !.need = Need[k.name]]
          /\ checks' = Done(k) \union {[k EXCEPT !.at = "availability"]}
          /\ Fortune
       \/ /\ search' = [search EXCEPT !.need = NoTier, !.status = "none", !.loading = FALSE,
                                         !.invalid = TRUE]
          /\ checks' = Done(k) /\ Misfortune
    /\ UNCHANGED <<walletVars, dialogs, onChain, edits>>

\* A name whose reads fail counts as free.
Checked(k) ==
    /\ k.at = "availability" /\ checks' = Done(k)
    /\ \E free \in BOOLEAN :
          /\ search' = [search EXCEPT !.status = IF free THEN "available" ELSE "taken",
                                      !.loading = FALSE]
          /\ IF free = (chain.names[k.name] = 0) THEN Fortune ELSE free /\ Misfortune
    /\ UNCHANGED <<walletVars, dialogs, onChain, edits>>

\* registerHandle, below a name that is shown as available.  useMyPopStatus, which
\* reads the tier whenever the wallet connects, is taken to have read it.
CanRegister ==
    /\ search.status = "available" /\ ~search.loading /\ ~search.invalid /\ wallet.connected
    /\ search.need # Reserved /\ search.need # Unknown /\ MyTier >= search.need

(***************************************************************************)
(* RegisterModal.  The address the name will belong to, whether it is      *)
(* somebody else's, and the watcher that reads the owner's tier anew.      *)
(***************************************************************************)
OwnerEvm(m, w) ==
    IF m.other THEN m.resolved ELSE IF w.connected THEN Me ELSE Nobody
IsCrossOwner(m, w) == w.connected /\ OwnerEvm(m, w) \notin {Nobody, Me}
Watched(m, w) == <<OwnerEvm(m, w), IsCrossOwner(m, w), m.gov>>

ModalBecomes(m, w) ==
    IF Watched(m, w) = Watched(modal, wallet)
    THEN modal' = m /\ UNCHANGED reads
    ELSE IF IsCrossOwner(m, w)
    THEN modal' = m /\ reads' = reads \union {OwnerEvm(m, w)}
    ELSE modal' = [m EXCEPT !.ownerTier = Unknown] /\ UNCHANGED reads

Becomes(m) == ModalBecomes(m, wallet)

EffectiveTier == IF IsCrossOwner(modal, wallet) THEN modal.ownerTier ELSE wallet.tier
RequirementMet ==
    CASE search.need \in {Unknown, NoTier} -> TRUE
      [] search.need = Reserved -> modal.gov
      [] OTHER -> EffectiveTier >= search.need

\* resolve: an address is taken as it is, everything else is looked up.
Resolve(m, input) ==
    LET typed == [m EXCEPT !.input = input]
    IN  IF input = Empty
        THEN /\ Becomes([typed EXCEPT !.resolved = m.default, !.resolving = FALSE])
             /\ UNCHANGED lookups
        ELSE IF input \in AsIs
        THEN /\ Becomes([typed EXCEPT !.resolved = Denotes[input], !.resolving = FALSE])
             /\ UNCHANGED lookups
        ELSE /\ Becomes([typed EXCEPT !.resolved = Nobody, !.resolving = TRUE])
             /\ lookups' = lookups \union {input}

modalFrame == <<search, checks, waiting, onChain>>

OpenModal ==
    /\ CanRegister
    /\ IF modal.open THEN UNCHANGED <<modal, lookups, reads>>
       ELSE LET m == [modal EXCEPT !.open = TRUE, !.other = FALSE, !.gov = FALSE,
                                   !.ownerTier = Unknown]
            IN  IF modal.input = Empty THEN Becomes(m) /\ UNCHANGED lookups
                ELSE Resolve(m, Empty)
    /\ UNCHANGED <<walletVars, modalFrame, edits>> /\ Fortune

CloseModal ==
    /\ modal.open /\ modal.click = 0
    /\ modal' = [modal EXCEPT !.open = FALSE]
    /\ UNCHANGED <<walletVars, lookups, reads, modalFrame, edits>> /\ Fortune

ToggleOther ==
    /\ modal.open /\ modal.click = 0
    /\ Becomes([modal EXCEPT !.other = ~@])
    /\ UNCHANGED <<walletVars, lookups, modalFrame, edits>> /\ Fortune

ToggleGovernance ==
    /\ modal.open /\ modal.click = 0 /\ search.need = Reserved
    /\ Becomes([modal EXCEPT !.gov = ~@])
    /\ UNCHANGED <<walletVars, lookups, modalFrame, edits>> /\ Fortune

TypeOwner(input) ==
    /\ modal.open /\ modal.other /\ modal.click = 0 /\ input # modal.input /\ Edited
    /\ Resolve(modal, input)
    /\ UNCHANGED <<walletVars, modalFrame>> /\ Fortune

\* Lookups carry no number either.  A substrate address that cannot be converted
\* becomes the zero address; a name that is not found leaves what is there.
Resolved(input) ==
    /\ lookups' = lookups \ {input}
    /\ \/ Becomes([modal EXCEPT !.resolved = Denotes[input], !.resolving = FALSE]) /\ Fortune
       \/ Becomes([modal EXCEPT !.resolved = ZeroAddress, !.resolving = FALSE]) /\ Misfortune
       \/ Becomes([modal EXCEPT !.resolving = FALSE]) /\ Misfortune
    /\ UNCHANGED <<walletVars, modalFrame, edits>>

TierOf(a) == IF a = ZeroAddress THEN NoTier ELSE Tier[a]
OwnerTierRead(a) ==
    /\ reads' = reads \ {a}
    /\ \/ modal' = [modal EXCEPT !.ownerTier = TierOf(a)] /\ Fortune
       \/ modal' = [modal EXCEPT !.ownerTier = NoTier] /\ Misfortune
    /\ UNCHANGED <<walletVars, lookups, modalFrame, edits>>

(***************************************************************************)
(* startRegistration.  Its button is disabled unless there is an owner who *)
(* meets the requirement; what is registered is fixed by the click.        *)
(***************************************************************************)
CanStart ==
    /\ modal.open /\ modal.click = 0 /\ wallet.connected /\ RequirementMet
    /\ modal.other => ~modal.resolving /\ modal.resolved # Nobody

Choice ==
    [name |-> search.name, owner |-> OwnerEvm(modal, wallet), gov |-> modal.gov,
     input |-> IF modal.other THEN modal.input ELSE Empty]

StartRegistration ==
    /\ CanStart /\ Len(clicks) < MaxClicks
    /\ clicks' = Append(clicks,
           [choice |-> Choice, registration |-> Choice, pc |-> "commitment"])
    /\ modal' = [modal EXCEPT !.click = Len(clicks) + 1]
    /\ UNCHANGED <<walletVars, search, checks, lookups, reads, waiting, chain, edits>>
    /\ Fortune

At(c, pc) == clicks' = [clicks EXCEPT ![c].pc = pc]
InModal(c) == modal.click = c
Shows(m, c) == [m EXCEPT !.click = IF @ = c THEN 0 ELSE @]

\* Any error: a message, and the button is free again.
StuckModal(c) == UNCHANGED modal        \* a mutant: the error leaves the button loading
FreedModal(c) == modal' = Shows(modal, c)
CommitThrows(c) ==
    /\ At(c, "over") /\ FreedModal(c)
    /\ UNCHANGED <<walletVars, search, checks, lookups, reads, waiting, chain, edits>>

\* makeCommitment draws a secret and has the contract hash the registration.
OwnerNow(c) == Choice                   \* a mutant: the form is read again
Fixed(c) == clicks[c].choice
CommitmentMade(c) ==
    /\ clicks[c].pc = "commitment" /\ CanWrite
    /\ clicks' = [clicks EXCEPT ![c].pc = "readyToCommit", ![c].registration = Fixed(c)]
    /\ EnsureSignerReady
    /\ UNCHANGED <<pageVars, chain, edits>> /\ Fortune
CommitmentFails(c) ==
    /\ clicks[c].pc = "commitment"
    /\ IF CanWrite THEN Misfortune ELSE Fortune
    /\ CommitThrows(c)

\* The transaction of a write is finalized, or it is not made.  The host makes none
\* that it was not granted: it rejects the request, or never answers it, and nothing
\* but the page's end gets the write out of that.
Signs == wallet.connected /\ Granted
Hangs(c) ==
    /\ clicks[c].pc \in {"commit", "reveal"} /\ wallet.connected /\ ~Granted
    /\ At(c, "hangs")
    /\ UNCHANGED <<walletVars, pageVars, chain, edits>> /\ Fortune
CommitFinalized(c) ==
    /\ clicks[c].pc = "commit" /\ Signs
    /\ At(c, "age")
    /\ UNCHANGED <<walletVars, pageVars, chain, edits>> /\ Fortune
CommitFails(c) ==
    /\ clicks[c].pc \in {"commit", "noCommit"}
    /\ IF clicks[c].pc = "commit" /\ Signs THEN Misfortune ELSE Fortune
    /\ CommitThrows(c)

\* getMinCommitmentAge never fails.  The route is read again, openWaitingModal replaces
\* whatever was pending, and the countdown opens a little later; an unmounted page
\* hears nothing.
AgeRead(c) ==
    /\ clicks[c].pc = "age"
    /\ IF InModal(c)
       THEN /\ clicks' = [clicks EXCEPT ![c].pc = "waits", ![c].registration.gov = modal.gov]
            /\ waiting' = [waiting EXCEPT !.pending = c, !.opens = TRUE]
            /\ modal' = [Shows(modal, c) EXCEPT !.open = FALSE]
       ELSE At(c, "over") /\ UNCHANGED <<waiting, modal>>
    /\ UNCHANGED <<walletVars, search, checks, lookups, reads, chain, edits>>
    /\ Fortune

(***************************************************************************)
(* WaitingPeriod.                                                          *)
(***************************************************************************)
waitingFrame == <<search, checks, modal, lookups, reads, onChain, edits>>

\* A countdown that is shown already goes on; StartCountdown in its place is a mutant.
StartCountdown(w) == [w EXCEPT !.shown = TRUE, !.timer = TRUE, !.counts = w.pending]
Show(w) == IF w.shown THEN w ELSE StartCountdown(w)
OpenWaiting ==
    /\ waiting.opens
    /\ waiting' = [Show(waiting) EXCEPT !.opens = FALSE]
    /\ UNCHANGED <<walletVars, waitingFrame>> /\ Fortune

CancelWaiting ==
    /\ waiting.shown /\ waiting.reveals = 0
    /\ waiting' = [waiting EXCEPT !.shown = FALSE, !.timer = FALSE]
    /\ UNCHANGED <<walletVars, waitingFrame>> /\ Fortune

\* autoFinalize: a reveal is an ordinary write.
RevealThrows(c) ==
    /\ At(c, "revealed")
    /\ IF waiting.reveals = c
       THEN waiting' = [waiting EXCEPT !.shown = FALSE, !.reveals = 0]
       ELSE UNCHANGED waiting
    /\ UNCHANGED <<search, checks, modal, lookups, reads, chain, edits>>
\* The countdown is as long as the commitment it began for must be old, unless the
\* minimum age was not read; by now another registration may be pending.
CountdownOver ==
    waiting.timer /\ IF waiting.counts \in chain.ripe THEN Fortune ELSE Misfortune
Revealable(c) == CanWrite /\ clicks[c].registration.name # Empty
CountdownEnds ==
    LET c == waiting.pending
    IN  /\ CountdownOver /\ Revealable(c)
        /\ At(c, "readyToReveal")
        /\ waiting' = [waiting EXCEPT !.timer = FALSE, !.reveals = c]
        /\ EnsureSignerReady
        /\ UNCHANGED <<search, checks, modal, lookups, reads, chain, edits>>
CountdownFails ==
    LET c == waiting.pending
    IN  /\ CountdownOver /\ ~Revealable(c)
        /\ At(c, "revealed")
        /\ waiting' = [waiting EXCEPT !.timer = FALSE, !.shown = FALSE]
        /\ UNCHANGED <<walletVars, search, checks, modal, lookups, reads, chain, edits>>

\* What the controller demands of a reveal.
RouteOpen(r) ==
    IF r.gov THEN Whitelisted /\ Need[r.name] = Reserved
    ELSE Need[r.name] # Reserved /\ Tier[r.owner] >= Need[r.name]
Accepts(c) ==
    LET r == clicks[c].registration
    IN  c \in chain.ripe /\ chain.names[r.name] = 0 /\ r.owner \in People /\ RouteOpen(r)

RevealFinalized(c) ==
    /\ clicks[c].pc = "reveal" /\ Signs /\ Accepts(c)
    /\ At(c, "revealed")
    /\ chain' = [chain EXCEPT !.names[clicks[c].registration.name] = c]
    /\ IF waiting.reveals = c
       THEN waiting' = [waiting EXCEPT !.shown = FALSE, !.reveals = 0]
       ELSE UNCHANGED waiting
    /\ UNCHANGED <<walletVars, search, checks, modal, lookups, reads, edits>> /\ Fortune

\* Also when the price was not read, and too little is paid.
RevealFails(c) ==
    /\ clicks[c].pc \in {"reveal", "noReveal"}
    /\ IF clicks[c].pc = "reveal" /\ Signs /\ Accepts(c) THEN Misfortune ELSE Fortune
    /\ RevealThrows(c) /\ UNCHANGED walletVars

\* What awaited the signer goes on, or fails if there is no account any more.
SignerIsReady ==
    /\ SignerReady
    /\ clicks' = [c \in DOMAIN clicks |->
          CASE clicks[c].pc = "readyToCommit" ->
                   [clicks[c] EXCEPT !.pc = IF wallet.connected THEN "commit" ELSE "noCommit"]
            [] clicks[c].pc = "readyToReveal" ->
                   [clicks[c] EXCEPT !.pc = IF wallet.connected THEN "reveal" ELSE "noReveal"]
            [] OTHER -> clicks[c]]
    /\ UNCHANGED <<pageVars, chain, edits>>

\* A commitment is old enough; the countdown is meant to have been that long.
Ripens(c) ==
    /\ clicks[c].pc \in {"waits", "readyToReveal", "reveal", "revealed"}
    /\ c \notin chain.ripe
    /\ chain' = [chain EXCEPT !.ripe = @ \union {c}]
    /\ UNCHANGED <<walletVars, pageVars, clicks, edits>> /\ Fortune

(***************************************************************************)
(* The page and its wallet.  The account that comes or goes is the owner   *)
(* the dialog registers for.  The user connects again on another page.     *)
(***************************************************************************)
WalletChanges ==
    /\ WalletStep
    /\ ModalBecomes(modal, wallet')
    /\ UNCHANGED <<search, checks, lookups, waiting, onChain, edits>>

ConnectsAgain ==
    /\ Connect /\ FreshPage(Nobody)
    /\ UNCHANGED <<chain, edits>>

Leave ==
    /\ FreshPage(IF wallet.connected THEN Me ELSE Nobody)
    /\ UNCHANGED <<walletVars, chain, edits>> /\ Fortune

User ==
    \/ \E n \in Names \union {Empty} : Type(n)
    \/ OpenModal \/ CloseModal \/ ToggleOther \/ ToggleGovernance
    \/ \E i \in OwnerInputs \union {Empty} : TypeOwner(i)
    \/ StartRegistration \/ CancelWaiting \/ Leave \/ ConnectsAgain

Reads ==
    \/ \E k \in checks : Classified(k) \/ Checked(k)
    \/ \E i \in lookups : Resolved(i)
    \/ \E a \in reads : OwnerTierRead(a)

\* What a click set going: calls, timers, the chain's clock.
Registers(c) ==
    \/ CommitmentMade(c) \/ CommitmentFails(c) \/ CommitFinalized(c) \/ CommitFails(c)
    \/ AgeRead(c) \/ RevealFinalized(c) \/ RevealFails(c) \/ Ripens(c)
Proceeds ==
    \/ \E c \in DOMAIN clicks : Registers(c)
    \/ OpenWaiting \/ CountdownEnds \/ CountdownFails \/ SignerIsReady

Next == User \/ Reads \/ Proceeds \/ WalletChanges \/ \E c \in DOMAIN clicks : Hangs(c)

Spec == Init /\ [][Next]_vars

(***************************************************************************)
(* The code puts no limit on its calls: it relies on the host and the      *)
(* chain to answer each, with success or an error, and on timers.  A write *)
(* the host was not granted is the one call it is known to leave without   *)
(* an answer: Hangs is no part of what must proceed, and takes the call    *)
(* out of it.                                                              *)
(***************************************************************************)
FairSpec == Spec /\ WF_vars(Proceeds) /\ WF_vars(WalletChanges /\ Prompted)

TypeOK ==
    /\ WalletTypeOK
    /\ search.name \in Names \union {Empty} /\ search.status \in {"none", "available", "taken"}
    /\ search.need \in {Unknown} \union 0..Reserved
    /\ search.loading \in BOOLEAN /\ search.invalid \in BOOLEAN
    /\ modal.input \in OwnerInputs \union {Empty} /\ lookups \subseteq OwnerInputs
    /\ {modal.resolved, modal.default} \subseteq People \union {Nobody, ZeroAddress}
    /\ modal.click \in 0..Len(clicks) /\ (modal.click # 0 => modal.open)
    /\ waiting.pending \in 0..Len(clicks) /\ waiting.reveals \in 0..Len(clicks)
    /\ waiting.timer => waiting.shown /\ waiting.reveals = 0 /\ waiting.counts \in DOMAIN clicks
    /\ \A c \in DOMAIN clicks : clicks[c].pc \in
          {"commitment", "readyToCommit", "commit", "noCommit", "age", "waits",
           "readyToReveal", "reveal", "noReveal", "revealed", "over", "hangs"}
    /\ chain.ripe \subseteq DOMAIN clicks /\ edits \in 0..MaxEdits

(***************************************************************************)
(* Whatever the user types, closes or starts while a registration goes on, *)
(* and whichever late answers come: the name, its owner and the route by   *)
(* which it was registered are the dialog's when the button was pressed.   *)
(***************************************************************************)
RegisteredAsChosen ==
    \A n \in Names : chain.names[n] # 0 =>
        LET click == clicks[chain.names[n]]
        IN  click.registration = click.choice /\ click.choice.name = n

(***************************************************************************)
(* The button is not left loading and the countdown does not stay, unless  *)
(* the very write they wait for hangs in a host that was not granted it:   *)
(* no refusal, failing call, lost session, late timer or second            *)
(* registration leaves them waiting for a click that is over.              *)
(***************************************************************************)
Hung(c) == c # 0 /\ clicks[c].pc = "hangs"
DialogsEnd ==
    /\ (modal.click # 0) ~> (modal.click = 0 \/ Hung(modal.click))
    /\ waiting.shown ~> (~waiting.shown \/ Hung(waiting.reveals))

(***************************************************************************)
(* "EVM addresses (0x...) -> returns as-is", says useAddressResolver.ts of *)
(* what is typed as owner.                                                 *)
(***************************************************************************)
OwnerAsTyped ==
    \A c \in DOMAIN clicks :
        clicks[c].choice.input \in AsIs => clicks[c].choice.owner = Denotes[clicks[c].choice.input]
=============================================================================
