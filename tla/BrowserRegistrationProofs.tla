----------------------- MODULE BrowserRegistrationProofs -----------------------
(***************************************************************************)
(* Proofs about BrowserRegistration, for any names, people and owner       *)
(* texts, and any number of edits, clicks, connections and misfortunes.    *)
(***************************************************************************)
EXTENDS BrowserRegistration, TLAPS

(***************************************************************************)
(* The inductive invariant.                                                *)
(***************************************************************************)
\* What the variables hold.
Wallets ==
    [connected : BOOLEAN, connecting : BOOLEAN, session : Nat, grant : Nat,
     tier : {NoTier, MyTier}, tierRead : {"never", "asked", "read"}]
Answers   == {"open", "granted", "denied", "failed"}
Addresses == People \union {Nobody, ZeroAddress}
Searches  ==
    [name : Names \union {Empty}, status : {"none", "available", "taken"},
     need : {Unknown} \union 0..Reserved, loading : BOOLEAN, invalid : BOOLEAN]
NameChecks == [name : Names, at : {"classify", "availability"}]
Modals    ==
    [open : BOOLEAN, other : BOOLEAN, gov : BOOLEAN, input : OwnerInputs \union {Empty},
     default : Addresses, resolved : Addresses, resolving : BOOLEAN,
     ownerTier : {Unknown} \union Nat, click : Nat]
Waitings  ==
    [pending : Nat, opens : BOOLEAN, shown : BOOLEAN, timer : BOOLEAN, counts : Nat, reveals : Nat]
Choices   ==
    [name : Names \union {Empty}, owner : Addresses, gov : BOOLEAN, input : OwnerInputs \union {Empty}]
Stages    ==
    {"commitment", "readyToCommit", "commit", "noCommit", "age", "waits",
     "readyToReveal", "reveal", "noReveal", "revealed", "over", "hangs"}
Clicks    == [choice : Choices, registration : Choices, pc : Stages]
Chains    == [ripe : SUBSET Nat, names : [Names -> Nat]]

WalletInv == wallet \in Wallets /\ prompts \in Seq(Answers) /\ ready \in Nat /\ WalletTypeOK
DialogType ==
    modal \in Modals /\ lookups \subseteq OwnerInputs /\ reads \subseteq People \union {ZeroAddress}
SearchType == search \in Searches /\ checks \subseteq NameChecks
RunType   ==
    waiting \in Waitings /\ clicks \in Seq(Clicks) /\ chain \in Chains /\ edits \in 0..MaxEdits

\* Which registration is in the dialog, pending, counted down and revealed.
Pointers ==
    /\ modal.click \in 0..Len(clicks) /\ (modal.click # 0 => modal.open)
    /\ waiting.pending \in 0..Len(clicks) /\ waiting.reveals \in 0..Len(clicks)
    /\ waiting.opens \/ waiting.timer => waiting.pending # 0
    /\ waiting.timer => waiting.shown /\ waiting.reveals = 0 /\ waiting.counts \in 1..Len(clicks)
    /\ waiting.reveals # 0 => waiting.shown
    /\ chain.ripe \subseteq 1..Len(clicks)

\* A registration is what was chosen; the dialog keeps the route until it is committed;
\* and the chain gave each name to a registration of it.
Chosen ==
    /\ \A c \in DOMAIN clicks : clicks[c].registration = clicks[c].choice
    /\ modal.click # 0 => modal.gov = clicks[modal.click].choice.gov
    /\ \A n \in Names : chain.names[n] # 0 =>
          chain.names[n] \in DOMAIN clicks /\ clicks[chain.names[n]].choice.name = n

PageInv == DialogType /\ SearchType /\ RunType /\ Pointers /\ Chosen
IInv    == WalletInv /\ PageInv

USE DEF Me, Nobody, ZeroAddress, Empty, Reserved, Unknown, NoTier, walletVars, pageVars, dialogs,
        onChain, modalFrame, waitingFrame

(***************************************************************************)
(* The wallet.                                                             *)
(***************************************************************************)
LEMMA FaultsType ==
  ASSUME faults \in 0..MaxFaults, Fortune \/ Misfortune
  PROVE  faults' \in 0..MaxFaults
BY WalletAssumption DEF Fortune, Misfortune

LEMMA SameWallet ==
  ASSUME WalletInv, UNCHANGED walletVars, Fortune \/ Misfortune
  PROVE  WalletInv'
BY FaultsType DEF WalletInv, WalletTypeOK

\* A wallet that is connected may ask the host.
LEMMA SubmitAsked ==
  ASSUME WalletInv, NEW w \in Wallets, w.connected, w.session \in 1..MaxConnects,
         w.grant \in 0..Len(prompts), EnsureChainSubmit(w), faults' \in 0..MaxFaults,
         ready' = ready \/ ready' = wallet'.grant
  PROVE  WalletInv'
<1>1. prompts \in Seq(Answers) /\ Len(prompts) \in Nat
  BY DEF WalletInv
<1>2. CASE w.grant = 0
  <2>1. wallet' = [w EXCEPT !.grant = Len(prompts) + 1] /\ prompts' = Append(prompts, "open")
    BY <1>2 DEF EnsureChainSubmit, Wallets
  <2>2. prompts' \in Seq(Answers) /\ Len(prompts') = Len(prompts) + 1
    BY <1>1, <2>1 DEF Answers
  <2>3. /\ wallet' \in Wallets /\ wallet'.grant = Len(prompts) + 1 /\ wallet'.connected
        /\ wallet'.session = w.session
    <3>1. Len(prompts) + 1 \in Nat
      BY <1>1
    <3>2. \A g \in Nat : [w EXCEPT !.grant = g] \in Wallets /\ [w EXCEPT !.grant = g].grant = g
                         /\ [w EXCEPT !.grant = g].connected = w.connected
                         /\ [w EXCEPT !.grant = g].session = w.session
      BY DEF Wallets
    <3> QED
      BY <2>1, <3>1, <3>2
  <2>4. \A p \in DOMAIN prompts' : prompts'[p] \in Answers
    BY <2>2
  <2> QED
    BY <1>1, <2>2, <2>3, <2>4 DEF WalletInv, WalletTypeOK, Wallets, Answers
<1>3. CASE w.grant # 0
  <2>1. wallet' = w /\ prompts' = prompts
    BY <1>3 DEF EnsureChainSubmit, Wallets
  <2> QED
    BY <2>1 DEF WalletInv, WalletTypeOK, Wallets
<1> QED
  BY <1>2, <1>3

LEMMA SignerAsked ==
  ASSUME WalletInv, CanWrite, EnsureSignerReady, Fortune \/ Misfortune
  PROVE  WalletInv'
<1>1. CASE ready # 0
  BY <1>1, SameWallet DEF EnsureSignerReady
<1>2. CASE ready = 0
  <2>1. wallet \in Wallets /\ wallet.connected /\ wallet.session \in 1..MaxConnects
        /\ wallet.grant \in 0..Len(prompts) /\ faults' \in 0..MaxFaults
    BY <1>2, FaultsType DEF WalletInv, WalletTypeOK, CanWrite
  <2> QED
    BY <1>2, <2>1, SubmitAsked DEF EnsureSignerReady
<1> QED
  BY <1>1, <1>2

LEMMA SessionKeeps ==
  ASSUME WalletInv, WalletStep \/ Connect \/ SignerReady
  PROVE  WalletInv'
<1>1. /\ wallet \in Wallets /\ prompts \in Seq(Answers) /\ ready \in Nat /\ WalletTypeOK
      /\ faults \in 0..MaxFaults /\ Len(prompts) \in Nat
  BY DEF WalletInv, WalletTypeOK
<1>2. CASE Connect
  <2>1. wallet' = [wallet EXCEPT !.connecting = TRUE, !.session = @ + 1] /\ wallet.session < MaxConnects
        /\ UNCHANGED <<prompts, ready, faults>>
    BY <1>2 DEF Connect, Fortune
  <2>2. /\ wallet' \in Wallets /\ wallet'.session = wallet.session + 1 /\ wallet'.grant = wallet.grant
        /\ wallet'.connected = wallet.connected
    <3>1. wallet.session + 1 \in Nat
      BY <1>1 DEF Wallets
    <3>2. \A k \in Nat : LET w == [wallet EXCEPT !.connecting = TRUE, !.session = k]
                         IN  w \in Wallets /\ w.session = k /\ w.grant = wallet.grant
                             /\ w.connected = wallet.connected
      BY <1>1 DEF Wallets
    <3> QED
      BY <2>1, <3>1, <3>2
  <2> QED
    BY <1>1, <2>1, <2>2, WalletAssumption DEF WalletInv, WalletTypeOK, Wallets
<1>3. CASE Connected
  <2> DEFINE w == [wallet EXCEPT !.connecting = FALSE, !.connected = TRUE,
                      !.tierRead = IF wallet.session = 1 THEN "asked" ELSE @]
  <2>1. w \in Wallets /\ w.connected /\ w.session = wallet.session /\ w.grant = wallet.grant
    BY <1>1 DEF Wallets
  <2>2. EnsureChainSubmit(w) /\ ready' = ready /\ faults' \in 0..MaxFaults
    BY <1>1, <1>3, FaultsType DEF Connected
  <2>3. w.session \in 1..MaxConnects /\ w.grant \in 0..Len(prompts)
    BY <1>1, <2>1 DEF WalletTypeOK
  <2> HIDE DEF w
  <2> QED
    BY <2>1, <2>2, <2>3, SubmitAsked
<1>4. CASE ConnectFails
  <2>1. wallet' = [wallet EXCEPT !.connecting = FALSE] /\ UNCHANGED <<prompts, ready>>
        /\ faults' \in 0..MaxFaults
    BY <1>1, <1>4, FaultsType DEF ConnectFails
  <2>2. /\ wallet' \in Wallets /\ wallet'.session = wallet.session /\ wallet'.grant = wallet.grant
        /\ wallet'.connected = wallet.connected
    BY <1>1, <2>1 DEF Wallets
  <2> QED
    BY <1>1, <2>1, <2>2 DEF WalletInv, WalletTypeOK, Wallets
<1>5. CASE TierRead
  <2>1. UNCHANGED <<prompts, ready>> /\ faults' \in 0..MaxFaults
    BY <1>1, <1>5, FaultsType DEF TierRead
  <2>2. \E tier \in {NoTier, MyTier} : wallet' = [wallet EXCEPT !.tierRead = "read", !.tier = tier]
    BY <1>5 DEF TierRead
  <2>3. /\ wallet' \in Wallets /\ wallet'.session = wallet.session /\ wallet'.grant = wallet.grant
        /\ wallet'.connected = wallet.connected
    BY <1>1, <2>2 DEF Wallets
  <2> QED
    BY <1>1, <2>1, <2>3 DEF WalletInv, WalletTypeOK, Wallets
<1>6. CASE Disconnect
  <2>1. wallet' = [wallet EXCEPT !.connected = FALSE, !.grant = 0, !.tier = NoTier]
        /\ UNCHANGED <<prompts, ready>> /\ faults' \in 0..MaxFaults
    BY <1>1, <1>6, FaultsType DEF Disconnect
  <2>2. /\ wallet' \in Wallets /\ wallet'.session = wallet.session /\ wallet'.grant = 0
    BY <1>1, <2>1 DEF Wallets
  <2> QED
    BY <1>1, <2>1, <2>2 DEF WalletInv, WalletTypeOK, Wallets
<1>7. CASE Prompted
  <2>1. PICK p \in DOMAIN prompts : PromptAnswered(p)
    BY <1>7 DEF Prompted
  <2>2. \E answer \in Answers : prompts' = [prompts EXCEPT ![p] = answer]
    BY <2>1 DEF PromptAnswered, Answers
  <2>3. prompts' \in Seq(Answers) /\ Len(prompts') = Len(prompts)
    BY <1>1, <2>2
  <2>4. wallet' = wallet \/ wallet' = [wallet EXCEPT !.grant = 0]
    BY <2>1 DEF PromptAnswered
  <2>5. /\ wallet' \in Wallets /\ wallet'.session = wallet.session
        /\ wallet'.grant = wallet.grant \/ wallet'.grant = 0
        /\ wallet'.connected = wallet.connected
    BY <1>1, <2>4 DEF Wallets
  <2>6. ready' = ready /\ faults' \in 0..MaxFaults
    BY <1>1, <2>1, FaultsType DEF PromptAnswered
  <2>7. \A q \in DOMAIN prompts' : prompts'[q] \in Answers
    BY <2>3
  <2> QED
    BY <1>1, <2>3, <2>5, <2>6, <2>7 DEF WalletInv, WalletTypeOK, Wallets, Answers
<1>8. CASE SignerReady
  BY <1>1, <1>8 DEF SignerReady, Fortune, WalletInv, WalletTypeOK
<1> QED
  BY <1>2, <1>3, <1>4, <1>5, <1>6, <1>7, <1>8 DEF WalletStep

(***************************************************************************)
(* The dialog.                                                             *)
(***************************************************************************)
LEMMA DialogBecomes ==
  ASSUME DialogType, NEW m \in Modals, NEW w, ModalBecomes(m, w)
  PROVE  /\ modal' \in Modals /\ reads' \subseteq People \union {ZeroAddress}
         /\ modal'.open = m.open /\ modal'.click = m.click /\ modal'.gov = m.gov
<1>1. CASE modal' = m /\ UNCHANGED reads
  BY <1>1 DEF DialogType
<1>2. CASE IsCrossOwner(m, w) /\ modal' = m /\ reads' = reads \union {OwnerEvm(m, w)}
  <2>1. OwnerEvm(m, w) \in People \union {ZeroAddress}
    BY <1>2 DEF IsCrossOwner, OwnerEvm, Modals, Addresses
  <2> QED
    BY <1>2, <2>1 DEF DialogType
<1>3. CASE modal' = [m EXCEPT !.ownerTier = Unknown] /\ UNCHANGED reads
  BY <1>3 DEF DialogType, Modals
<1> QED
  BY <1>1, <1>2, <1>3 DEF ModalBecomes

LEMMA DialogResolves ==
  ASSUME DialogType, NEW m \in Modals, NEW input \in OwnerInputs \union {Empty}, Resolve(m, input)
  PROVE  /\ modal' \in Modals /\ reads' \subseteq People \union {ZeroAddress}
         /\ lookups' \subseteq OwnerInputs
         /\ modal'.open = m.open /\ modal'.click = m.click /\ modal'.gov = m.gov
<1>1. ASSUME NEW a \in Addresses, NEW b \in BOOLEAN,
             ModalBecomes([[m EXCEPT !.input = input] EXCEPT !.resolved = a, !.resolving = b], wallet)
      PROVE  /\ modal' \in Modals /\ reads' \subseteq People \union {ZeroAddress}
             /\ modal'.open = m.open /\ modal'.click = m.click /\ modal'.gov = m.gov
  <2> DEFINE t == [[m EXCEPT !.input = input] EXCEPT !.resolved = a, !.resolving = b]
  <2>1. t \in Modals /\ t.open = m.open /\ t.click = m.click /\ t.gov = m.gov
    BY DEF Modals
  <2>2. ModalBecomes(t, wallet)
    BY <1>1
  <2> HIDE DEF t
  <2> QED
    BY <2>1, <2>2, DialogBecomes
<1>2. m.default \in Addresses /\ Nobody \in Addresses
      /\ \A i \in AsIs : Denotes[i] \in Addresses
  BY InputsAssumption DEF Modals, Addresses, AsIs
<1>3. lookups' \subseteq OwnerInputs
  BY DEF Resolve, DialogType
<1>4. CASE input = Empty
  BY <1>1, <1>2, <1>3, <1>4 DEF Resolve, Becomes
<1>5. CASE input # Empty /\ input \in AsIs
  BY <1>1, <1>2, <1>3, <1>5 DEF Resolve, Becomes
<1>6. CASE input # Empty /\ input \notin AsIs
  BY <1>1, <1>2, <1>3, <1>6 DEF Resolve, Becomes
<1> QED
  BY <1>4, <1>5, <1>6

\* A step of the dialog that leaves the click and its route.
LEMMA DialogKept ==
  ASSUME PageInv, modal' \in Modals, reads' \subseteq People \union {ZeroAddress},
         lookups' \subseteq OwnerInputs,
         UNCHANGED <<search, checks, waiting, clicks, chain>>, edits' \in 0..MaxEdits,
         modal'.click = modal.click,
         modal.click # 0 => modal'.open = modal.open /\ modal'.gov = modal.gov
  PROVE  PageInv'
BY DEF PageInv, DialogType, SearchType, RunType, Pointers, Chosen

LEMMA DialogKeeps ==
  ASSUME PageInv,
         \/ OpenModal \/ CloseModal \/ ToggleOther \/ ToggleGovernance
         \/ \E i \in OwnerInputs \union {Empty} : TypeOwner(i)
         \/ \E i \in lookups : Resolved(i)
         \/ \E a \in reads : OwnerTierRead(a)
  PROVE  PageInv'
<1>1. modal \in Modals /\ DialogType /\ edits \in 0..MaxEdits /\ (modal.click # 0 => modal.open)
      /\ MaxEdits \in Nat
  BY InputsAssumption DEF PageInv, DialogType, RunType, Pointers
<1>2. CASE OpenModal
  <2>1. UNCHANGED <<search, checks, waiting, clicks, chain, edits>>
    BY <1>2 DEF OpenModal
  <2>2. CASE modal.open
    BY <1>1, <1>2, <2>1, <2>2, DialogKept DEF OpenModal, DialogType
  <2>3. CASE ~modal.open
    <3> DEFINE m == [modal EXCEPT !.open = TRUE, !.other = FALSE, !.gov = FALSE, !.ownerTier = Unknown]
    <3>1. m \in Modals /\ m.click = modal.click /\ modal.click = 0
      BY <1>1, <2>3 DEF Modals
    <3>2. (Becomes(m) /\ UNCHANGED lookups) \/ Resolve(m, Empty)
      BY <1>2, <2>3 DEF OpenModal
    <3> HIDE DEF m
    <3>3. /\ modal' \in Modals /\ reads' \subseteq People \union {ZeroAddress}
          /\ lookups' \subseteq OwnerInputs /\ modal'.click = modal.click
      BY <1>1, <3>1, <3>2, DialogBecomes, DialogResolves DEF Becomes, DialogType
    <3> QED
      BY <1>1, <2>1, <3>1, <3>3, DialogKept
  <2> QED
    BY <2>2, <2>3
<1>3. CASE CloseModal
  <2>1. modal' = [modal EXCEPT !.open = FALSE] /\ modal.click = 0
        /\ UNCHANGED <<lookups, reads, search, checks, waiting, clicks, chain, edits>>
    BY <1>3 DEF CloseModal
  <2>2. modal' \in Modals /\ modal'.click = modal.click
    BY <1>1, <2>1 DEF Modals
  <2> QED
    BY <1>1, <2>1, <2>2, DialogKept DEF DialogType
<1>4. CASE ToggleOther \/ ToggleGovernance
  <2>1. modal.click = 0 /\ UNCHANGED <<lookups, search, checks, waiting, clicks, chain, edits>>
    BY <1>4 DEF ToggleOther, ToggleGovernance
  <2>2. PICK m \in {[modal EXCEPT !.other = ~@], [modal EXCEPT !.gov = ~@]} : Becomes(m)
    BY <1>4 DEF ToggleOther, ToggleGovernance
  <2>3. m \in Modals /\ m.click = modal.click
    BY <1>1, <2>2 DEF Modals
  <2>4. /\ modal' \in Modals /\ reads' \subseteq People \union {ZeroAddress}
        /\ modal'.click = modal.click
    BY <1>1, <2>2, <2>3, DialogBecomes DEF Becomes
  <2> QED
    BY <1>1, <2>1, <2>4, DialogKept DEF DialogType
<1>5. CASE \E i \in OwnerInputs \union {Empty} : TypeOwner(i)
  <2>1. PICK i \in OwnerInputs \union {Empty} : TypeOwner(i)
    BY <1>5
  <2>2. Resolve(modal, i) /\ modal.click = 0 /\ UNCHANGED <<search, checks, waiting, clicks, chain>>
        /\ edits' \in 0..MaxEdits
    BY <1>1, <2>1 DEF TypeOwner, Edited
  <2>3. /\ modal' \in Modals /\ reads' \subseteq People \union {ZeroAddress}
        /\ lookups' \subseteq OwnerInputs /\ modal'.click = modal.click
    BY <1>1, <2>2, DialogResolves
  <2> QED
    BY <2>2, <2>3, DialogKept
<1>6. CASE \E i \in lookups : Resolved(i)
  <2>1. PICK i \in lookups : Resolved(i)
    BY <1>6
  <2>2. Denotes[i] \in Addresses /\ ZeroAddress \in Addresses /\ modal.resolved \in Addresses
    BY <1>1, InputsAssumption DEF DialogType, Addresses, Modals
  <2>3. PICK a \in Addresses : Becomes([modal EXCEPT !.resolved = a, !.resolving = FALSE])
    <3>1. [modal EXCEPT !.resolving = FALSE] = [modal EXCEPT !.resolved = modal.resolved, !.resolving = FALSE]
      BY <1>1 DEF Modals
    <3> QED
      BY <2>1, <2>2, <3>1 DEF Resolved
  <2> DEFINE m == [modal EXCEPT !.resolved = a, !.resolving = FALSE]
  <2>4. m \in Modals /\ m.click = modal.click /\ m.open = modal.open /\ m.gov = modal.gov
    BY <1>1 DEF Modals
  <2>5. Becomes(m)
    BY <2>3
  <2> HIDE DEF m
  <2>6. /\ modal' \in Modals /\ reads' \subseteq People \union {ZeroAddress}
        /\ modal'.click = modal.click /\ modal'.open = modal.open /\ modal'.gov = modal.gov
    BY <1>1, <2>4, <2>5, DialogBecomes DEF Becomes
  <2>7. lookups' \subseteq OwnerInputs /\ UNCHANGED <<search, checks, waiting, clicks, chain, edits>>
    BY <1>1, <2>1 DEF Resolved, DialogType
  <2> QED
    BY <1>1, <2>6, <2>7, DialogKept
<1>7. CASE \E a \in reads : OwnerTierRead(a)
  <2>1. PICK a \in reads : OwnerTierRead(a)
    BY <1>7
  <2>2. TierOf(a) \in Nat /\ NoTier \in Nat
    BY <1>1, PeopleAssumption DEF TierOf, DialogType
  <2>3. PICK t \in Nat : modal' = [modal EXCEPT !.ownerTier = t]
    BY <2>1, <2>2 DEF OwnerTierRead
  <2>4. /\ modal' \in Modals /\ modal'.click = modal.click /\ modal'.open = modal.open
        /\ modal'.gov = modal.gov
    BY <1>1, <2>3 DEF Modals
  <2>5. reads' \subseteq People \union {ZeroAddress}
        /\ UNCHANGED <<lookups, search, checks, waiting, clicks, chain, edits>>
    BY <1>1, <2>1 DEF OwnerTierRead, DialogType
  <2> QED
    BY <1>1, <2>4, <2>5, DialogKept DEF DialogType
<1> QED
  BY <1>2, <1>3, <1>4, <1>5, <1>6, <1>7

(***************************************************************************)
(* The search field, the wallet and the page.                              *)
(***************************************************************************)
LEMMA SearchKept ==
  ASSUME PageInv, SearchType', UNCHANGED <<modal, lookups, reads, waiting, clicks, chain>>,
         edits' \in 0..MaxEdits
  PROVE  PageInv'
BY DEF PageInv, DialogType, RunType, Pointers, Chosen

LEMMA TypeKeeps ==
  ASSUME PageInv, NEW n \in Names \union {Empty}, Type(n)
  PROVE  PageInv'
<1>1. search \in Searches /\ checks \subseteq NameChecks /\ edits \in 0..MaxEdits /\ MaxEdits \in Nat
  BY InputsAssumption DEF PageInv, SearchType, RunType
<1>2. UNCHANGED <<modal, lookups, reads, waiting, clicks, chain>> /\ edits < MaxEdits /\ edits' = edits + 1
  BY DEF Type, Edited
<1>3. edits' \in 0..MaxEdits
  BY <1>1, <1>2
<1>4. CASE n = Empty
  <2>1. search' = FreshSearch /\ checks' = checks
    BY <1>4 DEF Type
  <2> QED
    BY <1>1, <1>2, <1>3, <2>1, SearchKept DEF FreshSearch, SearchType, Searches
<1>5. CASE n # Empty
  <2>1. search' = [search EXCEPT !.name = n, !.loading = TRUE, !.invalid = FALSE]
        /\ checks' = checks \union {[name |-> n, at |-> "classify"]} /\ n \in Names
    BY <1>5 DEF Type
  <2>2. search' \in Searches
    BY <1>1, <2>1 DEF Searches
  <2>3. checks' \subseteq NameChecks
    BY <1>1, <2>1 DEF NameChecks
  <2> QED
    BY <1>2, <1>3, <2>2, <2>3, SearchKept DEF SearchType
<1> QED
  BY <1>4, <1>5

LEMMA CheckKeeps ==
  ASSUME PageInv, NEW k \in checks, Classified(k) \/ Checked(k)
  PROVE  PageInv'
<1>1. search \in Searches /\ checks \subseteq NameChecks /\ edits \in 0..MaxEdits
  BY DEF PageInv, SearchType, RunType
<1>2. k \in NameChecks /\ Need[k.name] \in 0..Reserved /\ NoTier \in 0..Reserved
  BY <1>1, PeopleAssumption DEF NameChecks
<1>3. checks' \subseteq NameChecks
  <2>1. [k EXCEPT !.at = "availability"] \in NameChecks
    BY <1>2 DEF NameChecks
  <2> QED
    BY <1>1, <2>1 DEF Classified, Checked, Done
<1>4. search' \in Searches
  <2>1. CASE Classified(k)
    <3>1. CASE search' = [search EXCEPT !.need = Need[k.name]]
      BY <1>1, <1>2, <3>1 DEF Searches
    <3>2. CASE search' = [search EXCEPT !.need = NoTier, !.status = "none", !.loading = FALSE,
                                         !.invalid = TRUE]
      <4>1. \A need \in 0..Reserved, status \in {"none"}, loading, invalid \in BOOLEAN :
               [search EXCEPT !.need = need, !.status = status, !.loading = loading,
                              !.invalid = invalid] \in Searches
        BY <1>1 DEF Searches
      <4> QED
        BY <1>2, <3>2, <4>1
    <3> QED
      BY <2>1, <3>1, <3>2 DEF Classified
  <2>2. CASE Checked(k)
    <3>1. PICK free \in BOOLEAN :
             search' = [search EXCEPT !.status = IF free THEN "available" ELSE "taken", !.loading = FALSE]
      BY <2>2 DEF Checked
    <3> QED
      BY <1>1, <3>1 DEF Searches
  <2> QED
    BY <2>1, <2>2
<1> QED
  BY <1>1, <1>3, <1>4, SearchKept DEF Classified, Checked, SearchType

LEMMA WalletChangesKeeps ==
  ASSUME PageInv, WalletChanges
  PROVE  PageInv'
<1>1. modal \in Modals /\ DialogType /\ edits \in 0..MaxEdits
  BY DEF PageInv, DialogType, RunType
<1>2. /\ modal' \in Modals /\ reads' \subseteq People \union {ZeroAddress}
      /\ modal'.open = modal.open /\ modal'.click = modal.click /\ modal'.gov = modal.gov
  BY <1>1, DialogBecomes DEF WalletChanges
<1> QED
  BY <1>1, <1>2, DialogKept DEF WalletChanges, DialogType

(***************************************************************************)
(* The registrations.                                                      *)
(***************************************************************************)
\* The registrations proceed; what they register, and what was chosen, stays.
SameChoices ==
    /\ clicks' \in Seq(Clicks) /\ DOMAIN clicks' = DOMAIN clicks /\ Len(clicks') = Len(clicks)
    /\ \A c \in DOMAIN clicks : clicks'[c].choice = clicks[c].choice
                                /\ clicks'[c].registration = clicks[c].registration

LEMMA ElementOfSeq ==
  ASSUME NEW S, NEW s \in Seq(S), NEW i \in DOMAIN s
  PROVE  s[i] \in S
OBVIOUS

LEMMA Remapped ==
  ASSUME clicks \in Seq(Clicks), clicks' = [c \in DOMAIN clicks |-> clicks'[c]],
         \A c \in DOMAIN clicks : clicks'[c] \in Clicks /\ clicks'[c].choice = clicks[c].choice
                                  /\ clicks'[c].registration = clicks[c].registration
  PROVE  SameChoices
<1>1. clicks' \in Seq(Clicks) /\ DOMAIN clicks' = DOMAIN clicks /\ Len(clicks') = Len(clicks)
  OBVIOUS
<1> QED
  BY <1>1 DEF SameChoices

\* One registration moves on.
LEMMA AtEffect ==
  ASSUME clicks \in Seq(Clicks), NEW c, NEW pc \in Stages, At(c, pc)
  PROVE  SameChoices
<1> DEFINE f(d) == IF d = c THEN [clicks[d] EXCEPT !.pc = pc] ELSE clicks[d]
<1>1. \A d \in DOMAIN clicks : clicks[d] \in Clicks
  BY ElementOfSeq
<1>2. \A e \in Clicks : LET g == [e EXCEPT !.pc = pc]
                        IN  g \in Clicks /\ g.choice = e.choice /\ g.registration = e.registration
  BY DEF Clicks
<1>3. clicks' = [d \in DOMAIN clicks |-> f(d)]
  BY DEF At
<1>4. clicks' = [d \in DOMAIN clicks |-> clicks'[d]] /\ \A d \in DOMAIN clicks : clicks'[d] = f(d)
  BY <1>3
<1>5. \A d \in DOMAIN clicks : f(d) \in Clicks /\ f(d).choice = clicks[d].choice
                               /\ f(d).registration = clicks[d].registration
  BY <1>1, <1>2
<1> HIDE DEF f
<1> QED
  BY <1>4, <1>5, Remapped

\* The choices made are kept if the chain's names are, and the dialog's click with its route.
LEMMA ChosenKept ==
  ASSUME Chosen, SameChoices, chain'.names = chain.names, modal.click \in 0..Len(clicks),
         clicks \in Seq(Clicks),
         modal'.click = 0 \/ (modal'.click = modal.click /\ modal'.gov = modal.gov)
  PROVE  Chosen'
<1>1. modal.click # 0 => modal.click \in DOMAIN clicks
  OBVIOUS
<1> QED
  BY <1>1 DEF Chosen, SameChoices

LEMMA FreshPageKeeps ==
  ASSUME PageInv, NEW default \in Addresses, FreshPage(default), UNCHANGED <<chain, edits>>
  PROVE  PageInv'
<1>1. clicks \in Seq(Clicks) /\ modal.click \in 0..Len(clicks) /\ Len(clicks) \in Nat
      /\ chain.ripe \subseteq 1..Len(clicks) /\ Chosen
  BY DEF PageInv, RunType, Pointers
<1> DEFINE f(c) == IF clicks[c].pc = "waits" THEN [clicks[c] EXCEPT !.pc = "over"] ELSE clicks[c]
<1>2. SameChoices
  <2>1. \A d \in DOMAIN clicks : clicks[d] \in Clicks
    BY <1>1, ElementOfSeq
  <2>2. \A e \in Clicks : LET g == [e EXCEPT !.pc = "over"]
                          IN  g \in Clicks /\ g.choice = e.choice /\ g.registration = e.registration
    BY DEF Clicks, Stages
  <2>3. \A d \in DOMAIN clicks : f(d) \in Clicks /\ f(d).choice = clicks[d].choice
                                 /\ f(d).registration = clicks[d].registration
    BY <2>1, <2>2
  <2>4. clicks' = [c \in DOMAIN clicks |-> f(c)]
    BY DEF FreshPage
  <2>5. clicks' = [d \in DOMAIN clicks |-> clicks'[d]] /\ \A d \in DOMAIN clicks : clicks'[d] = f(d)
    BY <2>4
  <2> HIDE DEF f
  <2> QED
    BY <1>1, <2>3, <2>5, Remapped
<1>3. modal' \in Modals /\ modal'.click = 0
  BY DEF FreshPage, FreshModal, Modals, Addresses
<1>4. DialogType' /\ SearchType'
  BY <1>3 DEF FreshPage, FreshSearch, DialogType, SearchType, Searches
<1>5. waiting' = NotWaiting /\ waiting' \in Waitings
  BY DEF FreshPage, NotWaiting, Waitings
<1>6. Chosen'
  BY <1>1, <1>2, <1>3, ChosenKept
<1>7. Pointers'
  BY <1>1, <1>2, <1>3, <1>5 DEF SameChoices, Pointers, NotWaiting
<1> QED
  BY <1>2, <1>4, <1>5, <1>6, <1>7 DEF PageInv, RunType, SameChoices

\* A registration is started with what the dialog shows.
LEMMA StartKeeps ==
  ASSUME PageInv, StartRegistration
  PROVE  PageInv'
<1>1. /\ modal \in Modals /\ search \in Searches /\ clicks \in Seq(Clicks) /\ chain \in Chains
      /\ Len(clicks) \in Nat /\ Pointers /\ Chosen /\ waiting \in Waitings
  BY DEF PageInv, DialogType, SearchType, RunType
<1> DEFINE new == [choice |-> Choice, registration |-> Choice, pc |-> "commitment"]
           k == Len(clicks) + 1
<1>2. /\ modal.open /\ clicks' = Append(clicks, new) /\ modal' = [modal EXCEPT !.click = k]
      /\ UNCHANGED <<search, checks, lookups, reads, waiting, chain, edits>>
  BY DEF StartRegistration, CanStart
<1>3. Choice \in Choices /\ Choice.gov = modal.gov
  <2>1. OwnerEvm(modal, wallet) \in Addresses
    BY <1>1, PeopleAssumption DEF OwnerEvm, Modals, Addresses
  <2>2. search.name \in Names \union {Empty} /\ modal.gov \in BOOLEAN
        /\ modal.input \in OwnerInputs \union {Empty}
    BY <1>1 DEF Modals, Searches
  <2> QED
    BY <2>1, <2>2 DEF Choice, Choices
<1>4. new \in Clicks
  BY <1>3 DEF Clicks, Stages
<1> HIDE DEF new
<1>5. /\ clicks' \in Seq(Clicks) /\ Len(clicks') = k /\ DOMAIN clicks' = DOMAIN clicks \union {k}
      /\ clicks'[k] = new /\ \A c \in DOMAIN clicks : clicks'[c] = clicks[c]
      /\ DOMAIN clicks = 1..Len(clicks)
  BY <1>1, <1>2, <1>4
<1>6. modal' \in Modals /\ modal'.click = k /\ modal'.open /\ modal'.gov = modal.gov
  <2>1. \A j \in Nat : LET m == [modal EXCEPT !.click = j]
                       IN  m \in Modals /\ m.click = j /\ m.open = modal.open /\ m.gov = modal.gov
    BY <1>1 DEF Modals
  <2>2. k \in Nat
    BY <1>1
  <2> QED
    BY <1>2, <2>1, <2>2
<1>7. Chosen'
  <2>1. new.registration = new.choice /\ new.choice.gov = modal.gov
    BY <1>3 DEF new
  <2> QED
    BY <1>1, <1>2, <1>5, <1>6, <2>1 DEF Chosen
<1>8. Pointers'
  BY <1>1, <1>2, <1>5, <1>6 DEF Pointers
<1> QED
  BY <1>2, <1>5, <1>6, <1>7, <1>8 DEF PageInv, DialogType, SearchType, RunType

\* A step of a registration that frees the dialog or leaves it.
LEMMA RunKept ==
  ASSUME PageInv, SameChoices, UNCHANGED <<search, checks, lookups, reads, edits>>,
         modal' \in Modals,
         modal'.click = 0 \/ (modal'.click = modal.click /\ modal'.open = modal.open
                              /\ modal'.gov = modal.gov),
         waiting' \in Waitings, chain' \in Chains, chain'.names = chain.names,
         chain'.ripe \subseteq 1..Len(clicks),
         waiting'.pending \in 0..Len(clicks), waiting'.reveals \in 0..Len(clicks),
         waiting'.opens \/ waiting'.timer => waiting'.pending # 0,
         waiting'.timer => waiting'.shown /\ waiting'.reveals = 0
                           /\ waiting'.counts \in 1..Len(clicks),
         waiting'.reveals # 0 => waiting'.shown
  PROVE  PageInv'
<1>1. Chosen'
  BY ChosenKept DEF PageInv, RunType, Pointers
<1>2. Pointers'
  BY DEF PageInv, RunType, Pointers, SameChoices
<1> QED
  BY <1>1, <1>2 DEF PageInv, DialogType, SearchType, RunType, SameChoices

LEMMA SameIsSame ==
  ASSUME PageInv, clicks' = clicks
  PROVE  SameChoices
BY DEF PageInv, RunType, SameChoices

LEMMA Frees ==
  ASSUME modal \in Modals, NEW c
  PROVE  /\ Shows(modal, c) \in Modals
         /\ Shows(modal, c).click = 0
            \/ (Shows(modal, c).click = modal.click /\ Shows(modal, c).open = modal.open
                /\ Shows(modal, c).gov = modal.gov)
BY DEF Shows, Modals

LEMMA CommitKeeps ==
  ASSUME PageInv, NEW c \in DOMAIN clicks,
         CommitmentMade(c) \/ CommitmentFails(c) \/ CommitFinalized(c) \/ CommitFails(c) \/ Hangs(c)
  PROVE  PageInv'
<1>1. /\ modal \in Modals /\ clicks \in Seq(Clicks) /\ chain \in Chains /\ waiting \in Waitings
      /\ Pointers /\ Chosen
  BY DEF PageInv, DialogType, RunType
<1>2. UNCHANGED <<search, checks, lookups, reads, waiting, chain, edits>>
  BY DEF CommitmentMade, CommitmentFails, CommitFinalized, CommitFails, CommitThrows, Hangs
<1>3. modal' = modal \/ modal' = Shows(modal, c)
  BY DEF CommitmentMade, CommitmentFails, CommitFinalized, CommitFails, CommitThrows, FreedModal, Hangs
<1>4. /\ modal' \in Modals
      /\ modal'.click = 0 \/ (modal'.click = modal.click /\ modal'.open = modal.open
                              /\ modal'.gov = modal.gov)
  BY <1>1, <1>3, Frees
<1>5. SameChoices
  <2>1. CASE CommitmentMade(c)
    <3> DEFINE made == [clicks[c] EXCEPT !.pc = "readyToCommit", !.registration = clicks[c].choice]
    <3>1. clicks' = [clicks EXCEPT ![c] = made]
      BY <2>1 DEF CommitmentMade, Fixed
    <3>2. clicks[c] \in Clicks /\ clicks[c].registration = clicks[c].choice
      BY <1>1, ElementOfSeq DEF Chosen
    <3>3. made \in Clicks /\ made.choice = clicks[c].choice /\ made.registration = clicks[c].registration
      BY <3>2 DEF Clicks, Stages
    <3> HIDE DEF made
    <3>4. clicks' = [d \in DOMAIN clicks |-> clicks'[d]]
          /\ \A d \in DOMAIN clicks : clicks'[d] = IF d = c THEN made ELSE clicks[d]
      BY <3>1
    <3>5. \A d \in DOMAIN clicks : clicks[d] \in Clicks
      BY <1>1, ElementOfSeq
    <3> QED
      BY <1>1, <3>3, <3>4, <3>5, Remapped
  <2>2. CASE CommitFinalized(c) \/ Hangs(c)
    BY <1>1, <2>2, AtEffect DEF CommitFinalized, Hangs, Stages
  <2>3. CASE CommitmentFails(c) \/ CommitFails(c)
    BY <1>1, <2>3, AtEffect DEF CommitmentFails, CommitFails, CommitThrows, Stages
  <2> QED
    BY <2>1, <2>2, <2>3
<1> QED
  BY <1>1, <1>2, <1>4, <1>5, RunKept DEF Pointers

\* The dialog of the click hands its registration to the countdown, route and all.
LEMMA AgeReadKeeps ==
  ASSUME PageInv, NEW c \in DOMAIN clicks, AgeRead(c)
  PROVE  PageInv'
<1>1. /\ modal \in Modals /\ clicks \in Seq(Clicks) /\ chain \in Chains /\ waiting \in Waitings
      /\ Pointers /\ Chosen /\ c \in 1..Len(clicks) /\ Len(clicks) \in Nat
  BY DEF PageInv, DialogType, RunType
<1>2. UNCHANGED <<search, checks, lookups, reads, chain, edits>>
  BY DEF AgeRead
<1>3. CASE InModal(c)
  <2>1. modal.gov = clicks[c].registration.gov
    BY <1>1, <1>3 DEF InModal, Chosen
  <2> DEFINE after == [clicks[c] EXCEPT !.pc = "waits", !.registration.gov = modal.gov]
  <2>2. /\ clicks' = [clicks EXCEPT ![c] = after]
        /\ waiting' = [waiting EXCEPT !.pending = c, !.opens = TRUE]
        /\ modal' = [Shows(modal, c) EXCEPT !.open = FALSE]
    BY <1>3 DEF AgeRead
  <2>3. \A d \in DOMAIN clicks : clicks[d] \in Clicks
    BY <1>1, ElementOfSeq
  <2>4. after \in Clicks /\ after.choice = clicks[c].choice /\ after.registration = clicks[c].registration
    <3>1. clicks[c] \in Clicks /\ clicks[c].registration \in Choices
      BY <2>3 DEF Clicks
    <3>2. [clicks[c].registration EXCEPT !.gov = modal.gov] = clicks[c].registration
      BY <2>1, <3>1 DEF Choices
    <3>3. after = [clicks[c] EXCEPT !.pc = "waits",
                      !.registration = [clicks[c].registration EXCEPT !.gov = modal.gov]]
      BY <3>1 DEF Clicks
    <3> HIDE DEF after
    <3>4. \A r \in Choices : LET g == [clicks[c] EXCEPT !.pc = "waits", !.registration = r]
                             IN  g \in Clicks /\ g.choice = clicks[c].choice /\ g.registration = r
      BY <3>1 DEF Clicks, Stages
    <3> QED
      BY <3>1, <3>2, <3>3, <3>4
  <2> HIDE DEF after
  <2>5. clicks' = [d \in DOMAIN clicks |-> clicks'[d]]
        /\ \A d \in DOMAIN clicks : clicks'[d] = IF d = c THEN after ELSE clicks[d]
    BY <2>2
  <2>6. SameChoices
    BY <1>1, <2>3, <2>4, <2>5, Remapped
  <2>7. modal' \in Modals /\ modal'.click = 0
    BY <1>1, <1>3, <2>2 DEF InModal, Shows, Modals
  <2>8. /\ waiting' \in Waitings /\ waiting'.pending = c /\ waiting'.reveals = waiting.reveals
        /\ waiting'.timer = waiting.timer /\ waiting'.shown = waiting.shown
        /\ waiting'.counts = waiting.counts
    <3>1. \A k \in Nat :
             LET w == [waiting EXCEPT !.pending = k, !.opens = TRUE]
             IN  /\ w \in Waitings /\ w.pending = k /\ w.reveals = waiting.reveals
                 /\ w.timer = waiting.timer /\ w.shown = waiting.shown /\ w.counts = waiting.counts
      BY <1>1 DEF Waitings
    <3>2. c \in Nat
      BY <1>1
    <3> QED
      BY <2>2, <3>1, <3>2
  <2> QED
    BY <1>1, <1>2, <2>6, <2>7, <2>8, RunKept DEF Pointers
<1>4. CASE ~InModal(c)
  <2>1. At(c, "over") /\ UNCHANGED <<waiting, modal>>
    BY <1>4 DEF AgeRead
  <2>2. SameChoices
    BY <1>1, <2>1, AtEffect DEF Stages
  <2> QED
    BY <1>1, <1>2, <2>1, <2>2, RunKept DEF Pointers
<1> QED
  BY <1>3, <1>4

\* What the countdown may do to its state.
WaitingOk ==
    /\ waiting' \in Waitings
    /\ waiting'.pending = waiting.pending /\ waiting'.reveals \in 0..Len(clicks)
    /\ waiting'.opens \/ waiting'.timer => waiting'.pending # 0
    /\ waiting'.timer => waiting'.shown /\ waiting'.reveals = 0 /\ waiting'.counts \in 1..Len(clicks)
    /\ waiting'.reveals # 0 => waiting'.shown

LEMMA CountdownKept ==
  ASSUME PageInv, SameChoices, WaitingOk,
         UNCHANGED <<search, checks, modal, lookups, reads, chain, edits>>
  PROVE  PageInv'
<1>1. /\ modal \in Modals /\ chain \in Chains /\ Pointers
  BY DEF PageInv, DialogType, RunType
<1> QED
  BY <1>1, RunKept DEF Pointers, WaitingOk

LEMMA CountdownKeeps ==
  ASSUME PageInv, OpenWaiting \/ CancelWaiting \/ CountdownEnds \/ CountdownFails
  PROVE  PageInv'
<1>1. /\ waiting \in Waitings /\ clicks \in Seq(Clicks) /\ Pointers /\ Len(clicks) \in Nat
  BY DEF PageInv, RunType
<1>2. UNCHANGED <<search, checks, modal, lookups, reads, chain, edits>>
  BY DEF OpenWaiting, CancelWaiting, CountdownEnds, CountdownFails
<1>3. CASE OpenWaiting
  <2>1. /\ waiting' = [Show(waiting) EXCEPT !.opens = FALSE] /\ waiting.opens /\ clicks' = clicks
    BY <1>3 DEF OpenWaiting
  <2>2. CASE waiting.shown
    <3>1. waiting' = [waiting EXCEPT !.opens = FALSE]
      BY <2>1, <2>2 DEF Show
    <3>2. WaitingOk
      BY <1>1, <3>1 DEF WaitingOk, Waitings, Pointers
    <3> QED
      BY <1>2, <2>1, <3>2, CountdownKept, SameIsSame
  <2>3. CASE ~waiting.shown
    <3>1. waiting' = [waiting EXCEPT !.shown = TRUE, !.timer = TRUE, !.counts = waiting.pending,
                                     !.opens = FALSE]
      BY <1>1, <2>1, <2>3 DEF Show, StartCountdown, Waitings
    <3>2. waiting.reveals = 0 /\ waiting.pending \in 1..Len(clicks)
      BY <1>1, <2>1, <2>3 DEF Pointers
    <3>3. /\ waiting' \in Waitings /\ waiting'.pending = waiting.pending
          /\ waiting'.reveals = 0 /\ waiting'.shown /\ waiting'.counts = waiting.pending
      BY <1>1, <3>1, <3>2 DEF Waitings
    <3>4. WaitingOk
      BY <1>1, <3>2, <3>3 DEF WaitingOk
    <3> QED
      BY <1>2, <2>1, <3>4, CountdownKept, SameIsSame
  <2> QED
    BY <2>2, <2>3
<1>4. CASE CancelWaiting
  <2>1. /\ waiting' = [waiting EXCEPT !.shown = FALSE, !.timer = FALSE] /\ waiting.reveals = 0
        /\ clicks' = clicks
    BY <1>4 DEF CancelWaiting
  <2>2. WaitingOk
    BY <1>1, <2>1 DEF WaitingOk, Waitings, Pointers
  <2> QED
    BY <1>2, <2>1, <2>2, CountdownKept, SameIsSame
<1>5. ASSUME CountdownEnds \/ CountdownFails
      PROVE  waiting.timer /\ waiting.pending \in 1..Len(clicks) /\ waiting.shown
  BY <1>1, <1>5 DEF CountdownEnds, CountdownFails, CountdownOver, Pointers
<1>6. CASE CountdownEnds
  <2>1. /\ waiting' = [waiting EXCEPT !.timer = FALSE, !.reveals = waiting.pending]
        /\ At(waiting.pending, "readyToReveal")
    BY <1>6 DEF CountdownEnds
  <2>2. /\ waiting' \in Waitings /\ waiting'.pending = waiting.pending /\ ~waiting'.timer
        /\ waiting'.reveals = waiting.pending /\ waiting'.shown = waiting.shown
        /\ waiting'.opens = waiting.opens
    BY <1>1, <2>1 DEF Waitings
  <2>3. WaitingOk
    BY <1>1, <1>5, <1>6, <2>2 DEF WaitingOk
  <2>4. SameChoices
    BY <1>1, <2>1, AtEffect DEF Stages
  <2> QED
    BY <1>2, <2>3, <2>4, CountdownKept
<1>7. CASE CountdownFails
  <2>1. /\ waiting' = [waiting EXCEPT !.timer = FALSE, !.shown = FALSE]
        /\ At(waiting.pending, "revealed")
    BY <1>7 DEF CountdownFails
  <2>2. WaitingOk
    BY <1>1, <1>5, <1>7, <2>1 DEF WaitingOk, Waitings, Pointers
  <2>3. SameChoices
    BY <1>1, <2>1, AtEffect DEF Stages
  <2> QED
    BY <1>2, <2>2, <2>3, CountdownKept
<1> QED
  BY <1>3, <1>4, <1>6, <1>7

LEMMA SignerIsReadyKeeps ==
  ASSUME PageInv, SignerIsReady
  PROVE  PageInv'
<1>1. waiting \in Waitings /\ clicks \in Seq(Clicks) /\ Pointers
  BY DEF PageInv, RunType
<1>2. UNCHANGED <<search, checks, modal, lookups, reads, waiting, chain, edits>>
  BY DEF SignerIsReady
<1>3. SameChoices
  <2>1. clicks' = [c \in DOMAIN clicks |-> clicks'[c]]
        /\ \A c \in DOMAIN clicks : \E pc \in Stages :
              clicks'[c] = clicks[c] \/ clicks'[c] = [clicks[c] EXCEPT !.pc = pc]
    BY DEF SignerIsReady, Stages
  <2>2. \A c \in DOMAIN clicks : clicks[c] \in Clicks
    BY <1>1, ElementOfSeq
  <2>3. \A e \in Clicks, pc \in Stages :
           LET g == [e EXCEPT !.pc = pc]
           IN  g \in Clicks /\ g.choice = e.choice /\ g.registration = e.registration
    BY DEF Clicks
  <2>4. ASSUME NEW c \in DOMAIN clicks
        PROVE  clicks'[c] \in Clicks /\ clicks'[c].choice = clicks[c].choice
               /\ clicks'[c].registration = clicks[c].registration
    <3>1. PICK pc \in Stages : clicks'[c] = clicks[c] \/ clicks'[c] = [clicks[c] EXCEPT !.pc = pc]
      BY <2>1
    <3> QED
      BY <2>2, <2>3, <3>1
  <2> QED
    BY <1>1, <2>1, <2>4, Remapped
<1>4. WaitingOk
  BY <1>1, <1>2 DEF WaitingOk, Pointers
<1> QED
  BY <1>2, <1>3, <1>4, CountdownKept

\* A reveal ends: the chain gives the name to the registration that named it.
LEMMA RevealKeeps ==
  ASSUME PageInv, NEW c \in DOMAIN clicks, RevealFinalized(c) \/ RevealFails(c) \/ Ripens(c)
  PROVE  PageInv'
<1>1. /\ modal \in Modals /\ waiting \in Waitings /\ clicks \in Seq(Clicks) /\ chain \in Chains
      /\ Pointers /\ Chosen /\ c \in 1..Len(clicks) /\ Len(clicks) \in Nat
  BY DEF PageInv, DialogType, RunType
<1>2. UNCHANGED <<search, checks, modal, lookups, reads, edits>>
  BY DEF RevealFinalized, RevealFails, RevealThrows, Ripens
<1>3. CASE Ripens(c)
  <2>1. clicks' = clicks /\ waiting' = waiting /\ chain' = [chain EXCEPT !.ripe = @ \union {c}]
    BY <1>3 DEF Ripens
  <2>2. chain' \in Chains /\ chain'.names = chain.names /\ chain'.ripe \subseteq 1..Len(clicks)
    BY <1>1, <2>1 DEF Chains, Pointers
  <2> QED
    BY <1>1, <1>2, <2>1, <2>2, SameIsSame, RunKept DEF Pointers
<1>4. ASSUME RevealFinalized(c) \/ RevealFails(c)
      PROVE  SameChoices /\ WaitingOk
  <2>1. At(c, "revealed")
    BY <1>4 DEF RevealFinalized, RevealFails, RevealThrows
  <2>2. SameChoices
    BY <1>1, <2>1, AtEffect DEF Stages
  <2>3. CASE waiting.reveals = c
    <3>1. waiting' = [waiting EXCEPT !.shown = FALSE, !.reveals = 0]
      BY <1>4, <2>3 DEF RevealFinalized, RevealFails, RevealThrows
    <3>2. /\ waiting' \in Waitings /\ waiting'.pending = waiting.pending /\ waiting'.reveals = 0
          /\ waiting'.opens = waiting.opens /\ waiting'.timer = waiting.timer
      BY <1>1, <3>1 DEF Waitings
    <3>3. ~waiting.timer
      BY <1>1, <2>3 DEF Pointers
    <3> QED
      BY <1>1, <2>2, <3>2, <3>3 DEF WaitingOk, Pointers
  <2>4. CASE waiting.reveals # c
    <3>1. UNCHANGED waiting
      BY <1>4, <2>4 DEF RevealFinalized, RevealFails, RevealThrows
    <3> QED
      BY <1>1, <2>2, <3>1 DEF WaitingOk, Pointers
  <2> QED
    BY <2>3, <2>4
<1>5. CASE RevealFails(c)
  <2>1. UNCHANGED chain
    BY <1>5 DEF RevealFails, RevealThrows
  <2> QED
    BY <1>2, <1>4, <1>5, <2>1, CountdownKept
<1>6. CASE RevealFinalized(c)
  <2> DEFINE name == clicks[c].registration.name
  <2>1. chain' = [chain EXCEPT !.names[name] = c] /\ SameChoices /\ WaitingOk
    BY <1>4, <1>6 DEF RevealFinalized
  <2>2. name = clicks[c].choice.name
    BY <1>1 DEF Chosen
  <2> HIDE DEF name
  <2>3. /\ chain' \in Chains /\ chain'.ripe = chain.ripe
        /\ \A n \in Names : chain'.names[n] = IF n = name THEN c ELSE chain.names[n]
    <3>1. chain' = [chain EXCEPT !.names = [chain.names EXCEPT ![name] = c]]
      BY <1>1, <2>1 DEF Chains
    <3>2. chain.names \in [Names -> Nat] /\ c \in Nat
      BY <1>1 DEF Chains
    <3>3. [chain.names EXCEPT ![name] = c] \in [Names -> Nat]
      BY <3>2
    <3>4. \A f \in [Names -> Nat] : LET ch == [chain EXCEPT !.names = f]
                                   IN  ch \in Chains /\ ch.ripe = chain.ripe /\ ch.names = f
      BY <1>1 DEF Chains
    <3> QED
      BY <3>1, <3>2, <3>3, <3>4
  <2>4. Chosen'
    <3>1. modal.click # 0 => modal.click \in DOMAIN clicks
      BY <1>1 DEF Pointers
    <3> QED
      BY <1>1, <1>2, <2>1, <2>2, <2>3, <3>1 DEF Chosen, SameChoices
  <2>5. Pointers'
    BY <1>1, <1>2, <2>1, <2>3 DEF Pointers, SameChoices, WaitingOk
  <2> QED
    BY <1>2, <2>1, <2>3, <2>4, <2>5 DEF PageInv, DialogType, SearchType, RunType, SameChoices, WaitingOk
<1> QED
  BY <1>3, <1>5, <1>6

(***************************************************************************)
(* The theorems.                                                           *)
(***************************************************************************)
LEMMA InitInv == Init => IInv
<1> SUFFICES ASSUME Init PROVE IInv
  OBVIOUS
<1>1. WalletInv
  BY WalletAssumption DEF Init, WalletInit, WalletInv, WalletTypeOK, Wallets, Answers
<1>2. search \in Searches /\ modal \in Modals /\ waiting \in Waitings /\ chain \in Chains
  BY DEF Init, FreshSearch, FreshModal, NotWaiting, Searches, Modals, Waitings, Chains, Addresses
<1>3. Pointers /\ Chosen
  BY DEF Init, FreshModal, NotWaiting, Pointers, Chosen
<1> QED
  BY <1>1, <1>2, <1>3, InputsAssumption DEF Init, IInv, PageInv, DialogType, SearchType, RunType

LEMMA StepPage == ASSUME PageInv, Next PROVE PageInv'
<1>1. CASE User
  <2>1. CASE Leave \/ ConnectsAgain
    <3>1. Me \in Addresses /\ Nobody \in Addresses
      BY PeopleAssumption DEF Addresses
    <3> QED
      BY <2>1, <3>1, FreshPageKeeps DEF Leave, ConnectsAgain
  <2> QED
    BY <1>1, <2>1, TypeKeeps, DialogKeeps, StartKeeps, CountdownKeeps DEF User
<1>2. CASE Reads
  BY <1>2, CheckKeeps, DialogKeeps DEF Reads
<1>3. CASE Proceeds \/ \E c \in DOMAIN clicks : Hangs(c)
  BY <1>3, CommitKeeps, AgeReadKeeps, RevealKeeps, CountdownKeeps, SignerIsReadyKeeps
     DEF Proceeds, Registers
<1> QED
  BY <1>1, <1>2, <1>3, WalletChangesKeeps DEF Next

LEMMA StepWallet == ASSUME WalletInv, Next PROVE WalletInv'
<1>1. CASE WalletStep \/ Connect \/ SignerReady
  BY <1>1, SessionKeeps
<1>2. CASE UNCHANGED walletVars /\ (Fortune \/ Misfortune)
  BY <1>2, SameWallet
<1>3. CASE CanWrite /\ EnsureSignerReady /\ (Fortune \/ Misfortune)
  BY <1>3, SignerAsked
<1>4. CASE User
  BY <1>1, <1>2, <1>4
     DEF User, Type, OpenModal, CloseModal, ToggleOther, ToggleGovernance, TypeOwner,
         StartRegistration, CancelWaiting, Leave, ConnectsAgain
<1>5. CASE Reads
  BY <1>2, <1>5 DEF Reads, Classified, Checked, Resolved, OwnerTierRead
<1>6. CASE \E c \in DOMAIN clicks : Registers(c)
  <2>1. PICK c \in DOMAIN clicks : Registers(c)
    BY <1>6
  <2> QED
    BY <1>2, <1>3, <2>1
       DEF Registers, CommitmentMade, CommitmentFails, CommitThrows, CommitFinalized, CommitFails,
           AgeRead, RevealFinalized, RevealFails, Ripens
<1>7. CASE OpenWaiting \/ CountdownEnds \/ CountdownFails \/ SignerIsReady
  BY <1>1, <1>2, <1>3, <1>7
     DEF OpenWaiting, CountdownEnds, CountdownFails, CountdownOver, Revealable, SignerIsReady
<1>8. CASE \E c \in DOMAIN clicks : Hangs(c)
  BY <1>2, <1>8 DEF Hangs
<1> QED
  BY <1>1, <1>4, <1>5, <1>6, <1>7, <1>8 DEF Next, Proceeds, WalletChanges

\* The inductive invariant of the registration dialog.
THEOREM Invariance == Spec => []IInv
<1>1. IInv /\ [Next]_vars => IInv'
  <2>1. CASE UNCHANGED vars
    <3>1. ASSUME WalletInv PROVE WalletInv'
      BY <2>1, <3>1, SameWallet DEF vars, Fortune, WalletInv, WalletTypeOK
    <3>2. ASSUME PageInv PROVE PageInv'
      BY <2>1, <3>2 DEF vars, PageInv, DialogType, SearchType, RunType, Pointers, Chosen
    <3> QED
      BY <3>1, <3>2 DEF IInv
  <2> QED
    BY <2>1, StepPage, StepWallet DEF IInv
<1> QED
  BY <1>1, InitInv, PTL DEF Spec

\* Type correctness of the page and its wallet: in particular a countdown that runs belongs
\* to a registration that exists, and is shown, and nothing is being revealed meanwhile.
THEOREM TypeCorrect == Spec => []TypeOK
<1>1. ASSUME IInv PROVE TypeOK
  <2>1. /\ WalletTypeOK /\ search \in Searches /\ modal \in Modals /\ lookups \subseteq OwnerInputs
        /\ waiting \in Waitings /\ clicks \in Seq(Clicks) /\ Pointers /\ edits \in 0..MaxEdits
    BY <1>1 DEF IInv, WalletInv, PageInv, DialogType, SearchType, RunType
  <2>2. /\ search.name \in Names \union {Empty} /\ search.status \in {"none", "available", "taken"}
        /\ search.need \in {Unknown} \union 0..Reserved
        /\ search.loading \in BOOLEAN /\ search.invalid \in BOOLEAN
    BY <2>1 DEF Searches
  <2>3. /\ modal.input \in OwnerInputs \union {Empty}
        /\ {modal.resolved, modal.default} \subseteq People \union {Nobody, ZeroAddress}
    BY <2>1 DEF Modals, Addresses
  <2>4. \A c \in DOMAIN clicks : clicks[c].pc \in Stages
    <3>1. \A c \in DOMAIN clicks : clicks[c] \in Clicks
      BY <2>1, ElementOfSeq
    <3> QED
      BY <3>1 DEF Clicks
  <2>5. DOMAIN clicks = 1..Len(clicks)
    BY <2>1
  <2> QED
    BY <2>1, <2>2, <2>3, <2>4, <2>5 DEF TypeOK, Pointers, Stages
<1> QED
  BY <1>1, Invariance, PTL

\* Whatever the user types, closes or starts meanwhile, and whichever late answers come,
\* a name is registered with the owner and by the route of the dialog's button press:
\* RegisterModal.vue keeps its click's form until the commitment is handed to the countdown.
THEOREM ChosenIsRegistered == Spec => []RegisteredAsChosen
<1>1. ASSUME IInv PROVE RegisteredAsChosen
  BY <1>1 DEF IInv, PageInv, Chosen, RegisteredAsChosen
<1> QED
  BY <1>1, Invariance, PTL
===============================================================================
