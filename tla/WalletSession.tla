---------------------------- MODULE WalletSession ----------------------------
(***************************************************************************)
(* The wallet of the web application (packages/ui, useWalletStore.ts): the *)
(* account the host gives it, the permission to submit transactions that   *)
(* is asked for whenever it connects, and what every write awaits before   *)
(* it signs.  Writes that begin meanwhile share what the first awaits.     *)
(***************************************************************************)
EXTENDS Integers, Sequences

CONSTANTS
    MyTier,         \* the account's tier of personhood
    MaxConnects,    \* bound: connections
    MaxFaults       \* bound: failing calls, refused prompts, dropped sessions

NoTier == 0
ASSUME WalletAssumption ==
    /\ MyTier \in Nat /\ MaxConnects \in Nat \ {0} /\ MaxFaults \in Nat

VARIABLES
    wallet,     \* the store
    prompts,    \* the requests for ChainSubmit made so far
    ready,      \* pendingSignerReady: the request its writes await, 0 if there is none
    faults

walletVars == <<wallet, prompts, ready>>

Misfortune == faults < MaxFaults /\ faults' = faults + 1
Fortune    == UNCHANGED faults

\* The host signs once it was granted; that it may forget a grant is left out.
Granted == \E p \in DOMAIN prompts : prompts[p] = "granted"

\* init connects when the application starts; it is the one time the tier is read.
WalletInit ==
    /\ wallet = [connected |-> FALSE, connecting |-> TRUE, session |-> 1, grant |-> 0,
                 tier |-> NoTier, tierRead |-> "never"]
    /\ prompts = <<>> /\ ready = 0 /\ faults = 0

\* ensureChainSubmit: a request is shared, also after its answer, until it fails or
\* the session ends.
EnsureChainSubmit(w) ==
    /\ wallet' = [w EXCEPT !.grant = IF @ = 0 THEN Len(prompts) + 1 ELSE @]
    /\ prompts' = IF w.grant # 0 THEN prompts ELSE Append(prompts, "open")

(***************************************************************************)
(* connectWallet and handleDisconnect.                                     *)
(***************************************************************************)
Connect ==
    /\ ~wallet.connected /\ ~wallet.connecting /\ wallet.session < MaxConnects
    /\ wallet' = [wallet EXCEPT !.connecting = TRUE, !.session = @ + 1]
    /\ UNCHANGED <<prompts, ready>> /\ Fortune

Connected ==
    /\ wallet.connecting
    /\ EnsureChainSubmit([wallet EXCEPT !.connecting = FALSE, !.connected = TRUE,
           !.tierRead = IF wallet.session = 1 THEN "asked" ELSE @])
    /\ UNCHANGED ready /\ Fortune

ConnectFails ==
    /\ wallet.connecting /\ Misfortune
    /\ wallet' = [wallet EXCEPT !.connecting = FALSE]
    /\ UNCHANGED <<prompts, ready>>

\* A read that fails counts as no status.
TierRead ==
    /\ wallet.tierRead = "asked"
    /\ \/ wallet' = [wallet EXCEPT !.tierRead = "read", !.tier = MyTier] /\ Fortune
       \/ wallet' = [wallet EXCEPT !.tierRead = "read", !.tier = NoTier] /\ Misfortune
    /\ UNCHANGED <<prompts, ready>>

Disconnect ==
    /\ wallet.connected /\ Misfortune
    /\ wallet' = [wallet EXCEPT !.connected = FALSE, !.grant = 0, !.tier = NoTier]
    /\ UNCHANGED <<prompts, ready>>

(***************************************************************************)
(* The host answers a request; one that fails lets the next write ask      *)
(* again, whichever session it was made for.                               *)
(***************************************************************************)
PromptAnswered(p) ==
    /\ prompts[p] = "open"
    /\ \/ prompts' = [prompts EXCEPT ![p] = "granted"] /\ Fortune /\ UNCHANGED wallet
       \/ prompts' = [prompts EXCEPT ![p] = "denied"] /\ Misfortune /\ UNCHANGED wallet
       \/ /\ prompts' = [prompts EXCEPT ![p] = "failed"] /\ Misfortune
          /\ wallet' = [wallet EXCEPT !.grant = 0]
    /\ UNCHANGED ready

(***************************************************************************)
(* ensureSignerReady.  It awaits the request's answer, whatever that is;   *)
(* then it asks for allowances, and a refusal of those is only logged.     *)
(***************************************************************************)
CanWrite == wallet.connected \/ ready # 0
EnsureSignerReady ==
    IF ready # 0 THEN UNCHANGED walletVars
    ELSE EnsureChainSubmit(wallet) /\ ready' = wallet'.grant

\* The writes then go on, or fail if there is no account any more.
SignerReady ==
    /\ ready # 0 /\ prompts[ready] # "open"
    /\ ready' = 0
    /\ UNCHANGED <<wallet, prompts>> /\ Fortune

Prompted == \E p \in DOMAIN prompts : PromptAnswered(p)
WalletStep == Connected \/ ConnectFails \/ TierRead \/ Disconnect \/ Prompted

WalletTypeOK ==
    /\ wallet.connected \in BOOLEAN /\ wallet.connecting \in BOOLEAN
    /\ wallet.session \in 1..MaxConnects
    /\ wallet.grant \in 0..Len(prompts) /\ (~wallet.connected => wallet.grant = 0)
    /\ wallet.tier \in {NoTier, MyTier} /\ wallet.tierRead \in {"never", "asked", "read"}
    /\ \A p \in DOMAIN prompts : prompts[p] \in {"open", "granted", "denied", "failed"}
    /\ ready \in 0..Len(prompts)
    /\ faults \in 0..MaxFaults
=============================================================================
