---------------------------- MODULE DotnsContracts ----------------------------
(***************************************************************************)
(* The DotNS contracts as the registration command sees them: one name, its *)
(* commitments, its price and its owner.  The contracts are not in this    *)
(* repository; their rules are those the commands rely on and the          *)
(* documentation of the controller lists (when commit and register revert).*)
(***************************************************************************)
EXTENDS SigningAccount

CONSTANTS
    Owners,         \* accounts that may own the name
    Me,             \* the account that signs
    Rival,          \* an account somebody else signs with
    Nobody,         \* the zero address: the name is not registered
    Secrets,        \* reveal secrets that may be drawn
    Prices,         \* prices the name may have
    Friction        \* transferFloor: charged when the payer is not the owner

ASSUME AccountsAssumption ==
    /\ Me \in Owners /\ Rival \in Owners /\ Me # Rival
    /\ Nobody \notin Owners
ASSUME PricesAssumption == Prices \subseteq Nat /\ Friction \in Nat

VARIABLES
    owner,          \* ownerOf(name)
    age,            \* how old each commitment is
    labelSet,       \* the registrar knows the label
    price           \* priceWithoutCheck(name)

contractVars == <<owner, age, labelSet, price>>

Hashes == [secret : Secrets, owner : Owners]

(***************************************************************************)
(* The age of a commitment, as far as anything compares it: below the      *)
(* minimum age, up to the maximum age, beyond it.                          *)
(***************************************************************************)
Ages == {"none", "new", "ripe", "expired"}

CommitCall(h)      == [kind |-> "commit", hash |-> h]
RegisterCall(h, v) == [kind |-> "register", hash |-> h, value |-> v]
ReservedCall(h)    == [kind |-> "registerReserved", hash |-> h]
ClaimCall          == [kind |-> "claimLabelStore"]
SyncCall           == [kind |-> "syncLabel"]
TransferCall(a)    == [kind |-> "transfer", to |-> a]
IsReveal(call)     == call.kind \in {"register", "registerReserved"}

\* register() wants max(price, transferFloor).
Charge(p, to) == IF to # Me /\ Friction > p THEN Friction ELSE p

RevealVerdict(h) ==
    IF owner # Nobody THEN "taken" ELSE IF age[h] # "ripe" THEN "age" ELSE "success"

\* What the call does if it runs now; a dry run asks the same.
Verdict(call) ==
    CASE call.kind = "commit" ->
             IF age[call.hash] \in {"new", "ripe"} THEN "unexpired" ELSE "success"
      [] call.kind = "register" ->
             IF RevealVerdict(call.hash) = "success" /\ call.value < Charge(price, call.hash.owner)
             THEN "underpaid" ELSE RevealVerdict(call.hash)
      [] call.kind = "registerReserved" -> RevealVerdict(call.hash)
      [] call.kind = "claimLabelStore" -> "success"
      [] call.kind = "syncLabel" -> IF labelSet THEN "labelSet" ELSE "success"
      [] call.kind = "transfer" -> IF owner = Me THEN "success" ELSE "notOwner"

Verdicts == {"success", "taken", "age", "unexpired", "underpaid", "labelSet", "notOwner"}

\* Whether a reveal clears its commitment is the contract's business.
AgeAfter(h, a) == age' = [age EXCEPT ![h] = a]

Effect(call) ==
    /\ owner' = CASE IsReveal(call)           -> call.hash.owner
                  [] call.kind = "transfer"   -> call.to
                  [] OTHER                    -> owner
    /\ labelSet' = (labelSet \/ call.kind = "syncLabel")
    /\ CASE call.kind = "commit" -> AgeAfter(call.hash, "new")
         [] IsReveal(call)       -> \E a \in {"none", "ripe"} : AgeAfter(call.hash, a)
         [] OTHER                -> UNCHANGED age
    /\ UNCHANGED price

\* The next transaction of the account executes.
Execute ==
    \E t \in pool :
        /\ t.nonce = Len(ledger)
        /\ Include(Verdict(t.call))
        /\ IF Verdict(t.call) = "success" THEN Effect(t.call) ELSE UNCHANGED contractVars

\* Chain time passes the minimum age of a commitment, and its maximum age.
Ripens  == /\ \E h \in Hashes : age[h] = "new" /\ age' = [age EXCEPT ![h] = "ripe"]
           /\ UNCHANGED <<owner, labelSet, price>>
Expires == /\ \E h \in Hashes : age[h] = "ripe" /\ age' = [age EXCEPT ![h] = "expired"]
           /\ UNCHANGED <<owner, labelSet, price>>

\* Somebody else registers the name first; the price moves.
RivalRegisters == owner = Nobody /\ owner' = Rival /\ UNCHANGED <<age, labelSet, price>>
PriceMoves     == price' \in Prices \ {price} /\ UNCHANGED <<owner, age, labelSet>>

ContractsInit ==
    /\ owner = Nobody
    /\ age = [h \in Hashes |-> "none"]
    /\ labelSet \in BOOLEAN
    /\ price \in Prices
===============================================================================
