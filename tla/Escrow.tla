-------------------------------- MODULE Escrow --------------------------------
(***************************************************************************)
(* The deposits and refunds an account gets back from the name escrow      *)
(* (packages/ui: components/profile/EscrowTab.vue, store/useEscrowStore.ts,*)
(* lib/contractWrite.ts; packages/cli: commands/escrow.ts,                 *)
(* cli/commands/escrow.ts).  Instances of the tab, which outlive the page  *)
(* they were mounted on as long as an action of theirs runs, and terminals *)
(* work side by side for one account that owns the names and paid their    *)
(* deposits.  A deposit comes back in three contract calls: release gives  *)
(* the name up, withdraw moves the deposit onto the account's              *)
(* pull-payment ledger, claimWithdrawal empties that ledger.  The contract *)
(* is external; its rules are those the callers rely on.                   *)
(***************************************************************************)
EXTENDS Integers, Sequences

CONSTANTS
    Names,          \* names with a refundable deposit
    Entries,        \* refund entries owed to the account
    Tabs,           \* mounted instances of EscrowTab, in one browser or several
    Terminals,      \* terminals of the CLI
    MaxActions,     \* bound: actions of tabs and commands in all
    MaxFaults       \* bound: calls that fail for no rule of the contract, crashes

ASSUME ActorsAssumption == Tabs \cap Terminals = {} /\ Names \cap Entries = {}
ASSUME BoundsAssumption == MaxActions \in Nat /\ MaxFaults \in Nat

VARIABLES
    \* The escrow contract.
    position,       \* [Names -> "held", "released" or "withdrawn"]
    approved,       \* names the registrar lets the escrow take
    ripe,           \* names and entries whose cooldown is over
    balance,        \* deposits on the account's pull-payment ledger
    paid,           \* deposits and entries the account has received
    \* The tabs and terminals.
    job,            \* [Tabs \union Terminals -> the action or command it runs or ran]
    \* Bookkeeping.
    onLedger,       \* deposits that a command moved to the ledger and left there
    actions, faults

contractVars == <<position, approved, ripe, balance, paid>>
countVars    == <<actions, faults>>
vars == <<contractVars, job, onLedger, countVars>>

Actors == Tabs \union Terminals
Owed   == Names \union Entries

\* A mutant of Calls: the claim stops when the deposit is on the ledger.
CallsUntilLedger(kind) ==
    CASE kind = "release"              -> <<"approve", "release">>
      [] kind \in {"claim", "withdraw"} -> <<"withdraw">>
      [] kind = "drain"                -> <<"claimWithdrawal">>
      [] kind = "refunds"              -> <<"claimRefundsBatch">>

\* What is done, in which contract calls.  "release", "claim" and "refunds" are
\* the tab's actions, all but "claim" are commands.
Calls(kind) ==
    CASE kind = "release"  -> <<"approve", "release">>
      [] kind = "claim"    -> <<"withdraw", "claimWithdrawal">>
      [] kind = "withdraw" -> <<"withdraw">>
      [] kind = "drain"    -> <<"claimWithdrawal">>
      [] kind = "refunds"  -> <<"claimRefundsBatch">>

NoJob == [kind |-> "none", items |-> {}, pc |-> "idle", step |-> 1, seen |-> {}]

ControlPoints ==
    { "idle",
      "balance",    \* next: claim-withdrawal reads the pull-payment balance
      "sent",       \* the call of this step is on its way
      "accepted", "refused",        \* the call has been answered
      "refreshing", \* the tab reads positions and refunds again; busyId is still set
      "done", "failed" }

Free(a)    == job[a].pc \in {"idle", "done", "failed"}     \* busyId is null
Running(a) == ~Free(a)

Init ==
    /\ position = [n \in Names |-> "held"] /\ approved = {} /\ ripe \in {{}, Entries}
    /\ balance = {} /\ paid = {}
    /\ job = [a \in Actors |-> NoJob]
    /\ onLedger = {} /\ actions = 0 /\ faults = 0

(***************************************************************************)
(* The contract (external).                                                *)
(***************************************************************************)

\* The calls an approve on the registrar and the escrow accept.  The errors of the
\* others: EscrowNotApproved, AlreadyReleased; NotReleased, WithdrawalTooEarly,
\* AlreadyClaimed; NoPendingWithdrawal; NoSuchRefundEntry, RefundLocked (one locked
\* entry reverts the whole batch).
Accepts(call, items) ==
    CASE call = "approve"  -> \A n \in items : position[n] = "held"
      [] call = "release"  -> \A n \in items : position[n] = "held" /\ n \in approved
      [] call = "withdraw" -> \A n \in items : position[n] = "released" /\ n \in ripe
      [] call = "claimWithdrawal"   -> balance # {}
      [] call = "claimRefundsBatch" -> items \subseteq ripe \ paid

Moved(items, state) == position' = [n \in Names |-> IF n \in items THEN state ELSE position[n]]

Accepted(call, items) ==
    /\ Accepts(call, items)
    /\ UNCHANGED ripe
    /\ \/ /\ call = "approve"
          /\ approved' = approved \union items
          /\ UNCHANGED <<position, balance, paid>>
       \/ /\ call = "release"
          /\ Moved(items, "released")
          /\ UNCHANGED <<approved, balance, paid>>
       \/ /\ call = "withdraw"
          /\ Moved(items, "withdrawn") /\ balance' = balance \union items
          /\ UNCHANGED <<approved, paid>>
       \/ /\ call = "claimWithdrawal"
          /\ paid' = paid \union balance /\ balance' = {}
          /\ UNCHANGED <<position, approved>>
       \/ /\ call = "claimRefundsBatch"
          /\ paid' = paid \union items
          /\ UNCHANGED <<position, approved, balance>>

Refused(call, items) == ~Accepts(call, items) /\ UNCHANGED contractVars

\* A cooldown ends: of an entry at any time, of a name once it is released.
CooldownEnds ==
    /\ \E x \in Owed \ ripe :
          /\ x \in Names => position[x] # "held"
          /\ ripe' = ripe \union {x}
    /\ UNCHANGED <<position, approved, balance, paid, job, onLedger, countVars>>

(***************************************************************************)
(* The tab.                                                                *)
(***************************************************************************)

\* The row of a name may show any state it has been in: loads are not numbered, a
\* failing read leaves the name out, and nobody tells the tab of other actors.  The
\* button Release belongs to a row that is not released, Claim to one that is; which
\* cooldowns are over is judged by the browser's clock, which need not be the chain's.
Shows(n, state) == state = "held" \/ position[n] # "held"

Begin(a, kind, items, pc) ==
    /\ Free(a) /\ actions < MaxActions
    /\ actions' = actions + 1
    /\ job' = [job EXCEPT ![a] =
                    [kind |-> kind, items |-> items, pc |-> pc, step |-> 1, seen |-> {}]]
    /\ UNCHANGED <<contractVars, onLedger, faults>>

\* onRelease, onClaim, onClaimRefund and onClaimBatch: runAction does nothing while
\* another action of the instance runs.
OnRelease(t) == \E n \in Names : Shows(n, "held") /\ Begin(t, "release", {n}, "sent")
OnClaim(t) == \E n \in Names : Shows(n, "released") /\ Begin(t, "claim", {n}, "sent")
OnClaimRefunds(t) ==
    \E entries \in SUBSET Entries : entries # {} /\ Begin(t, "refunds", entries, "sent")

\* refresh has ended: an error of its reads is shown and goes no further.
Refreshed(t) ==
    /\ job[t].pc = "refreshing"
    /\ job' = [job EXCEPT ![t].pc = "done"]
    /\ UNCHANGED <<contractVars, onLedger, countVars>>

(***************************************************************************)
(* The commands.  The contract is all they consult.                        *)
(***************************************************************************)
ReleaseName(c)  == \E n \in Names : Begin(c, "release", {n}, "sent")
WithdrawName(c) == \E n \in Names : Begin(c, "withdraw", {n}, "sent")
ClaimRefunds(c) ==
    \E entries \in SUBSET Entries : entries # {} /\ Begin(c, "refunds", entries, "sent")
ClaimWithdrawalCommand(c) == Begin(c, "drain", {}, "balance")

\* claim-withdrawal ends at once when there is nothing to claim.
GetPendingWithdrawal(c) ==
    /\ job[c].pc = "balance"
    /\ job' = [job EXCEPT ![c].seen = balance, ![c].pc = IF balance = {} THEN "done" ELSE "sent"]
    /\ UNCHANGED <<contractVars, onLedger, countVars>>

(***************************************************************************)
(* A call and its answer.                                                  *)
(***************************************************************************)
CurrentCall(a) == Calls(job[a].kind)[job[a].step]

Executes(a) ==
    /\ job[a].pc = "sent"
    /\ \/ /\ Accepted(CurrentCall(a), job[a].items)
          /\ job' = [job EXCEPT ![a].pc = "accepted"]
          /\ onLedger' = onLedger \union IF job[a].kind = "withdraw" THEN job[a].items ELSE {}
       \/ /\ Refused(CurrentCall(a), job[a].items)
          /\ job' = [job EXCEPT ![a].pc = "refused"]
          /\ UNCHANGED onLedger
    /\ UNCHANGED countVars

Resolved(answer) == TRUE            \* a mutant: ok is not looked at

\* submitWrite and submitContractTransaction turn a failed result into an exception.
Succeeded(answer) == answer = "accepted"

NeverLast(a) == FALSE               \* a mutant: one call too many
LastCall(a)  == job[a].step = Len(Calls(job[a].kind))

\* The caller goes on with the next call, or is done; an exception ends it at once.
Answered(a) ==
    /\ job[a].pc \in {"accepted", "refused"}
    /\ \/ /\ ~Succeeded(job[a].pc)
          /\ job' = [job EXCEPT ![a].pc = "failed"]
       \/ /\ Succeeded(job[a].pc) /\ ~LastCall(a)
          /\ job' = [job EXCEPT ![a].pc = "sent", ![a].step = @ + 1]
       \/ /\ Succeeded(job[a].pc) /\ LastCall(a)
          /\ job' = [job EXCEPT ![a].pc = IF a \in Tabs THEN "refreshing" ELSE "done"]
    /\ UNCHANGED <<contractVars, onLedger, countVars>>

(***************************************************************************)
(* Misfortunes.                                                            *)
(***************************************************************************)

\* The call fails though no rule of the contract refuses it (the user does not sign,
\* the nonce is taken, the answer is lost), with its effect or without.
CallFails(a) ==
    /\ job[a].pc = "sent" /\ faults < MaxFaults
    /\ faults' = faults + 1
    /\ job' = [job EXCEPT ![a].pc = "refused"]
    /\ Accepted(CurrentCall(a), job[a].items) \/ UNCHANGED contractVars
    /\ UNCHANGED <<onLedger, actions>>

\* The page is closed or the process killed; what was sent may still execute.
Gone(a) ==
    /\ Running(a) /\ faults < MaxFaults
    /\ faults' = faults + 1
    /\ job' = [job EXCEPT ![a].pc = "failed"]
    /\ \/ job[a].pc = "sent" /\ Accepted(CurrentCall(a), job[a].items)
       \/ UNCHANGED contractVars
    /\ UNCHANGED <<onLedger, actions>>

TabStep(t) == OnRelease(t) \/ OnClaim(t) \/ OnClaimRefunds(t) \/ Refreshed(t)
CommandStep(c) ==
    \/ ReleaseName(c) \/ WithdrawName(c) \/ ClaimRefunds(c)
    \/ ClaimWithdrawalCommand(c) \/ GetPendingWithdrawal(c)

Ended == (\A a \in Actors : Free(a)) /\ UNCHANGED vars

Next ==
    \/ \E t \in Tabs : TabStep(t)
    \/ \E c \in Terminals : CommandStep(c)
    \/ \E a \in Actors : Executes(a) \/ Answered(a) \/ CallFails(a) \/ Gone(a)
    \/ CooldownEnds \/ Ended

Spec == Init /\ [][Next]_vars

(***************************************************************************)
(* Properties.                                                             *)
(***************************************************************************)

\* The shape of the state; a deposit is on the ledger or paid only after its name
\* was withdrawn, and never both.
TypeOK ==
    /\ position \in [Names -> {"held", "released", "withdrawn"}]
    /\ approved \subseteq Names /\ ripe \subseteq Owed /\ paid \subseteq Owed
    /\ balance = {n \in Names : position[n] = "withdrawn"} \ paid
    /\ job \in [Actors -> [kind  : {"none", "release", "claim", "withdraw", "drain", "refunds"},
                           items : SUBSET Owed, pc : ControlPoints, step : 1..2,
                           seen  : SUBSET Names]]
    /\ \A a \in Actors : Running(a) => job[a].step <= Len(Calls(job[a].kind))
    /\ onLedger \subseteq Names
    /\ actions \in 0..MaxActions /\ faults \in 0..MaxFaults

Success(a) == job[a].pc \in {"refreshing", "done"}

\* "Deposit claimed.", "Refunds claimed.", "Name released into escrow." and the
\* success of a command are true when they are shown, whatever the other tabs and
\* terminals did meanwhile: a claim has paid out this very deposit, a drain all that
\* it had found on the ledger.
SuccessMeansPaid ==
    \A a \in Actors : Success(a) =>
        LET items == job[a].items
        IN  CASE job[a].kind = "release"  -> \A n \in items : position[n] # "held"
              [] job[a].kind = "withdraw" -> items \subseteq balance \union paid
              [] job[a].kind = "drain"    -> job[a].seen \subseteq paid
              [] OTHER                    -> items \subseteq paid

\* The tab offers nothing that empties the ledger: a deposit on it is out of the tab's
\* reach.  Without a misfortune that happens only to deposits a command moved there;
\* the claim that withdrew any other one is still about to empty the ledger, however
\* tabs and terminals take turns.
NoDepositStranded ==
    faults = 0 => \A n \in balance \ onLedger :
        \E t \in Tabs : Running(t) /\ job[t].kind = "claim" /\ job[t].items = {n}
===============================================================================
