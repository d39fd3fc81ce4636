---------------------------- MODULE SigningAccount ----------------------------
(***************************************************************************)
(* A chain as one signing account sees it: its transactions execute        *)
(* strictly in nonce order, and the node's pool holds those that wait for  *)
(* their turn.  Nothing of it is in this repository; it is modelled from   *)
(* the calls the code makes (system_accountNextIndex, System.Account,      *)
(* signSubmitAndWatch and its events).                                     *)
(***************************************************************************)
EXTENDS Integers, Sequences, FiniteSets

VARIABLES
    ledger,     \* the account's executed transactions; entry n+1 used nonce n
    pool        \* transactions the node holds: [nonce, call], one per nonce

accountVars == <<ledger, pool>>

Executed(call) == \E i \in DOMAIN ledger : ledger[i] = [call |-> call, outcome |-> "success"]

Pooled(n) == \E t \in pool : t.nonce = n
Gap(n)    == \E m \in Len(ledger)..(n - 1) : ~Pooled(m)

\* system_accountNextIndex: the first nonce neither executed nor in the pool.
IsNextIndex(n) == n >= Len(ledger) /\ ~Pooled(n) /\ ~Gap(n)

(***************************************************************************)
(* What a signed transaction meets at the node: its nonce is spent; the    *)
(* pool holds another for that nonce and refuses this one; or it enters the*)
(* pool, once if it is the same transaction signed again.                  *)
(***************************************************************************)
Submit(call, n, out) ==
    \/ /\ n < Len(ledger)
       /\ out = "stale"
       /\ UNCHANGED pool
    \/ /\ n >= Len(ledger)
       /\ Pooled(n)
       /\ out = "pool"
       /\ UNCHANGED pool
    \/ /\ n >= Len(ledger)
       /\ \A t \in pool : t.nonce = n => t.call = call
       /\ out = "inflight"
       /\ pool' = pool \union {[nonce |-> n, call |-> call]}

\* The nonce of a watched transaction was executed, with it or without it.
Spent(n)       == n < Len(ledger)
Found(call, n) == ledger[n + 1].call = call
Succeeded(n)   == ledger[n + 1].outcome = "success"

\* A watched transaction nothing will ever execute: dropped, or behind a gap.
Stuck(n) == n >= Len(ledger) /\ (~Pooled(n) \/ Gap(n))

\* The transaction whose turn it is executes; a dispatch error still spends its nonce.
Include(outcome) ==
    \E t \in pool :
        /\ t.nonce = Len(ledger)
        /\ ledger' = Append(ledger, [call |-> t.call, outcome |-> outcome])
        /\ pool' = pool \ {t}

Drop ==
    /\ \E t \in pool : pool' = pool \ {t}
    /\ UNCHANGED ledger
===============================================================================
