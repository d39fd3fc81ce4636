----------------------------- MODULE EscrowProofs -----------------------------
(***************************************************************************)
(* Proofs about Escrow, for any names, entries, tabs and terminals and any *)
(* number of actions and misfortunes.                                      *)
(***************************************************************************)
EXTENDS Escrow, TLAPS

Kinds == {"release", "claim", "withdraw", "drain", "refunds"}

\* What TypeOK says of the contract, and that only withdrawn deposits were paid.
ContractInv ==
    /\ position \in [Names -> {"held", "released", "withdrawn"}]
    /\ approved \subseteq Names /\ ripe \subseteq Owed /\ paid \subseteq Owed
    /\ balance = {n \in Names : position[n] = "withdrawn"} \ paid
    /\ \A n \in Names : n \in paid => position[n] = "withdrawn"

JobType ==
    job \in [Actors -> [kind  : {"none"} \union Kinds, items : SUBSET Owed,
                        pc : ControlPoints, step : 1..2, seen : SUBSET Names]]

CountType ==
    onLedger \subseteq Names /\ actions \in 0..MaxActions /\ faults \in 0..MaxFaults

\* What the kind of a job says of its items and steps.
JobFits(j) ==
    /\ j.pc # "idle" => j.kind # "none"
    /\ j.pc = "balance" => j.kind = "drain"
    /\ j.kind \in {"release", "claim", "withdraw"} => \E n \in Names : j.items = {n}
    /\ j.kind = "refunds" => j.items \subseteq Entries
    /\ j.step = 2 => j.kind \in {"release", "claim"}

Answer(j) == j.pc \in {"accepted", "refreshing", "done"}

\* What a job may rely on: what its accepted calls have brought about.
Reached(j) ==
    /\ j.kind = "release" /\ j.step = 2 /\ Answer(j) => \A n \in j.items : position[n] # "held"
    /\ j.kind = "withdraw" /\ Answer(j) => j.items \subseteq balance \union paid
    /\ j.kind = "claim" /\ (j.step = 2 \/ Answer(j)) => j.items \subseteq balance \union paid
    /\ j.kind = "claim" /\ j.step = 2 /\ Answer(j) => j.items \subseteq paid
    /\ j.kind = "refunds" /\ Answer(j) => j.items \subseteq paid
    /\ j.kind = "drain" => j.seen \subseteq balance \union paid
    /\ j.kind = "drain" /\ Answer(j) => j.seen \subseteq paid
    /\ j.kind \in {"release", "claim"} /\ j.pc \in {"refreshing", "done"} => j.step = 2

JobsInv == \A a \in Actors : JobFits(job[a]) /\ Reached(job[a])

\* The job stands between its withdraw and its claim of n.
Between(j, n) ==
    /\ j.kind = "claim" /\ j.items = {n}
    /\ (j.step = 1 /\ j.pc = "accepted") \/ (j.step = 2 /\ j.pc = "sent")

Explained == faults = 0 => \A n \in balance \ onLedger : \E t \in Tabs : Between(job[t], n)

\* Claims are made by tabs only.
ClaimsByTabs == \A a \in Actors : job[a].kind = "claim" => a \in Tabs

Inv == ContractInv /\ JobType /\ CountType /\ JobsInv /\ ClaimsByTabs /\ Explained

\* What any step of the contract does to what has been brought about.
Grows ==
    /\ paid \subseteq paid' /\ balance \union paid \subseteq balance' \union paid'
    /\ \A n \in Names : position[n] # "held" => position'[n] # "held"

(***************************************************************************)
(* Calls.                                                                  *)
(***************************************************************************)

\* The call a job is about to make, and when it is the last one.
LEMMA CurrentCalls ==
    ASSUME NEW a \in Actors, JobType, JobFits(job[a]), job[a].kind # "none"
    PROVE  /\ job[a].kind = "release" /\ job[a].step = 1 => CurrentCall(a) = "approve" /\ ~LastCall(a)
           /\ job[a].kind = "release" /\ job[a].step = 2 => CurrentCall(a) = "release" /\ LastCall(a)
           /\ job[a].kind = "claim" /\ job[a].step = 1 => CurrentCall(a) = "withdraw" /\ ~LastCall(a)
           /\ job[a].kind = "claim" /\ job[a].step = 2
                => CurrentCall(a) = "claimWithdrawal" /\ LastCall(a)
           /\ job[a].kind = "withdraw" => CurrentCall(a) = "withdraw" /\ LastCall(a)
           /\ job[a].kind = "drain" => CurrentCall(a) = "claimWithdrawal" /\ LastCall(a)
           /\ job[a].kind = "refunds" => CurrentCall(a) = "claimRefundsBatch" /\ LastCall(a)
<1>1. job[a].step \in 1..2 /\ job[a].kind \in Kinds
  BY DEF JobType
<1>2. /\ Calls("release") = <<"approve", "release">>
      /\ Calls("claim") = <<"withdraw", "claimWithdrawal">>
      /\ Calls("withdraw") = <<"withdraw">>
      /\ Calls("drain") = <<"claimWithdrawal">>
      /\ Calls("refunds") = <<"claimRefundsBatch">>
  BY DEF Calls
<1>3. job[a].step = 2 => job[a].kind \in {"release", "claim"}
  BY DEF JobFits
<1>4. CASE job[a].kind = "release"
  <2>1. Calls(job[a].kind) = <<"approve", "release">>
    BY <1>2, <1>4
  <2>2. /\ Len(Calls(job[a].kind)) = 2
        /\ Calls(job[a].kind)[1] = "approve" /\ Calls(job[a].kind)[2] = "release"
    BY <2>1
  <2> QED
    BY <1>4, <2>2 DEF CurrentCall, LastCall
<1>5. CASE job[a].kind = "claim"
  <2>1. Calls(job[a].kind) = <<"withdraw", "claimWithdrawal">>
    BY <1>2, <1>5
  <2>2. /\ Len(Calls(job[a].kind)) = 2
        /\ Calls(job[a].kind)[1] = "withdraw" /\ Calls(job[a].kind)[2] = "claimWithdrawal"
    BY <2>1
  <2> QED
    BY <1>5, <2>2 DEF CurrentCall, LastCall
<1>6. CASE job[a].kind \in {"withdraw", "drain", "refunds"}
  <2>1. job[a].step = 1
    BY <1>1, <1>3, <1>6
  <2> QED
    BY <1>2, <1>6, <2>1 DEF CurrentCall, LastCall
<1> QED
  BY <1>1, <1>4, <1>5, <1>6 DEF Kinds

\* An accepted call keeps the contract in order, and what it was made for is so.
LEMMA AcceptedCall ==
    ASSUME NEW call, NEW items, ContractInv, Accepted(call, items),
           call \in {"approve", "release", "withdraw"} => items \subseteq Names,
           call = "claimRefundsBatch" => items \subseteq Entries
    PROVE  /\ ContractInv' /\ Grows
           /\ call = "release" => \A n \in items : position'[n] # "held"
           /\ call = "withdraw" => items \subseteq balance' /\ balance' = balance \union items
           /\ call = "claimWithdrawal" => balance \subseteq paid' /\ balance' = {}
           /\ call = "claimRefundsBatch" => items \subseteq paid'
           /\ call # "withdraw" => balance' \subseteq balance
<1>1. CASE call = "approve"
  BY <1>1 DEF Accepted, Accepts, ContractInv, Grows, Owed
<1>2. CASE call = "release"
  BY <1>2 DEF Accepted, Accepts, Moved, ContractInv, Grows, Owed
<1>3. CASE call = "withdraw"
  BY <1>3 DEF Accepted, Accepts, Moved, ContractInv, Grows, Owed
<1>4. CASE call = "claimWithdrawal"
  BY <1>4 DEF Accepted, Accepts, ContractInv, Grows, Owed
<1>5. CASE call = "claimRefundsBatch"
  BY <1>5, ActorsAssumption DEF Accepted, Accepts, ContractInv, Grows, Owed
<1> QED
  BY <1>1, <1>2, <1>3, <1>4, <1>5 DEF Accepted

\* Nothing a job relies on is undone by others.
LEMMA ReachedForEver ==
    ASSUME NEW j, j \in [kind : {"none"} \union Kinds, items : SUBSET Owed, pc : ControlPoints,
                         step : 1..2, seen : SUBSET Names],
           JobFits(j), Reached(j), Grows
    PROVE  Reached(j)'
BY DEF Reached, Grows, JobFits, Answer

\* The step of a job that leaves the contract as it is, or moves it, leaves every
\* other job in order.
LEMMA OthersKeep ==
    ASSUME NEW b \in Actors, JobType, JobFits(job[b]), Reached(job[b]), Grows, job'[b] = job[b]
    PROVE  JobFits(job'[b]) /\ Reached(job[b])'
<1>1. PICK j : j = job[b]
  OBVIOUS
<1>2. Reached(j)'
  BY <1>1, ReachedForEver DEF JobType
<1>3. job'[b] = j
  BY <1>1
<1> QED
  BY <1>1, <1>2, <1>3 DEF Reached, Answer

(***************************************************************************)
(* The steps.                                                              *)
(***************************************************************************)

\* The initial state.
LEMMA InitInv == Init => Inv
<1> SUFFICES ASSUME Init PROVE Inv
  OBVIOUS
<1>1. ContractInv
  BY DEF Init, ContractInv, Owed
<1>2. JobType
  BY DEF Init, JobType, NoJob, ControlPoints
<1>3. CountType
  BY BoundsAssumption DEF Init, CountType
<1>4. JobsInv /\ ClaimsByTabs
  BY DEF Init, JobsInv, ClaimsByTabs, NoJob, JobFits, Reached, Answer
<1>5. Explained
  BY DEF Init, Explained
<1> QED
  BY <1>1, <1>2, <1>3, <1>4, <1>5 DEF Inv

\* An actor that is free begins a job.
LEMMA BeginInv ==
    ASSUME Inv, NEW a \in Actors, NEW kind \in Kinds, NEW items \in SUBSET Owed,
           NEW pc \in {"sent", "balance"}, Begin(a, kind, items, pc),
           pc = "balance" => kind = "drain",
           kind \in {"release", "claim", "withdraw"} => \E n \in Names : items = {n},
           kind = "refunds" => items \subseteq Entries,
           kind = "claim" => a \in Tabs
    PROVE  Inv'
<1> DEFINE new == [kind |-> kind, items |-> items, pc |-> pc, step |-> 1, seen |-> {}]
<1>1. /\ job' = [job EXCEPT ![a] = new] /\ UNCHANGED <<contractVars, onLedger, faults>>
      /\ actions' = actions + 1 /\ actions < MaxActions /\ Free(a)
  BY DEF Begin
<1>2. /\ new.kind = kind /\ new.items = items /\ new.pc = pc /\ new.step = 1 /\ new.seen = {}
      /\ new \in [kind : {"none"} \union Kinds, items : SUBSET Owed, pc : ControlPoints,
                   step : 1..2, seen : SUBSET Names]
  BY DEF ControlPoints
<1> HIDE DEF new
<1>3. job'[a] = new /\ \A b \in Actors : b # a => job'[b] = job[b]
  BY <1>1 DEF Inv, JobType
<1>4. ContractInv' /\ CountType' /\ JobType'
  BY <1>1, <1>2, BoundsAssumption DEF Inv, ContractInv, CountType, JobType, contractVars
<1>5. Grows
  BY <1>1 DEF Grows, contractVars
<1>6. ASSUME NEW b \in Actors PROVE JobFits(job'[b]) /\ Reached(job[b])'
  <2>1. CASE b = a
    <3>1. JobFits(new)
      <4>1. new.kind \in {"release", "claim", "withdraw"} => \E n \in Names : new.items = {n}
        BY <1>2
      <4> QED
        BY <1>2, <4>1 DEF JobFits, Kinds
    <3>2. ~Answer(new) /\ new.step # 2 /\ new.seen = {} /\ new.pc \notin {"refreshing", "done"}
      BY <1>2 DEF Answer
    <3>3. job'[b] = new
      BY <1>3, <2>1
    <3>4. Reached(job[b])'
      BY <3>2, <3>3 DEF Reached, Answer
    <3> QED
      BY <3>1, <3>3, <3>4
  <2>2. CASE b # a
    BY <1>3, <1>5, <2>2, OthersKeep DEF Inv, JobsInv
  <2> QED
    BY <2>1, <2>2
<1>7. ClaimsByTabs'
  BY <1>2, <1>3 DEF Inv, ClaimsByTabs
<1>8. Explained'
  <2> SUFFICES ASSUME faults' = 0, NEW n \in balance' \ onLedger'
               PROVE  \E t \in Tabs : Between(job'[t], n)
    BY DEF Explained, Between
  <2>1. PICK t \in Tabs : Between(job[t], n)
    BY <1>1 DEF Inv, Explained, contractVars
  <2>2. t # a
    BY <1>1, <2>1 DEF Free, Between
  <2> QED
    BY <1>3, <2>1, <2>2 DEF Actors
<1> QED
  BY <1>4, <1>6, <1>7, <1>8 DEF Inv, JobsInv, JobFits

\* An actor whose job changes while the contract, the counters and every other job
\* stay: the answer has come, the refresh has ended, the balance was read.
LEMMA GoesOn ==
    ASSUME Inv, NEW a \in Actors, job' = [job EXCEPT ![a] = job'[a]],
           UNCHANGED <<contractVars, onLedger, countVars>>,
           job'[a] \in [kind : {"none"} \union Kinds, items : SUBSET Owed, pc : ControlPoints,
                        step : 1..2, seen : SUBSET Names],
           job'[a].kind = job[a].kind, JobFits(job'[a]), Reached(job[a])',
           faults = 0 => \A n \in balance : Between(job[a], n) => Between(job'[a], n)
    PROVE  Inv'
<1>1. \A b \in Actors : b # a => job'[b] = job[b]
  BY DEF Inv, JobType
<1>2. ContractInv' /\ CountType' /\ JobType'
  BY DEF Inv, ContractInv, CountType, JobType, contractVars, countVars
<1>3. Grows
  BY DEF Grows, contractVars
<1>4. ASSUME NEW b \in Actors PROVE JobFits(job'[b]) /\ Reached(job[b])'
  BY <1>1, <1>3, OthersKeep DEF Inv, JobsInv
<1>5. ClaimsByTabs'
  BY <1>1 DEF Inv, ClaimsByTabs
<1>6. Explained'
  <2> SUFFICES ASSUME faults' = 0, NEW n \in balance' \ onLedger'
               PROVE  \E t \in Tabs : Between(job'[t], n)
    BY DEF Explained, Between
  <2>1. faults = 0 /\ n \in balance \ onLedger
    BY DEF contractVars, countVars
  <2>2. PICK t \in Tabs : Between(job[t], n)
    BY <2>1 DEF Inv, Explained
  <2>3. Between(job'[t], n)
    BY <1>1, <2>1, <2>2 DEF Actors
  <2> QED
    BY <2>3
<1> QED
  BY <1>2, <1>4, <1>5, <1>6 DEF Inv, JobsInv, JobFits

\* The tab has read its rows again.
LEMMA RefreshedInv == ASSUME Inv, NEW t \in Tabs, Refreshed(t) PROVE Inv'
<1>1. /\ t \in Actors /\ job[t].pc = "refreshing" /\ job' = [job EXCEPT ![t].pc = "done"]
      /\ UNCHANGED <<contractVars, onLedger, countVars>>
  BY DEF Refreshed, Actors
<1>2. /\ job[t] \in [kind : {"none"} \union Kinds, items : SUBSET Owed, pc : ControlPoints,
                     step : 1..2, seen : SUBSET Names]
      /\ JobFits(job[t]) /\ Reached(job[t])
  BY <1>1 DEF Inv, JobType, JobsInv
<1>3. /\ job'[t] = [job[t] EXCEPT !.pc = "done"] /\ job' = [job EXCEPT ![t] = job'[t]]
  BY <1>1 DEF Inv, JobType
<1>4. /\ job'[t].kind = job[t].kind /\ job'[t].items = job[t].items /\ job'[t].pc = "done"
      /\ job'[t].step = job[t].step /\ job'[t].seen = job[t].seen
      /\ job'[t] \in [kind : {"none"} \union Kinds, items : SUBSET Owed, pc : ControlPoints,
                      step : 1..2, seen : SUBSET Names]
  BY <1>2, <1>3 DEF ControlPoints
<1>5. JobFits(job'[t]) /\ Reached(job[t])'
  BY <1>1, <1>2, <1>4 DEF JobFits, Reached, Answer, contractVars
<1>6. \A n : ~Between(job[t], n)
  BY <1>1 DEF Between
<1> QED
  BY <1>1, <1>3, <1>4, <1>5, <1>6, GoesOn

\* The command has read the ledger.
LEMMA BalanceReadInv ==
    ASSUME Inv, NEW c \in Actors, GetPendingWithdrawal(c) PROVE Inv'
<1> DEFINE pc == IF balance = {} THEN "done" ELSE "sent"
<1>1. /\ job[c].pc = "balance" /\ job' = [job EXCEPT ![c].seen = balance, ![c].pc = pc]
      /\ UNCHANGED <<contractVars, onLedger, countVars>>
  BY DEF GetPendingWithdrawal
<1>2. /\ job[c] \in [kind : {"none"} \union Kinds, items : SUBSET Owed, pc : ControlPoints,
                     step : 1..2, seen : SUBSET Names]
      /\ JobFits(job[c]) /\ Reached(job[c])
  BY DEF Inv, JobType, JobsInv
<1>3. job[c].kind = "drain" /\ balance \subseteq Names
  BY <1>1, <1>2 DEF JobFits, Inv, ContractInv
<1>4. /\ job'[c] = [job[c] EXCEPT !.seen = balance, !.pc = pc]
      /\ job' = [job EXCEPT ![c] = job'[c]]
  BY <1>1 DEF Inv, JobType
<1>5. pc \in {"sent", "done"} /\ (pc = "done" => balance = {})
  OBVIOUS
<1> HIDE DEF pc
<1>6. /\ job'[c].kind = "drain" /\ job'[c].items = job[c].items /\ job'[c].pc = pc
      /\ job'[c].step = job[c].step /\ job'[c].seen = balance
      /\ job'[c] \in [kind : {"none"} \union Kinds, items : SUBSET Owed, pc : ControlPoints,
                      step : 1..2, seen : SUBSET Names]
  BY <1>2, <1>3, <1>4, <1>5 DEF ControlPoints
<1>7. JobFits(job'[c])
  BY <1>2, <1>3, <1>5, <1>6 DEF JobFits
<1>8. Reached(job[c])'
  BY <1>1, <1>3, <1>5, <1>6 DEF Reached, Answer, contractVars
<1>9. \A n : ~Between(job[c], n)
  BY <1>3 DEF Between
<1> QED
  BY <1>1, <1>3, <1>4, <1>6, <1>7, <1>8, <1>9, GoesOn

\* An actor whose job goes to another control point while the contract may move on.
LEMMA Moves ==
    ASSUME Inv, NEW a \in Actors, NEW pc \in ControlPoints,
           job' = [job EXCEPT ![a].pc = pc], job[a].pc = "sent" \/ pc = "failed",
           pc \notin {"idle", "balance"}, Running(a),
           ContractInv', Grows, CountType', Explained', Reached(job[a])'
    PROVE  Inv'
<1>1. /\ job[a] \in [kind : {"none"} \union Kinds, items : SUBSET Owed, pc : ControlPoints,
                     step : 1..2, seen : SUBSET Names]
      /\ JobFits(job[a])
  BY DEF Inv, JobType, JobsInv
<1>2. job'[a] = [job[a] EXCEPT !.pc = pc] /\ \A b \in Actors : b # a => job'[b] = job[b]
  BY DEF Inv, JobType
<1>3. /\ job'[a].kind = job[a].kind /\ job'[a].items = job[a].items /\ job'[a].pc = pc
      /\ job'[a].step = job[a].step /\ job'[a].seen = job[a].seen
      /\ job'[a] \in [kind : {"none"} \union Kinds, items : SUBSET Owed, pc : ControlPoints,
                      step : 1..2, seen : SUBSET Names]
  BY <1>1, <1>2
<1>4. job[a].pc # "idle"
  BY DEF Running, Free
<1>5. JobFits(job'[a])
  BY <1>1, <1>3, <1>4 DEF JobFits
<1>6. ASSUME NEW b \in Actors PROVE JobFits(job'[b]) /\ Reached(job[b])'
  BY <1>2, <1>5, OthersKeep DEF Inv, JobsInv
<1>7. JobType'
  BY <1>3 DEF Inv, JobType
<1>8. ClaimsByTabs'
  BY <1>2, <1>3 DEF Inv, ClaimsByTabs
<1> QED
  BY <1>6, <1>7, <1>8 DEF Inv, JobsInv, JobFits

\* The call an actor has sent is about its items.
LEMMA SentCall ==
    ASSUME Inv, NEW a \in Actors, job[a].pc = "sent"
    PROVE  /\ job[a].kind \in Kinds
           /\ CurrentCall(a) \in {"approve", "release", "withdraw"} => job[a].items \subseteq Names
           /\ CurrentCall(a) = "claimRefundsBatch" => job[a].items \subseteq Entries
           /\ CurrentCall(a) = "withdraw" <=>
                job[a].kind = "withdraw" \/ (job[a].kind = "claim" /\ job[a].step = 1)
           /\ CurrentCall(a) = "claimWithdrawal" <=>
                job[a].kind = "drain" \/ (job[a].kind = "claim" /\ job[a].step = 2)
           /\ CurrentCall(a) = "release" <=> job[a].kind = "release" /\ job[a].step = 2
           /\ CurrentCall(a) = "claimRefundsBatch" <=> job[a].kind = "refunds"
<1>1. JobFits(job[a]) /\ job[a].kind # "none"
  BY DEF Inv, JobsInv, JobFits
<1>2. job[a].kind \in Kinds /\ job[a].step \in 1..2
  BY <1>1 DEF Inv, JobType
<1> HIDE DEF Inv
<1>3. JobType
  BY DEF Inv
<1>4. CASE job[a].kind = "release"
  BY <1>1, <1>2, <1>3, <1>4, CurrentCalls DEF JobFits
<1>5. CASE job[a].kind = "claim"
  BY <1>1, <1>2, <1>3, <1>5, CurrentCalls DEF JobFits
<1>6. CASE job[a].kind = "withdraw"
  BY <1>1, <1>2, <1>3, <1>6, CurrentCalls DEF JobFits
<1>7. CASE job[a].kind = "drain"
  BY <1>1, <1>2, <1>3, <1>7, CurrentCalls DEF JobFits
<1>8. CASE job[a].kind = "refunds"
  BY <1>1, <1>2, <1>3, <1>8, CurrentCalls DEF JobFits
<1> QED
  BY <1>2, <1>4, <1>5, <1>6, <1>7, <1>8 DEF Kinds

\* A call that a rule of the contract accepts does what its job relies on.
LEMMA AcceptedReaches ==
    ASSUME Inv, NEW a \in Actors, job[a].pc = "sent",
           Accepted(CurrentCall(a), job[a].items),
           NEW pc \in {"accepted", "refused", "failed"}, job' = [job EXCEPT ![a].pc = pc]
    PROVE  ContractInv' /\ Grows /\ Reached(job[a])'
<1>1. /\ job[a] \in [kind : {"none"} \union Kinds, items : SUBSET Owed, pc : ControlPoints,
                     step : 1..2, seen : SUBSET Names]
      /\ JobFits(job[a]) /\ Reached(job[a]) /\ ContractInv
  BY DEF Inv, JobType, JobsInv
<1>2. job'[a] = [job[a] EXCEPT !.pc = pc]
  BY DEF Inv, JobType
<1>3. /\ job'[a].kind = job[a].kind /\ job'[a].items = job[a].items /\ job'[a].pc = pc
      /\ job'[a].step = job[a].step /\ job'[a].seen = job[a].seen
  BY <1>1, <1>2
<1>4. PICK call : call = CurrentCall(a)
  OBVIOUS
<1>5. PICK items : items = job[a].items
  OBVIOUS
<1>6. Accepted(call, items) /\ Accepts(call, items)
  BY <1>4, <1>5 DEF Accepted
<1>7. /\ call \in {"approve", "release", "withdraw"} => items \subseteq Names
      /\ call = "claimRefundsBatch" => items \subseteq Entries
  BY <1>4, <1>5, SentCall
<1>8. /\ ContractInv' /\ Grows
      /\ call = "release" => \A n \in items : position'[n] # "held"
      /\ call = "withdraw" => items \subseteq balance'
      /\ call = "claimWithdrawal" => balance \subseteq paid' /\ balance' = {}
      /\ call = "claimRefundsBatch" => items \subseteq paid'
  <2> HIDE DEF Inv
  <2> QED
    BY <1>1, <1>6, <1>7, AcceptedCall
<1>9. /\ job[a].kind = "release" /\ job[a].step = 2 => \A n \in items : position'[n] # "held"
      /\ job[a].kind = "withdraw" => items \subseteq balance'
      /\ job[a].kind = "claim" /\ job[a].step = 1 => items \subseteq balance'
      /\ job[a].kind = "claim" /\ job[a].step = 2 => items \subseteq paid'
      /\ job[a].kind = "refunds" => items \subseteq paid'
      /\ job[a].kind = "drain" => job[a].seen \subseteq paid'
  <2>1. /\ job[a].kind = "claim" /\ job[a].step = 2 => items \subseteq balance \union paid
        /\ job[a].kind = "drain" => job[a].seen \subseteq balance \union paid
    BY <1>1, <1>5 DEF Reached
  <2>2. paid \subseteq paid'
    BY <1>8 DEF Grows
  <2>3. /\ call = "withdraw" <=>
            job[a].kind = "withdraw" \/ (job[a].kind = "claim" /\ job[a].step = 1)
        /\ call = "claimWithdrawal" <=>
            job[a].kind = "drain" \/ (job[a].kind = "claim" /\ job[a].step = 2)
        /\ call = "release" <=> job[a].kind = "release" /\ job[a].step = 2
        /\ call = "claimRefundsBatch" <=> job[a].kind = "refunds"
    BY <1>4, SentCall
  <2>4. /\ job[a].kind = "release" /\ job[a].step = 2 => \A n \in items : position'[n] # "held"
        /\ job[a].kind = "withdraw" => items \subseteq balance'
        /\ job[a].kind = "claim" /\ job[a].step = 1 => items \subseteq balance'
        /\ job[a].kind = "refunds" => items \subseteq paid'
    BY <1>8, <2>3
  <2>5. /\ job[a].kind = "claim" /\ job[a].step = 2 => items \subseteq paid'
        /\ job[a].kind = "drain" => job[a].seen \subseteq paid'
    BY <1>8, <2>1, <2>2, <2>3
  <2> QED
    BY <2>4, <2>5
<1>10. job[a].step \in 1..2 /\ job'[a].pc \notin {"refreshing", "done"}
  BY <1>1, <1>3
<1>11. /\ job[a].kind = "claim" /\ job[a].step = 1 => items \subseteq balance' \union paid'
       /\ job[a].kind = "claim" /\ job[a].step = 2 => items \subseteq balance' \union paid'
       /\ job[a].kind = "withdraw" => items \subseteq balance' \union paid'
       /\ job[a].kind = "drain" => job[a].seen \subseteq balance' \union paid'
  BY <1>9
<1>12. Reached(job[a])'
  BY <1>3, <1>5, <1>9, <1>10, <1>11 DEF Reached
<1> QED
  BY <1>8, <1>12

\* A call that changes nothing leaves its job what it has.
LEMMA NothingChanged ==
    ASSUME Inv, NEW a \in Actors, UNCHANGED contractVars, Running(a),
           NEW pc \in {"refused", "failed"}, job' = [job EXCEPT ![a].pc = pc]
    PROVE  ContractInv' /\ Grows /\ Reached(job[a])'
<1>1. /\ job[a] \in [kind : {"none"} \union Kinds, items : SUBSET Owed, pc : ControlPoints,
                     step : 1..2, seen : SUBSET Names]
      /\ Reached(job[a]) /\ ContractInv
  BY DEF Inv, JobType, JobsInv
<1>2. job'[a] = [job[a] EXCEPT !.pc = pc]
  BY DEF Inv, JobType
<1>3. /\ job'[a].kind = job[a].kind /\ job'[a].items = job[a].items /\ job'[a].pc = pc
      /\ job'[a].step = job[a].step /\ job'[a].seen = job[a].seen
  BY <1>1, <1>2
<1>4. ContractInv' /\ Grows
  BY <1>1 DEF ContractInv, Grows, contractVars
<1>5. Reached(job[a])'
  BY <1>1, <1>3 DEF Reached, Answer, contractVars
<1> QED
  BY <1>4, <1>5

\* A call is executed and answered.
LEMMA ExecutesInv == ASSUME Inv, NEW a \in Actors, Executes(a) PROVE Inv'
<1>1. job[a].pc = "sent" /\ Running(a) /\ UNCHANGED countVars
  BY DEF Executes, Running, Free
<1>2. CASE /\ Accepted(CurrentCall(a), job[a].items)
           /\ job' = [job EXCEPT ![a].pc = "accepted"]
           /\ onLedger' = onLedger \union IF job[a].kind = "withdraw" THEN job[a].items ELSE {}
  <2>1. ContractInv' /\ Grows /\ Reached(job[a])'
    BY <1>1, <1>2, AcceptedReaches
  <2>2. job[a].kind = "withdraw" => job[a].items \subseteq Names
    BY <1>1, SentCall
  <2>3. CountType'
    BY <1>1, <1>2, <2>2 DEF Inv, CountType, countVars
  <2>4. Explained'
    <3> SUFFICES ASSUME faults' = 0, NEW n \in balance' \ onLedger'
                 PROVE  \E t \in Tabs : Between(job'[t], n)
      BY DEF Explained, Between
    <3>1. faults = 0 /\ onLedger \subseteq onLedger'
      BY <1>1, <1>2 DEF countVars
    <3>2. /\ job'[a].kind = job[a].kind /\ job'[a].items = job[a].items
          /\ job'[a].step = job[a].step /\ job'[a].pc = "accepted"
          /\ \A b \in Actors : b # a => job'[b] = job[b]
      BY <1>2 DEF Inv, JobType
    <3>3. JobFits(job[a]) /\ ContractInv
      BY DEF Inv, JobsInv
    <3>4. CASE CurrentCall(a) = "withdraw"
      <4>1. balance' = balance \union job[a].items
        BY <1>2, <3>4 DEF Accepted
      <4>2. CASE n \in job[a].items
        <5>1. job[a].kind = "claim" /\ job[a].step = 1
          BY <1>1, <1>2, <3>4, <4>2, SentCall
        <5>2. a \in Tabs /\ job[a].items = {n}
          BY <3>3, <4>2, <5>1 DEF Inv, ClaimsByTabs, JobFits
        <5> QED
          BY <3>2, <5>1, <5>2 DEF Between
      <4>3. CASE n \notin job[a].items
        <5>1. PICK t \in Tabs : Between(job[t], n)
          BY <3>1, <4>1, <4>3 DEF Inv, Explained
        <5>2. t # a
          BY <1>1, <3>4, <4>3, <5>1, SentCall DEF Between
        <5> QED
          BY <3>2, <5>1, <5>2 DEF Actors
      <4> QED
        BY <4>2, <4>3
    <3>5. CASE CurrentCall(a) # "withdraw"
      <4>1. CurrentCall(a) # "claimWithdrawal" /\ balance' = balance
        BY <1>2, <3>5 DEF Accepted
      <4>2. PICK t \in Tabs : Between(job[t], n)
        BY <3>1, <4>1 DEF Inv, Explained
      <4>3. t # a
        BY <1>1, <4>1, <4>2, SentCall DEF Between
      <4> QED
        BY <3>2, <4>2, <4>3 DEF Actors
    <3> QED
      BY <3>4, <3>5
  <2> HIDE DEF Inv
  <2> QED
    BY <1>1, <1>2, <2>1, <2>3, <2>4, Moves DEF ControlPoints
<1>3. CASE /\ Refused(CurrentCall(a), job[a].items)
           /\ job' = [job EXCEPT ![a].pc = "refused"] /\ UNCHANGED onLedger
  <2>1. UNCHANGED contractVars /\ ~Accepts(CurrentCall(a), job[a].items)
    BY <1>3 DEF Refused
  <2>2. ContractInv' /\ Grows /\ Reached(job[a])'
    BY <1>1, <1>3, <2>1, NothingChanged
  <2>3. CountType'
    BY <1>1, <1>3 DEF Inv, CountType, countVars
  <2>4. Explained'
    <3> SUFFICES ASSUME faults' = 0, NEW n \in balance' \ onLedger'
                 PROVE  \E t \in Tabs : Between(job'[t], n)
      BY DEF Explained, Between
    <3>1. faults = 0 /\ n \in balance \ onLedger
      BY <1>1, <1>3, <2>1 DEF countVars, contractVars
    <3>2. PICK t \in Tabs : Between(job[t], n)
      BY <3>1 DEF Inv, Explained
    <3>3. t # a
      <4>1. CurrentCall(a) # "claimWithdrawal"
        BY <2>1, <3>1 DEF Accepts
      <4> QED
        BY <1>1, <3>2, <4>1, SentCall DEF Between
    <3>4. job'[t] = job[t]
      BY <1>3, <3>3 DEF Inv, JobType, Actors
    <3> QED
      BY <3>2, <3>4
  <2> HIDE DEF Inv
  <2> QED
    BY <1>1, <1>3, <2>2, <2>3, <2>4, Moves DEF ControlPoints
<1> QED
  BY <1>2, <1>3 DEF Executes

\* A misfortune: whatever became of the call, its job has failed.
LEMMA MisfortuneInv ==
    ASSUME Inv, NEW a \in Actors, CallFails(a) \/ Gone(a) PROVE Inv'
<1>1. /\ Running(a) /\ faults < MaxFaults /\ faults' = faults + 1
      /\ UNCHANGED <<onLedger, actions>>
  BY DEF CallFails, Gone, Running, Free
<1>2. PICK pc \in {"refused", "failed"} :
        /\ job' = [job EXCEPT ![a].pc = pc] /\ (job[a].pc = "sent" \/ pc = "failed")
        /\ \/ job[a].pc = "sent" /\ Accepted(CurrentCall(a), job[a].items)
           \/ UNCHANGED contractVars
  BY DEF CallFails, Gone
<1>3. ContractInv' /\ Grows /\ Reached(job[a])'
  BY <1>1, <1>2, AcceptedReaches, NothingChanged
<1>4. CountType' /\ faults' # 0
  BY <1>1, BoundsAssumption DEF Inv, CountType
<1>5. Explained'
  BY <1>4 DEF Explained
<1> HIDE DEF Inv
<1> QED
  BY <1>1, <1>2, <1>3, <1>4, <1>5, Moves DEF ControlPoints

\* The caller goes on with the answer.
LEMMA AnsweredInv == ASSUME Inv, NEW a \in Actors, Answered(a) PROVE Inv'
<1>1. job[a].pc \in {"accepted", "refused"} /\ UNCHANGED <<contractVars, onLedger, countVars>>
  BY DEF Answered
<1>2. /\ job[a] \in [kind : {"none"} \union Kinds, items : SUBSET Owed, pc : ControlPoints,
                     step : 1..2, seen : SUBSET Names]
      /\ JobFits(job[a]) /\ Reached(job[a]) /\ JobType
  BY DEF Inv, JobType, JobsInv
<1>3. job[a].kind # "none"
  BY <1>1, <1>2 DEF JobFits
<1>4. job' = [job EXCEPT ![a] = job'[a]]
  BY <1>2 DEF Answered, JobType
<1>5. CASE job[a].pc = "refused"
  <2>1. job' = [job EXCEPT ![a].pc = "failed"]
    BY <1>5 DEF Answered, Succeeded
  <2>2. job'[a] = [job[a] EXCEPT !.pc = "failed"]
    BY <1>2, <2>1 DEF JobType
  <2>3. /\ job'[a].kind = job[a].kind /\ job'[a].items = job[a].items /\ job'[a].pc = "failed"
        /\ job'[a].step = job[a].step /\ job'[a].seen = job[a].seen
        /\ job'[a] \in [kind : {"none"} \union Kinds, items : SUBSET Owed, pc : ControlPoints,
                        step : 1..2, seen : SUBSET Names]
    BY <1>2, <2>2 DEF ControlPoints
  <2>4. JobFits(job'[a]) /\ Reached(job[a])'
    BY <1>1, <1>2, <1>3, <2>3 DEF JobFits, Reached, Answer, contractVars
  <2>5. \A n : ~Between(job[a], n)
    BY <1>5 DEF Between
  <2> QED
    BY <1>1, <1>4, <2>3, <2>4, <2>5, GoesOn
<1>6. CASE job[a].pc = "accepted" /\ ~LastCall(a)
  <2>1. job' = [job EXCEPT ![a].pc = "sent", ![a].step = @ + 1]
    BY <1>6 DEF Answered, Succeeded
  <2>2. job[a].step = 1 /\ job[a].kind \in {"release", "claim"}
    BY <1>2, <1>3, <1>6, CurrentCalls DEF Kinds
  <2>3. job'[a] = [job[a] EXCEPT !.pc = "sent", !.step = 2]
    BY <1>2, <2>1, <2>2 DEF JobType
  <2>4. /\ job'[a].kind = job[a].kind /\ job'[a].items = job[a].items /\ job'[a].pc = "sent"
        /\ job'[a].step = 2 /\ job'[a].seen = job[a].seen
        /\ job'[a] \in [kind : {"none"} \union Kinds, items : SUBSET Owed, pc : ControlPoints,
                        step : 1..2, seen : SUBSET Names]
    <3>1. "sent" \in ControlPoints /\ 2 \in 1..2
      BY DEF ControlPoints
    <3> QED
      BY <1>2, <2>3, <3>1
  <2>5. JobFits(job'[a])
    BY <1>2, <1>3, <2>2, <2>4 DEF JobFits
  <2>6. job[a].kind = "claim" => job[a].items \subseteq balance \union paid
    BY <1>2, <1>6 DEF Reached, Answer
  <2>7. Reached(job[a])'
    BY <1>1, <2>2, <2>4, <2>6 DEF Reached, Answer, contractVars
  <2>8. \A n : Between(job[a], n) => Between(job'[a], n)
    BY <2>4 DEF Between
  <2> QED
    BY <1>1, <1>4, <2>4, <2>5, <2>7, <2>8, GoesOn
<1>7. CASE job[a].pc = "accepted" /\ LastCall(a)
  <2>1. PICK pc \in {"refreshing", "done"} : job' = [job EXCEPT ![a].pc = pc]
    BY <1>7 DEF Answered, Succeeded
  <2>2. job'[a] = [job[a] EXCEPT !.pc = pc]
    BY <1>2, <2>1 DEF JobType
  <2>3. /\ job'[a].kind = job[a].kind /\ job'[a].items = job[a].items /\ job'[a].pc = pc
        /\ job'[a].step = job[a].step /\ job'[a].seen = job[a].seen
        /\ job'[a] \in [kind : {"none"} \union Kinds, items : SUBSET Owed, pc : ControlPoints,
                        step : 1..2, seen : SUBSET Names]
    BY <1>2, <2>2 DEF ControlPoints
  <2>4. job[a].kind \in {"release", "claim"} => job[a].step = 2
    BY <1>2, <1>3, <1>7, CurrentCalls
  <2>5. JobFits(job'[a])
    BY <1>2, <1>3, <2>3 DEF JobFits
  <2>6. Answer(job[a]) /\ Answer(job'[a])
    BY <1>7, <2>3 DEF Answer
  <2>7. Reached(job[a])'
    BY <1>1, <1>2, <2>3, <2>4, <2>6 DEF Reached, contractVars
  <2>8. \A n : ~Between(job[a], n)
    BY <1>7, <2>4 DEF Between
  <2> QED
    BY <1>1, <1>4, <2>3, <2>5, <2>7, <2>8, GoesOn
<1> QED
  BY <1>1, <1>5, <1>6, <1>7

\* A cooldown ends.
LEMMA CooldownInv == ASSUME Inv, CooldownEnds PROVE Inv'
<1>1. UNCHANGED <<position, approved, balance, paid, job, onLedger, countVars>>
  BY DEF CooldownEnds
<1>2. ripe' \subseteq Owed
  BY DEF CooldownEnds, Inv, ContractInv
<1>3. ContractInv' /\ JobType' /\ CountType'
  BY <1>1, <1>2 DEF Inv, ContractInv, JobType, CountType, countVars
<1>4. JobsInv' /\ ClaimsByTabs'
  BY <1>1 DEF Inv, JobsInv, JobFits, Reached, Answer, ClaimsByTabs
<1>5. Explained'
  BY <1>1 DEF Inv, Explained, Between, countVars
<1> QED
  BY <1>3, <1>4, <1>5 DEF Inv

\* What a tab or a terminal begins.
LEMMA ActorInv ==
    ASSUME Inv, (\E t \in Tabs : TabStep(t)) \/ (\E c \in Terminals : CommandStep(c))
    PROVE  Inv'
<1>1. ASSUME NEW a \in Actors, NEW n \in Names, NEW kind \in {"release", "claim", "withdraw"},
             Begin(a, kind, {n}, "sent"), kind = "claim" => a \in Tabs
      PROVE  Inv'
  BY <1>1, BeginInv DEF Kinds, Owed
<1>2. ASSUME NEW a \in Actors, NEW entries \in SUBSET Entries, Begin(a, "refunds", entries, "sent")
      PROVE  Inv'
  BY <1>2, BeginInv DEF Kinds, Owed
<1>3. ASSUME NEW a \in Actors, Begin(a, "drain", {}, "balance") PROVE Inv'
  BY <1>3, BeginInv DEF Kinds, Owed
<1>4. ASSUME NEW t \in Tabs, TabStep(t) PROVE Inv'
  <2>1. t \in Actors
    BY DEF Actors
  <2>2. CASE OnRelease(t)
    BY <1>1, <2>1, <2>2 DEF OnRelease
  <2>3. CASE OnClaim(t)
    BY <1>1, <2>1, <2>3 DEF OnClaim
  <2>4. CASE OnClaimRefunds(t)
    BY <1>2, <2>1, <2>4 DEF OnClaimRefunds
  <2>5. CASE Refreshed(t)
    BY <2>5, RefreshedInv
  <2> QED
    BY <1>4, <2>2, <2>3, <2>4, <2>5 DEF TabStep
<1>5. ASSUME NEW c \in Terminals, CommandStep(c) PROVE Inv'
  <2>1. c \in Actors
    BY DEF Actors
  <2>2. CASE ReleaseName(c)
    BY <1>1, <2>1, <2>2 DEF ReleaseName
  <2>3. CASE WithdrawName(c)
    BY <1>1, <2>1, <2>3 DEF WithdrawName
  <2>4. CASE ClaimRefunds(c)
    BY <1>2, <2>1, <2>4 DEF ClaimRefunds
  <2>5. CASE ClaimWithdrawalCommand(c)
    BY <1>3, <2>1, <2>5 DEF ClaimWithdrawalCommand
  <2>6. CASE GetPendingWithdrawal(c)
    BY <2>1, <2>6, BalanceReadInv
  <2> QED
    BY <1>5, <2>2, <2>3, <2>4, <2>5, <2>6 DEF CommandStep
<1> QED
  BY <1>4, <1>5

\* Every step.
LEMMA NextInv == Inv /\ [Next]_vars => Inv'
<1> SUFFICES ASSUME Inv, [Next]_vars PROVE Inv'
  OBVIOUS
<1>1. ASSUME UNCHANGED vars PROVE Inv'
  <2>1. UNCHANGED <<position, approved, ripe, balance, paid, job, onLedger, actions, faults>>
    BY <1>1 DEF vars, contractVars, countVars
  <2>2. ContractInv' /\ JobType' /\ CountType'
    BY <2>1 DEF Inv, ContractInv, JobType, CountType
  <2>3. JobsInv' /\ ClaimsByTabs' /\ Explained'
    BY <2>1 DEF Inv, JobsInv, JobFits, Reached, Answer, ClaimsByTabs, Explained, Between
  <2> QED
    BY <2>2, <2>3 DEF Inv
<1>2. CASE Ended
  BY <1>1, <1>2 DEF Ended
<1>3. ASSUME NEW a \in Actors, Executes(a) \/ Answered(a) \/ CallFails(a) \/ Gone(a) PROVE Inv'
  BY <1>3, ExecutesInv, AnsweredInv, MisfortuneInv
<1> QED
  BY <1>1, <1>2, <1>3, ActorInv, CooldownInv DEF Next

(***************************************************************************)
(* The theorems.                                                           *)
(***************************************************************************)

\* The inductive invariant holds in every reachable state.
THEOREM Invariance == Spec => []Inv
  BY InitInv, NextInv, PTL DEF Spec

\* Every state has its shape: a deposit is on the ledger or paid only after its name was
\* withdrawn, and no caller is past its last call.
THEOREM TypeCorrect == Spec => []TypeOK
<1>1. Inv => TypeOK
  <2> SUFFICES ASSUME Inv PROVE TypeOK
    OBVIOUS
  <2>1. ASSUME NEW a \in Actors, Running(a) PROVE job[a].step <= Len(Calls(job[a].kind))
    <3>1. JobFits(job[a]) /\ job[a].kind # "none" /\ job[a].step \in 1..2 /\ job[a].kind \in Kinds
      BY <2>1 DEF Inv, JobsInv, JobFits, JobType, Running, Free
    <3>2. CASE job[a].step = 1
      BY <3>1, <3>2 DEF Calls, Kinds
    <3>3. CASE job[a].step = 2
      BY <3>1, <3>3 DEF Calls, JobFits
    <3> QED
      BY <3>1, <3>2, <3>3
  <2>2. job \in [Actors -> [kind  : {"none", "release", "claim", "withdraw", "drain", "refunds"},
                            items : SUBSET Owed, pc : ControlPoints, step : 1..2,
                            seen  : SUBSET Names]]
    <3>1. {"none"} \union Kinds = {"none", "release", "claim", "withdraw", "drain", "refunds"}
      BY DEF Kinds
    <3> QED
      BY <3>1 DEF Inv, JobType
  <2> QED
    BY <2>1, <2>2 DEF Inv, ContractInv, CountType, TypeOK
<1> QED
  BY <1>1, Invariance, PTL

\* A success that is shown is true, for any interleaving of any number of tabs and
\* terminals, with any misfortunes.
THEOREM SuccessPaid == Spec => []SuccessMeansPaid
<1>1. Inv => SuccessMeansPaid
  <2> SUFFICES ASSUME Inv, NEW a \in Actors, Success(a)
               PROVE  LET items == job[a].items
                      IN  CASE job[a].kind = "release"  -> \A n \in items : position[n] # "held"
                            [] job[a].kind = "withdraw" -> items \subseteq balance \union paid
                            [] job[a].kind = "drain"    -> job[a].seen \subseteq paid
                            [] OTHER                    -> items \subseteq paid
    BY DEF SuccessMeansPaid
  <2>1. JobFits(job[a]) /\ Reached(job[a]) /\ job[a].kind \in {"none"} \union Kinds
    BY DEF Inv, JobsInv, JobType
  <2>2. Answer(job[a]) /\ job[a].pc \in {"refreshing", "done"} /\ job[a].kind # "none"
    BY <2>1 DEF Success, Answer, JobFits
  <2> QED
    BY <2>1, <2>2 DEF Reached, Kinds
<1> QED
  BY <1>1, Invariance, PTL

\* Without a misfortune no claim of a tab leaves its deposit on the ledger.
THEOREM NothingStranded == Spec => []NoDepositStranded
<1>1. Inv => NoDepositStranded
  BY DEF Inv, Explained, Between, NoDepositStranded, Running, Free
<1> QED
  BY <1>1, Invariance, PTL
===============================================================================
