------------------------- MODULE DirectoryUploadProofs -------------------------
(***************************************************************************)
(* Proofs about DirectoryUpload, for any tree of blocks, any size of waves *)
(* and any number of retries and misfortunes.                              *)
(***************************************************************************)
EXTENDS DirectoryUpload, FiniteSetTheorems, TLAPS

(***************************************************************************)
(* The inductive invariant.                                                *)
(***************************************************************************)
\* What the account's transactions carry.
Payloads  == [kind : {"dag", "foreign"}, links : SUBSET Cids]
ChainType ==
    /\ ledger \in Seq([call : Payloads, outcome : {"success", "error"}])
    /\ pool \subseteq [nonce : Nat, call : Payloads]

AllOf(q)  == UNION {InSeq(q[k]) : k \in DOMAIN q}
Queued    == AllOf(waveQueue)
Waiting   == InSeq(waveBuffer) \union InSeq(wave.blocks) \union Queued

\* Only a batch under way has submissions.
WaveShape ==
    /\ wave.phase = "idle" => wave = NoWave
    /\ wave.phase # "batch" => wave.st = <<>>

\* What was put is marked, and what is marked is held or waits.
PutAreMarked == \A n \in Nodes : awaited[n] # NotPut => CidOf[n] \in uploadedCids
Marked       == \A x \in uploadedCids : Holds(x) \/ x \in Waiting
OkAreStored  == \A i \in DOMAIN wave.st : wave.st[i] = "ok" => Holds(wave.blocks[i])

\* What a block links is held, or goes out before it.
After(s, S) == \A i \in DOMAIN s : \A y \in Linked(s[i]) :
                   y \in S \/ \E j \in 1..(i - 1) : s[j] = y
Before(q, k) == UNION {InSeq(q[l]) : l \in 1..(k - 1)}
Ordered ==
    /\ After(wave.blocks, Held)
    /\ \A k \in DOMAIN waveQueue :
          After(waveQueue[k], Held \union InSeq(wave.blocks) \union Before(waveQueue, k))
    /\ After(waveBuffer, Held \union InSeq(wave.blocks) \union Queued)

\* No block waits twice.
Injective(s) == \A i, j \in DOMAIN s : s[i] = s[j] => i = j
Once ==
    /\ Waiting \subseteq uploadedCids
    /\ Injective(waveBuffer) /\ Injective(wave.blocks)
    /\ InSeq(waveBuffer) \intersect InSeq(wave.blocks) = {}
    /\ \A k \in DOMAIN waveQueue :
          /\ Injective(waveQueue[k])
          /\ InSeq(waveQueue[k]) \intersect (InSeq(waveBuffer) \union InSeq(wave.blocks)) = {}
          /\ InSeq(waveQueue[k]) \intersect Before(waveQueue, k) = {}

\* The counter counts what is marked and does not wait.
Counted ==
    /\ IsFiniteSet(uploadedCids)
    /\ completedCount = Cardinality(uploadedCids \ Waiting)

\* A put that flushes waits for its wave; so the importer ends when all waves have run.
AllPut == \A n \in Nodes : awaited[n] # NotPut
Quiet  == wave.phase = "idle" /\ waveQueue = <<>>
Phased ==
    /\ pc = "importing" => Chained = 0 \/ \E n \in Nodes : awaited[n] = Chained
    /\ pc \in {"finalNonce", "finalWave", "done"} => AllPut
    /\ pc \in {"finalNonce", "done"} => Quiet
    /\ pc \in {"finalWave", "done"} => waveBuffer = <<>>

\* Without a misfortune the nonces of the wave are those the chain expects next.
Txn(i) == [nonce |-> NonceOf(i), call |-> DagBlock(wave.blocks[i])]
InStep ==
    /\ wave.nonce <= Len(ledger) /\ Len(ledger) <= wave.nonce + Len(wave.blocks)
    /\ \A i \in DOMAIN wave.st :
          /\ wave.st[i] \in {"sent", "inflight", "ok"}
          /\ Spent(NonceOf(i)) => Found(DagBlock(wave.blocks[i]), NonceOf(i)) /\ wave.st[i] # "sent"
          /\ ~Spent(NonceOf(i)) => wave.st[i] # "ok" /\ (wave.st[i] = "inflight" => Txn(i) \in pool)
    /\ \A t \in pool : \E i \in DOMAIN wave.st :
          t = Txn(i) /\ ~Spent(NonceOf(i)) /\ wave.st[i] = "inflight"
OfUploaded == \A i \in DOMAIN ledger : /\ ledger[i].outcome = "success"
                                       /\ \E x \in uploadedCids : ledger[i].call = DagBlock(x)
NotSent(S, last) == \A i \in DOMAIN ledger, x \in S : i <= last => ledger[i].call # DagBlock(x)
Smooth ==
    /\ wave.phase # "refetch" /\ client # "destroyed"
    /\ wave.phase = "batch" => InStep
    /\ wave.phase # "batch" => pool = {} /\ (client # "none" => nextNonce = Len(ledger))
    /\ OfUploaded
    /\ \A i, j \in DOMAIN ledger : ledger[i].call = ledger[j].call => i = j
    /\ NotSent(InSeq(waveBuffer) \union Queued, Len(ledger))
    /\ NotSent(InSeq(wave.blocks), IF wave.phase = "batch" THEN wave.nonce ELSE Len(ledger))
Faultless == faults = 0 => Smooth

IInv ==
    ChainType /\ TypeOK /\ WaveShape /\ PutAreMarked /\ Marked /\ OkAreStored /\ Ordered /\ Once /\ Counted
    /\ Phased /\ Faultless

(***************************************************************************)
(* Sequences and finite sets.                                              *)
(***************************************************************************)
LEMMA SomePositions ==
  ASSUME NEW n \in Nat, NEW S, S \subseteq 1..n
  PROVE  IsFiniteSet(S) /\ Cardinality(S) \in Nat
<1>1. IsFiniteSet(1..n)
  BY FS_Interval
<1> QED
  BY <1>1, FS_Subset, FS_CardinalityType

\* The positions of a set, counted from below, are those from 1 to its size.
Rank(S, j) == Cardinality({k \in S : k <= j})

LEMMA Ranked ==
  ASSUME NEW n \in Nat, NEW S, S \subseteq 1..n
  PROVE  /\ \A j \in S : Rank(S, j) \in 1..Cardinality(S)
         /\ \A j, l \in S : j < l => Rank(S, j) < Rank(S, l)
         /\ \A i \in 1..Cardinality(S) : \E j \in S : Rank(S, j) = i
<1> DEFINE below(j) == {k \in S : k <= j}
<1>1. IsFiniteSet(S) /\ Cardinality(S) \in Nat
  BY SomePositions
<1>2. ASSUME NEW j \in S PROVE IsFiniteSet(below(j)) /\ Rank(S, j) \in 1..Cardinality(S)
  <2>1. j \in Int /\ below(j) \subseteq S /\ j \in below(j)
    OBVIOUS
  <2>2. IsFiniteSet(below(j)) /\ Cardinality(below(j)) <= Cardinality(S)
    BY <1>1, <2>1, FS_Subset
  <2>3. Cardinality(below(j)) \in Nat /\ Cardinality(below(j)) # 0
    BY <2>1, <2>2, FS_EmptySet, FS_CardinalityType
  <2> QED
    BY <1>1, <2>2, <2>3 DEF Rank
<1>3. \A j \in S : Rank(S, j) \in Int
  <2> SUFFICES ASSUME NEW j \in S PROVE Rank(S, j) \in Int
    OBVIOUS
  <2>1. Rank(S, j) \in 1..Cardinality(S)
    BY <1>2
  <2> QED
    BY <1>1, <2>1
<1>4. ASSUME NEW j \in S, NEW l \in S, j < l PROVE Rank(S, j) < Rank(S, l)
  <2>1. \A k \in S : k \in Int
    OBVIOUS
  <2>2. below(j) \subseteq below(l) /\ l \in below(l) /\ l \notin below(j)
    <3> HIDE <1>1, <1>2
    <3>1. j \in Int /\ l \in Int
      BY <2>1
    <3>2. \A k \in S : k <= j => k <= l
      BY <1>4, <2>1, <3>1
    <3>3. l <= l /\ ~(l <= j)
      BY <1>4, <3>1
    <3> QED
      BY <3>2, <3>3
  <2>3. /\ Cardinality(below(j)) <= Cardinality(below(l))
        /\ Cardinality(below(l)) = Cardinality(below(j)) => below(l) = below(j)
    BY <1>2, <2>2, FS_Subset
  <2>4. Rank(S, j) \in Int /\ Rank(S, l) \in Int
    BY <1>3
  <2> QED
    BY <2>2, <2>3, <2>4 DEF Rank
<1> DEFINE f == [j \in S |-> Rank(S, j)]
<1>5. f \in Injection(S, 1..Cardinality(S))
  <2>1. f \in [S -> 1..Cardinality(S)]
    BY <1>2
  <2>2. ASSUME NEW j \in S, NEW l \in S, Rank(S, j) = Rank(S, l) PROVE j = l
    <3>1. j \in Int /\ l \in Int
      OBVIOUS
    <3>2. Rank(S, j) \in Int /\ Rank(S, l) \in Int
      BY <1>3
    <3> QED
      BY <1>4, <2>2, <3>1, <3>2
  <2> QED
    BY <2>1, <2>2 DEF Injection, IsInjective
<1>6. f \in Surjection(S, 1..Cardinality(S))
  <2>1. IsFiniteSet(1..Cardinality(S)) /\ Cardinality(1..Cardinality(S)) = Cardinality(S)
    BY <1>1, FS_Interval
  <2> QED
    BY <1>5, <2>1, FS_Injection
<1>7. \A i \in 1..Cardinality(S) : \E j \in S : Rank(S, j) = i
  BY <1>6 DEF Surjection
<1> QED
  BY <1>2, <1>4, <1>7

\* The failed blocks of a wave are those at the failed positions, in their order.
LEMMA FailedInOrder ==
  ASSUME WaveType
  PROVE  \E pos \in [1..Cardinality(FailedOnes) -> FailedOnes] :
            /\ Cardinality(FailedOnes) \in Nat
            /\ FailedBlocks = [i \in 1..Cardinality(FailedOnes) |-> wave.blocks[pos[i]]]
            /\ \A j \in FailedOnes : \E i \in DOMAIN pos : pos[i] = j
            /\ \A i, l \in DOMAIN pos : i < l => pos[i] < pos[l]
<1> DEFINE S == FailedOnes
           size == Cardinality(S)
           pos == [i \in 1..size |-> CHOOSE j \in S : Rank(S, j) = i]
<1>1. S \subseteq 1..Len(wave.st) /\ Len(wave.st) \in Nat
  BY DEF WaveType, FailedOnes
<1>2. /\ \A j \in S : Rank(S, j) \in 1..size
      /\ \A j, l \in S : j < l => Rank(S, j) < Rank(S, l)
      /\ \A i \in 1..size : \E j \in S : Rank(S, j) = i
      /\ size \in Nat
  BY <1>1, Ranked, SomePositions
<1>3. FailedBlocks = [i \in 1..size |-> wave.blocks[pos[i]]]
  BY DEF FailedBlocks, Rank
<1> HIDE DEF S
<1>4. \A i \in 1..size : pos[i] \in S /\ Rank(S, pos[i]) = i
  BY <1>2
<1>5. \A j \in S : j \in Int
  BY <1>1
<1> HIDE DEF pos, size
<1>6. \A j \in S : \E i \in 1..size : pos[i] = j
  <2> SUFFICES ASSUME NEW j \in S PROVE pos[Rank(S, j)] = j
    BY <1>2
  <2>1. pos[Rank(S, j)] \in S /\ Rank(S, pos[Rank(S, j)]) = Rank(S, j)
    BY <1>2, <1>4
  <2>2. Rank(S, j) \in Int
    BY <1>2
  <2> QED
    BY <1>2, <1>5, <2>1, <2>2
<1>7. ASSUME NEW i \in 1..size, NEW l \in 1..size, i < l PROVE pos[i] < pos[l]
  <2>1. i \in Int /\ l \in Int
    OBVIOUS
  <2>2. pos[i] \in S /\ pos[l] \in S /\ Rank(S, pos[i]) = i /\ Rank(S, pos[l]) = l
    BY <1>4
  <2> QED
    BY <1>2, <1>5, <1>7, <2>1, <2>2
<1>8. pos \in [1..size -> S]
  BY <1>4 DEF pos
<1> QED
  BY <1>2, <1>3, <1>6, <1>7, <1>8 DEF S, size, pos

(***************************************************************************)
(* Type correctness is inductive as it stands.                             *)
(***************************************************************************)
USE DEF importVars, queueVars, clientVars, attemptVars, accountVars, waveFrame, submissionFrame,
        nodeFrame

LEMMA NoWaveType == wave' = NoWave => WaveType'
BY LimitsAssumption DEF NoWave, WaveType

LEMMA BatchType ==
  ASSUME NEW blocks \in Seq(Cids), NEW n \in Nat, NEW retry \in 0..MaxWaveRetries,
         wave' = Batch(blocks, n, retry)
  PROVE  WaveType'
<1>1. [i \in DOMAIN blocks |-> "sent"] \in Seq(SubStates)
  BY DEF SubStates, Pending
<1> QED
  BY <1>1 DEF WaveType, Batch

LEMMA FreshType ==
  ASSUME FreshAttempt, faults' \in 0..MaxFaults, pc' \in ControlPoints,
         attempt' \in 0..MaxUploadRetries
  PROVE  TypeOK'
<1>1. WaveType'
  BY LimitsAssumption DEF FreshAttempt, NoWave, WaveType
<1> QED
  BY <1>1, LimitsAssumption DEF FreshAttempt, TypeOK, NotPut

LEMMA FailAttemptType ==
  ASSUME TypeOK, NEW error, FailAttempt(error), faults' \in 0..MaxFaults
  PROVE  TypeOK'
<1>1. pc' \in ControlPoints /\ attempt' \in 0..MaxUploadRetries
  BY LimitsAssumption DEF FailAttempt, TypeOK, ControlPoints
<1> QED
  BY <1>1, FreshType DEF FailAttempt

LEMMA MisfortuneType ==
  ASSUME TypeOK, Misfortune
  PROVE  faults' \in 0..MaxFaults
BY BoundAssumption DEF TypeOK, Misfortune

LEMMA SetSubType ==
  ASSUME WaveType, NEW i \in DOMAIN wave.st, NEW out \in SubStates, SetSub(i, out)
  PROVE  WaveType'
<1>1. [wave.st EXCEPT ![i] = out] \in Seq(SubStates)
  BY DEF WaveType
<1>2. /\ wave'.phase = wave.phase /\ wave'.blocks = wave.blocks /\ wave'.nonce = wave.nonce
      /\ wave'.retry = wave.retry /\ wave'.st = [wave.st EXCEPT ![i] = out]
  BY DEF SetSub
<1> QED
  BY <1>1, <1>2 DEF WaveType

LEMMA NonceType == ASSUME ChainType, FetchNonce PROVE nextNonce' \in Nat
<1>1. Len(ledger) \in Nat
  BY DEF ChainType
<1>2. \A n \in Len(ledger)..(Len(ledger) + Cardinality(pool)) : IsNextIndex(n) => n \in Nat
  BY <1>1 DEF IsNextIndex
<1> QED
  BY <1>2 DEF FetchNonce

\* A put finds its block marked, fills the buffer, or collects it.
PutMarked(n) ==
    /\ CidOf[n] \in uploadedCids
    /\ awaited' = [awaited EXCEPT ![n] = 0]
    /\ UNCHANGED <<waveBuffer, waveQueue>>
PutFlushes(n) ==
    /\ CidOf[n] \notin uploadedCids
    /\ awaited' = [awaited EXCEPT ![n] = Chained + 1]
    /\ waveQueue' = Append(waveQueue, Append(waveBuffer, CidOf[n]))
    /\ waveBuffer' = <<>>
PutCollects(n) ==
    /\ CidOf[n] \notin uploadedCids
    /\ awaited' = [awaited EXCEPT ![n] = 0]
    /\ waveBuffer' = Append(waveBuffer, CidOf[n])
    /\ Len(waveBuffer') < WaveSize
    /\ UNCHANGED waveQueue

LEMMA PutEffect ==
  ASSUME TypeOK, NEW n \in Nodes, Put(n)
  PROVE  /\ CidOf[n] \in Cids /\ pc = "importing"
         /\ uploadedCids' = uploadedCids \union {CidOf[n]}
         /\ UNCHANGED <<accountVars, pc, attempt, wavesDone, wave, clientVars, completedCount, faults>>
         /\ PutMarked(n) \/ PutFlushes(n) \/ PutCollects(n)
<1>1. CidOf[n] \in Cids
  BY TreeAssumption DEF Cids
<1> DEFINE full == Append(waveBuffer, CidOf[n])
<1>2. Len(full) \in Nat /\ Len(full) = Len(waveBuffer) + 1
  BY <1>1 DEF TypeOK
<1>3. ASSUME CidOf[n] \in uploadedCids PROVE PutMarked(n)
  BY <1>3 DEF Put, Collected, PutMarked
<1>4. ASSUME CidOf[n] \notin uploadedCids, Len(full) >= WaveSize PROVE PutFlushes(n)
  BY <1>4 DEF Put, Collected, PutFlushes
<1>5. ASSUME CidOf[n] \notin uploadedCids, ~(Len(full) >= WaveSize) PROVE PutCollects(n)
  <2>1. awaited' = [awaited EXCEPT ![n] = 0] /\ waveBuffer' = full /\ UNCHANGED waveQueue
    BY <1>5 DEF Put, Collected
  <2> QED
    BY <1>2, <1>5, <2>1, LimitsAssumption DEF PutCollects
<1> QED
  BY <1>1, <1>3, <1>4, <1>5 DEF Put

LEMMA ImporterTypeOK == ASSUME ChainType, TypeOK, ImporterStep PROVE TypeOK'
<1>1. CASE \E n \in Nodes : Put(n)
  <2>1. PICK n \in Nodes : Put(n)
    BY <1>1
  <2>2. /\ CidOf[n] \in Cids /\ Append(waveBuffer, CidOf[n]) \in Seq(Cids)
        /\ waveQueue \in Seq(Seq(Cids)) /\ Chained + 1 \in Nat
    BY <2>1, PutEffect DEF TypeOK, Chained
  <2>3. /\ awaited' \in [Nodes -> Nat \union {NotPut}]
        /\ waveBuffer' \in Seq(Cids) /\ Len(waveBuffer') < WaveSize
        /\ waveQueue' \in Seq(Seq(Cids))
    <3>1. awaited \in [Nodes -> Nat \union {NotPut}] /\ waveBuffer \in Seq(Cids) /\ Len(waveBuffer) < WaveSize
      BY DEF TypeOK
    <3>2. CASE PutMarked(n)
      BY <2>2, <3>1, <3>2 DEF PutMarked
    <3>3. CASE PutFlushes(n)
      BY <2>2, <3>1, <3>3, LimitsAssumption DEF PutFlushes
    <3>4. CASE PutCollects(n)
      BY <2>2, <3>1, <3>4 DEF PutCollects
    <3> QED
      BY <2>1, <3>2, <3>3, <3>4, PutEffect
  <2> QED
    BY <2>1, <2>2, <2>3, PutEffect DEF TypeOK, WaveType
<1>2. CASE ImporterEnds \/ Return
  BY <1>2 DEF ImporterEnds, Return, TypeOK, ControlPoints, WaveType
<1>3. CASE FinalFlush
  <2>1. CASE Misfortune /\ FailAttempt("timeout")
    BY <2>1, MisfortuneType, FailAttemptType
  <2>2. CASE /\ FetchNonce /\ client' = "alive"
             /\ waveQueue' = IF waveBuffer = <<>> THEN waveQueue ELSE Append(waveQueue, waveBuffer)
             /\ waveBuffer' = <<>> /\ pc' = "finalWave"
             /\ UNCHANGED <<attempt, awaited, uploadedCids, wavesDone, wave, completedCount, faults>>
    BY <2>2, NonceType, LimitsAssumption DEF TypeOK, ControlPoints, WaveType
  <2> QED
    BY <1>3, <2>1, <2>2 DEF FinalFlush
<1> QED
  BY <1>1, <1>2, <1>3 DEF ImporterStep

LEMMA SubmittedType ==
  ASSUME NEW call, NEW n, NEW out, Submit(call, n, out)
  PROVE  out \in SubStates
BY DEF Submit, SubStates, Pending, Errors, Retryable

\* A step of the running wave that only touches its submissions.
LEMMA SubmissionTypeOK ==
  ASSUME TypeOK, NEW i \in DOMAIN wave.st,
         SubmitBlock(i) \/ BlockSettles(i) \/ BlockGivenUp(i) \/ BlockFails(i)
  PROVE  TypeOK'
<1>1. \E out \in SubStates : SetSub(i, out)
  BY DEF SubmitBlock, BlockSettles, WatchedOutcome, BlockGivenUp, BlockFails, SubStates, Pending, Errors,
         Retryable
<1>2. WaveType'
  BY <1>1, SetSubType DEF TypeOK
<1>3. faults' \in 0..MaxFaults
  BY MisfortuneType DEF SubmitBlock, BlockSettles, BlockGivenUp, BlockFails, TypeOK
<1>4. UNCHANGED submissionFrame
  BY DEF SubmitBlock, BlockSettles, BlockGivenUp, BlockFails
<1> QED
  BY <1>2, <1>3, <1>4 DEF TypeOK

LEMMA RefailedType ==
  ASSUME WaveType, wave.phase = "batch"
  PROVE  FailedBlocks \in Seq(Cids)
<1>1. PICK pos \in [1..Cardinality(FailedOnes) -> FailedOnes] :
         /\ Cardinality(FailedOnes) \in Nat
         /\ FailedBlocks = [i \in 1..Cardinality(FailedOnes) |-> wave.blocks[pos[i]]]
  BY FailedInOrder
<1>2. \A j \in FailedOnes : wave.blocks[j] \in Cids
  BY DEF WaveType, FailedOnes
<1> QED
  BY <1>1, <1>2

LEMMA WaveTypeOK == ASSUME ChainType, TypeOK, WaveStep PROVE TypeOK'
<1>1. CASE StartWave
  <2>1. Head(waveQueue) \in Seq(Cids) /\ Tail(waveQueue) \in Seq(Seq(Cids))
    BY <1>1 DEF StartWave, TypeOK
  <2>2. WaveType'
    <3>1. CASE client # "none"
      <4>1. wave' = Batch(Head(waveQueue), nextNonce, 0)
        BY <1>1, <3>1 DEF StartWave
      <4>2. nextNonce \in Nat /\ 0 \in 0..MaxWaveRetries
        BY LimitsAssumption DEF TypeOK
      <4> QED
        BY <2>1, <4>1, <4>2, BatchType
    <3>2. CASE client = "none"
      BY <1>1, <2>1, <3>2, LimitsAssumption DEF StartWave, NoWave, WaveType
    <3> QED
      BY <3>1, <3>2
  <2> QED
    BY <1>1, <2>1, <2>2 DEF StartWave, TypeOK
<1>2. CASE EnsureClient
  <2>1. CASE Misfortune /\ FailAttempt("timeout")
    BY <2>1, MisfortuneType, FailAttemptType
  <2>2. CASE /\ FetchNonce /\ client' = IF client = "none" THEN "alive" ELSE client
             /\ wave' = Batch(wave.blocks, nextNonce', 0)
             /\ UNCHANGED <<waveFrame, wavesDone, completedCount, faults>>
    <3>1. WaveType' /\ nextNonce' \in Nat
      BY <2>2, NonceType, BatchType, LimitsAssumption DEF TypeOK, WaveType
    <3> QED
      BY <2>2, <3>1 DEF TypeOK
  <2> QED
    BY <1>2, <2>1, <2>2 DEF EnsureClient
<1>3. ASSUME Settled PROVE StoredOnes \in Nat
  <2>1. DOMAIN wave.st \ FailedOnes \subseteq 1..Len(wave.st) /\ Len(wave.st) \in Nat
    BY DEF TypeOK, WaveType
  <2> QED
    BY <2>1, SomePositions DEF StoredOnes
<1>4. CASE WaveCompletes
  <2>1. WaveType'
    BY <1>4, NoWaveType DEF WaveCompletes
  <2>2. wave.nonce + Len(wave.blocks) \in Nat
    BY DEF TypeOK, WaveType
  <2> QED
    BY <1>3, <1>4, <2>1, <2>2 DEF WaveCompletes, TypeOK
<1>5. CASE WaveThrows
  BY <1>5, FailAttemptType DEF WaveThrows, TypeOK
<1>6. CASE RetryWave
  <2>1. FailedBlocks \in Seq(Cids)
    BY <1>6, RefailedType DEF RetryWave, Settled, TypeOK
  <2>2. wave.retry + 1 \in 0..MaxWaveRetries
    BY <1>6, LimitsAssumption DEF RetryWave, ThrowingOnes, FailedOnes, TypeOK, WaveType
  <2>3. WaveType'
    BY <1>6, <2>1, <2>2 DEF RetryWave, WaveType
  <2> QED
    BY <1>3, <1>6, <2>3 DEF RetryWave, TypeOK
<1>7. CASE RefetchNonce
  <2>1. CASE Misfortune /\ FailAttempt("timeout")
    BY <2>1, MisfortuneType, FailAttemptType
  <2>2. CASE /\ FetchNonce
             /\ wave' = Batch(wave.blocks, nextNonce', wave.retry)
             /\ UNCHANGED <<waveFrame, wavesDone, client, completedCount, faults>>
    <3>1. WaveType' /\ nextNonce' \in Nat
      BY <2>2, NonceType, BatchType DEF TypeOK, WaveType
    <3> QED
      BY <2>2, <3>1 DEF TypeOK
  <2> QED
    BY <1>7, <2>1, <2>2 DEF RefetchNonce
<1> QED
  BY <1>1, <1>2, <1>4, <1>5, <1>6, <1>7, SubmissionTypeOK DEF WaveStep

(***************************************************************************)
(* The chain.                                                              *)
(***************************************************************************)
LEMMA SubmissionOf ==
  ASSUME TypeOK, WaveShape, NEW i \in DOMAIN wave.st
  PROVE  /\ wave.phase = "batch" /\ i \in DOMAIN wave.blocks /\ i \in 1..Len(wave.blocks)
         /\ wave.blocks[i] \in Cids /\ NonceOf(i) \in Nat
<1>1. wave.phase = "batch" /\ i \in DOMAIN wave.blocks
  BY DEF WaveShape, TypeOK, WaveType
<1> QED
  BY <1>1 DEF TypeOK, WaveType, NonceOf

\* What one submission's step leaves of the wave.
LEMMA SubEffect ==
  ASSUME WaveType, NEW i \in DOMAIN wave.st, NEW out \in SubStates, SetSub(i, out)
  PROVE  /\ wave'.phase = wave.phase /\ wave'.blocks = wave.blocks /\ wave'.nonce = wave.nonce
         /\ wave'.retry = wave.retry
         /\ DOMAIN wave'.st = DOMAIN wave.st /\ wave'.st[i] = out
         /\ \A j \in DOMAIN wave.st : j # i => wave'.st[j] = wave.st[j]
<1>1. wave.st \in Seq(SubStates)
  BY DEF WaveType
<1> QED
  BY <1>1 DEF SetSub

LEMMA ElementOfSeq ==
  ASSUME NEW S, NEW s \in Seq(S), NEW i \in DOMAIN s
  PROVE  s[i] \in S
OBVIOUS

LEMMA LedgerEntries ==
  ASSUME ChainType, NEW i \in DOMAIN ledger
  PROVE  /\ i \in 1..Len(ledger) /\ Len(ledger) \in Nat
         /\ ledger[i].call \in Payloads /\ ledger[i].outcome \in {"success", "error"}
         /\ ledger[i] = [call |-> ledger[i].call, outcome |-> ledger[i].outcome]
<1>1. ledger[i] \in [call : Payloads, outcome : {"success", "error"}]
  BY ElementOfSeq DEF ChainType
<1> QED
  BY <1>1 DEF ChainType

LEMMA SubmittedChain ==
  ASSUME ChainType, NEW call \in Payloads, NEW n \in Nat, NEW out, Submit(call, n, out), ledger' = ledger
  PROVE  ChainType'
BY DEF ChainType, Submit

LEMMA PayloadTypes == ForeignBlock \in Payloads /\ \A x \in Cids : DagBlock(x) \in Payloads
BY DEF ForeignBlock, DagBlock, Payloads

LEMMA StepChainType == ASSUME ChainType, TypeOK, WaveShape, [Next]_vars PROVE ChainType'
<1>1. CASE UNCHANGED accountVars
  BY <1>1 DEF ChainType
<1>2. CASE \E i \in DOMAIN wave.st : SubmitBlock(i)
  <2>1. PICK i \in DOMAIN wave.st : SubmitBlock(i)
    BY <1>2
  <2>2. DagBlock(wave.blocks[i]) \in Payloads /\ NonceOf(i) \in Nat
    BY SubmissionOf, PayloadTypes
  <2>3. CASE UNCHANGED pool
    BY <2>1, <2>3 DEF SubmitBlock, ChainType
  <2>4. CASE \E out : Submit(DagBlock(wave.blocks[i]), NonceOf(i), out)
    BY <2>1, <2>2, <2>4, SubmittedChain DEF SubmitBlock
  <2> QED
    BY <2>1, <2>3, <2>4 DEF SubmitBlock
<1>3. CASE Executes \/ ExecuteFails
  <2>1. PICK outcome \in {"success", "error"} : Include(outcome)
    BY <1>3 DEF Executes, ExecuteFails
  <2>2. PICK t \in pool : /\ ledger' = Append(ledger, [call |-> t.call, outcome |-> outcome])
                          /\ pool' = pool \ {t}
    BY <2>1 DEF Include
  <2>3. [call |-> t.call, outcome |-> outcome] \in [call : Payloads, outcome : {"success", "error"}]
    BY DEF ChainType
  <2> QED
    BY <2>2, <2>3 DEF ChainType
<1>4. CASE Dropped
  BY <1>4 DEF Dropped, Drop, ChainType
<1>5. CASE Foreign
  <2>1. PICK n \in Len(ledger)..(Len(ledger) + Cardinality(pool)) :
           IsNextIndex(n) /\ pool' = pool \union {[nonce |-> n, call |-> ForeignBlock]}
    BY <1>5 DEF Foreign, ForeignTransaction
  <2>2. n \in Nat
    BY <2>1 DEF IsNextIndex, ChainType
  <2> QED
    BY <1>5, <2>1, <2>2, PayloadTypes DEF Foreign, ForeignTransaction, ChainType
<1>6. CASE \E n \in Nodes : Put(n)
  BY <1>1, <1>6 DEF Put
<1> QED
  BY <1>1, <1>2, <1>3, <1>4, <1>5, <1>6
     DEF Next, ImporterStep, WaveStep, Trouble, Ended, ImporterEnds, FinalFlush, Return, StartWave,
         EnsureClient, WaveCompletes, WaveThrows, RetryWave, RefetchNonce, BlockSettles, BlockGivenUp,
         BlockFails, ImportFails, vars

LEMMA StepTypeOK == ASSUME ChainType, TypeOK, [Next]_vars PROVE TypeOK'
<1>1. CASE ImporterStep \/ WaveStep
  BY <1>1, ImporterTypeOK, WaveTypeOK
<1>2. CASE Executes \/ ExecuteFails \/ Dropped \/ Foreign \/ UNCHANGED vars
  <2>1. faults' \in 0..MaxFaults
    BY <1>2, MisfortuneType DEF Executes, ExecuteFails, Dropped, Foreign, vars, TypeOK
  <2> QED
    BY <1>2, <2>1 DEF Executes, ExecuteFails, Dropped, Foreign, vars, TypeOK, WaveType
<1>3. CASE ImportFails
  <2>1. WaveType'
    <3> DEFINE st == [i \in DOMAIN wave.st |->
                   IF wave.st[i] \in {"sent", "inflight"} THEN "orphan" ELSE wave.st[i]]
    <3>1. wave.st \in Seq(SubStates)
      BY DEF TypeOK, WaveType
    <3>2. st \in Seq(SubStates)
      BY <3>1 DEF SubStates, Pending
    <3>3. /\ wave'.phase = wave.phase /\ wave'.blocks = wave.blocks /\ wave'.nonce = wave.nonce
          /\ wave'.retry = wave.retry /\ wave'.st = st
      BY <1>3 DEF ImportFails
    <3> QED
      BY <3>1, <3>2, <3>3 DEF TypeOK, WaveType
  <2>2. faults' \in 0..MaxFaults
    BY <1>3, MisfortuneType DEF ImportFails
  <2> QED
    BY <1>3, <2>1, <2>2 DEF ImportFails, TypeOK, ControlPoints
<1> QED
  BY <1>1, <1>2, <1>3, SubmissionTypeOK DEF Next, Trouble, Ended

\* What the chain holds it holds for ever.
LEMMA HeldForEver ==
  ASSUME ChainType, [Next]_vars
  PROVE  \A x : Holds(x) => Holds(x)'
<1>1. CASE ledger' = ledger
  BY <1>1 DEF Holds, Executed
<1>2. CASE \E outcome : Include(outcome)
  <2>1. PICK e : ledger' = Append(ledger, e)
    BY <1>2 DEF Include
  <2>2. \A i \in DOMAIN ledger : i \in DOMAIN ledger' /\ ledger'[i] = ledger[i]
    BY <2>1 DEF ChainType
  <2> QED
    BY <2>2 DEF Holds, Executed
<1>3. CASE \E n \in Nodes : Put(n)
  BY <1>1, <1>3 DEF Put
<1> QED
  BY <1>1, <1>2, <1>3
     DEF Next, ImporterStep, WaveStep, Trouble, Ended, ImporterEnds, FinalFlush, Return, StartWave,
         EnsureClient, WaveCompletes, WaveThrows, RetryWave, RefetchNonce, SubmitBlock, BlockSettles,
         BlockGivenUp, BlockFails, ImportFails, Executes, ExecuteFails, Dropped, Drop, Foreign,
         ForeignTransaction, vars

(***************************************************************************)
(* What waits, in which order, and what is counted.                        *)
(***************************************************************************)
Books == PutAreMarked /\ Marked /\ Ordered /\ Once /\ Counted

LEMMA InAppend ==
  ASSUME NEW T, NEW s \in Seq(T), NEW x \in T
  PROVE  /\ InSeq(Append(s, x)) = InSeq(s) \union {x}
         /\ x \notin InSeq(s) /\ Injective(s) => Injective(Append(s, x))
<1>1. /\ DOMAIN Append(s, x) = DOMAIN s \union {Len(s) + 1} /\ Append(s, x)[Len(s) + 1] = x
      /\ \A i \in DOMAIN s : Append(s, x)[i] = s[i]
      /\ Len(s) + 1 \notin DOMAIN s
  OBVIOUS
<1> DEFINE t == Append(s, x)
<1> HIDE DEF t
<1> QED
  BY <1>1 DEF t, InSeq, Injective

LEMMA InEmpty == InSeq(<<>>) = {} /\ Injective(<<>>) /\ \A S : After(<<>>, S)
BY DEF InSeq, Injective, After

LEMMA AfterMore ==
  ASSUME NEW s, NEW S, NEW T, After(s, S), S \subseteq T
  PROVE  After(s, T)
BY DEF After

LEMMA QueueAppend ==
  ASSUME NEW T, NEW q \in Seq(T), NEW s \in T
  PROVE  LET r == Append(q, s)
         IN  /\ DOMAIN r = DOMAIN q \union {Len(q) + 1} /\ Len(q) + 1 \notin DOMAIN q
             /\ r[Len(q) + 1] = s /\ \A k \in DOMAIN q : r[k] = q[k]
             /\ AllOf(r) = AllOf(q) \union InSeq(s)
             /\ \A k \in DOMAIN q : Before(r, k) = Before(q, k)
             /\ Before(r, Len(q) + 1) = AllOf(q)
<1> DEFINE r == Append(q, s)
<1>1. /\ DOMAIN r = DOMAIN q \union {Len(q) + 1} /\ r[Len(q) + 1] = s /\ Len(q) \in Nat
      /\ \A k \in DOMAIN q : r[k] = q[k]
      /\ DOMAIN q = 1..Len(q) /\ Len(q) + 1 \notin DOMAIN q
  OBVIOUS
<1> HIDE DEF r
<1>2. AllOf(r) = AllOf(q) \union InSeq(s)
  BY <1>1 DEF AllOf
<1>3. ASSUME NEW k \in DOMAIN q PROVE Before(r, k) = Before(q, k)
  <2>1. \A l \in 1..(k - 1) : l \in DOMAIN q
    BY <1>1
  <2> QED
    BY <1>1, <2>1 DEF Before
<1>4. Before(r, Len(q) + 1) = AllOf(q)
  <2>1. 1..(Len(q) + 1 - 1) = DOMAIN q
    BY <1>1
  <2> QED
    BY <1>1, <2>1 DEF Before, AllOf
<1> QED
  BY <1>1, <1>2, <1>3, <1>4 DEF r

LEMMA QueueTail ==
  ASSUME NEW T, NEW q \in Seq(T), q # <<>>
  PROVE  LET r == Tail(q)
         IN  /\ \A k \in DOMAIN r : k + 1 \in DOMAIN q /\ r[k] = q[k + 1]
             /\ 1 \in DOMAIN q /\ Head(q) = q[1] /\ Before(q, 1) = {}
             /\ AllOf(q) = AllOf(r) \union InSeq(Head(q))
             /\ \A k \in DOMAIN r : Before(q, k + 1) = Before(r, k) \union InSeq(Head(q))
<1> DEFINE r == Tail(q)
<1>1. /\ \A k \in DOMAIN r : k + 1 \in DOMAIN q /\ r[k] = q[k + 1]
      /\ Len(r) = Len(q) - 1 /\ DOMAIN r = 1..Len(r) /\ Len(q) \in Nat /\ Len(q) > 0
      /\ 1 \in DOMAIN q /\ Head(q) = q[1] /\ DOMAIN q = 1..Len(q)
  OBVIOUS
<1> HIDE DEF r
<1>2. \A k \in DOMAIN q : k # 1 => \E l \in DOMAIN r : k = l + 1
  <2> SUFFICES ASSUME NEW k \in DOMAIN q, k # 1 PROVE k - 1 \in DOMAIN r /\ k = k - 1 + 1
    OBVIOUS
  <2> QED
    BY <1>1
<1>3. AllOf(q) = AllOf(r) \union InSeq(Head(q))
  BY <1>1, <1>2 DEF AllOf
<1>4. Before(q, 1) = {}
  BY DEF Before
<1>5. ASSUME NEW k \in DOMAIN r PROVE Before(q, k + 1) = Before(r, k) \union InSeq(Head(q))
  <2>1. 1..(k + 1 - 1) = {1} \union {l + 1 : l \in 1..(k - 1)}
    <3>1. k \in Nat /\ k >= 1
      BY <1>1
    <3>2. ASSUME NEW m \in 1..k PROVE m \in {1} \union {l + 1 : l \in 1..(k - 1)}
      <4>1. m = 1 \/ (m - 1 \in 1..(k - 1) /\ m = m - 1 + 1)
        BY <3>1
      <4> QED
        BY <4>1
    <3> QED
      BY <3>1, <3>2
  <2>2. \A l \in 1..(k - 1) : l \in DOMAIN r /\ r[l] = q[l + 1]
    BY <1>1
  <2> QED
    BY <1>1, <2>1, <2>2 DEF Before
<1> QED
  BY <1>1, <1>3, <1>4, <1>5 DEF r

HeldStays == \A x : Holds(x) => Holds(x)'

LEMMA HeldGrows == ASSUME HeldStays PROVE Held \subseteq Held'
BY DEF HeldStays, Held

LEMMA FreshBooks == FreshAttempt => Books'
<1> SUFFICES ASSUME FreshAttempt PROVE Books'
  OBVIOUS
<1>1. /\ uploadedCids' = {} /\ waveBuffer' = <<>> /\ waveQueue' = <<>> /\ wave'.blocks = <<>>
      /\ completedCount' = 0 /\ \A n \in Nodes : awaited'[n] = NotPut
  BY DEF FreshAttempt, NoWave
<1>2. Waiting' = {}
  BY <1>1, InEmpty DEF Waiting, Queued, AllOf
<1>3. PutAreMarked' /\ Marked' /\ Ordered'
  BY <1>1, InEmpty DEF PutAreMarked, Marked, Ordered
<1>4. Once' /\ Counted'
  BY <1>1, <1>2, InEmpty, FS_EmptySet DEF Once, Counted
<1> QED
  BY <1>3, <1>4 DEF Books

\* A step that leaves the buffer, the chained waves and the blocks of the wave alone.
LEMMA QuietBooks ==
  ASSUME Books, HeldStays, UNCHANGED <<uploadedCids, waveBuffer, waveQueue, completedCount>>,
         wave'.blocks = wave.blocks, PutAreMarked'
  PROVE  Books'
<1>1. Waiting' = Waiting /\ Queued' = Queued
  BY DEF Waiting, Queued
<1>2. Marked' /\ Counted'
  BY <1>1 DEF Books, Marked, Counted, HeldStays
<1>3. Once'
  BY <1>1 DEF Books, Once
<1>4. Ordered'
  <2>1. Held \subseteq Held'
    BY HeldGrows
  <2>2. After(wave'.blocks, Held')
    BY <2>1, AfterMore DEF Books, Ordered
  <2>3. ASSUME NEW k \in DOMAIN waveQueue
        PROVE  After(waveQueue[k], Held' \union InSeq(wave.blocks) \union Before(waveQueue, k))
    <3> DEFINE S == Held \union InSeq(wave.blocks) \union Before(waveQueue, k)
               T == Held' \union InSeq(wave.blocks) \union Before(waveQueue, k)
    <3>1. After(waveQueue[k], S) /\ S \subseteq T
      BY <2>1 DEF Books, Ordered
    <3> HIDE DEF S, T
    <3>2. After(waveQueue[k], T)
      BY <3>1, AfterMore
    <3> QED
      BY <3>2 DEF T
  <2>4. After(waveBuffer', Held' \union InSeq(wave.blocks) \union Queued)
    BY <2>1, AfterMore DEF Books, Ordered
  <2> QED
    BY <1>1, <2>2, <2>3, <2>4 DEF Ordered
<1> QED
  BY <1>2, <1>3, <1>4 DEF Books

\* The block of a put may be linked behind everything that waits.
LEMMA LinksAreBefore ==
  ASSUME PutAreMarked, Marked, NEW n \in Nodes, \A m \in LinksOf[n] : Returned(m)
  PROVE  Linked(CidOf[n]) \subseteq Held \union Waiting
<1> SUFFICES ASSUME NEW y \in Linked(CidOf[n]) PROVE y \in Held \union Waiting
  OBVIOUS
<1>1. PICK k \in Nodes : CidOf[k] = CidOf[n] /\ y \in {CidOf[m] : m \in LinksOf[k]}
  BY DEF Linked
<1>2. {CidOf[m] : m \in LinksOf[k]} = {CidOf[m] : m \in LinksOf[n]} /\ LinksOf[n] \subseteq Nodes
  BY <1>1, TreeAssumption
<1>3. PICK m \in LinksOf[n] : y = CidOf[m]
  BY <1>1, <1>2
<1>4. m \in Nodes /\ y \in uploadedCids /\ y \in Cids
  BY <1>2, <1>3 DEF Returned, PutAreMarked, Cids
<1> QED
  BY <1>4 DEF Marked, Held

LEMMA AfterAppend ==
  ASSUME NEW T, NEW s \in Seq(T), NEW x \in T, NEW S, After(s, S), Linked(x) \subseteq S \union InSeq(s)
  PROVE  After(Append(s, x), S)
<1>1. /\ DOMAIN Append(s, x) = DOMAIN s \union {Len(s) + 1} /\ Append(s, x)[Len(s) + 1] = x
      /\ \A i \in DOMAIN s : Append(s, x)[i] = s[i]
      /\ DOMAIN s = 1..Len(s) /\ Len(s) \in Nat
  OBVIOUS
<1> DEFINE t == Append(s, x)
<1> HIDE DEF t
<1>2. ASSUME NEW i \in DOMAIN s, NEW y \in Linked(s[i]) PROVE y \in S \/ \E j \in 1..(i - 1) : t[j] = y
  <2>1. \A j \in 1..(i - 1) : j \in DOMAIN s
    BY <1>1
  <2> QED
    BY <1>1, <2>1 DEF After, t
<1>3. ASSUME NEW y \in Linked(x) PROVE y \in S \/ \E j \in 1..(Len(s) + 1 - 1) : t[j] = y
  <2>1. 1..(Len(s) + 1 - 1) = DOMAIN s
    BY <1>1
  <2> QED
    BY <1>1, <2>1 DEF InSeq, t
<1> QED
  BY <1>1, <1>2, <1>3 DEF After, t

LEMMA PutBooks ==
  ASSUME TypeOK, Books, HeldStays, NEW n \in Nodes, Put(n)
  PROVE  Books'
<1> DEFINE x == CidOf[n]
           full == Append(waveBuffer, x)
<1>1. /\ x \in Cids /\ uploadedCids' = uploadedCids \union {x}
      /\ UNCHANGED <<accountVars, wave, completedCount>>
      /\ PutMarked(n) \/ PutFlushes(n) \/ PutCollects(n)
  BY PutEffect
<1>2. PutAreMarked'
  <2>1. awaited \in [Nodes -> Nat \union {NotPut}]
    BY DEF TypeOK
  <2>2. \A m \in Nodes : m # n => awaited'[m] = awaited[m]
    BY <1>1, <2>1 DEF PutMarked, PutFlushes, PutCollects
  <2> QED
    BY <1>1, <2>2 DEF Books, PutAreMarked
<1>3. CASE PutMarked(n)
  <2>1. uploadedCids' = uploadedCids
    BY <1>1, <1>3 DEF PutMarked
  <2> QED
    BY <1>1, <1>2, <1>3, <2>1, QuietBooks DEF PutMarked
<1>4. CASE PutFlushes(n) \/ PutCollects(n)
  <2>1. x \notin uploadedCids /\ x \notin Waiting /\ waveBuffer \in Seq(Cids)
        /\ full \in Seq(Cids) /\ waveQueue \in Seq(Seq(Cids))
    BY <1>1, <1>4 DEF PutFlushes, PutCollects, Books, Once, TypeOK
  <2>2. InSeq(full) = InSeq(waveBuffer) \union {x} /\ Injective(full)
    BY <1>1, <2>1, InAppend DEF Books, Once, Waiting
  <2>3. Held' = Held
    BY <1>1 DEF Held, Holds, Executed
  <2>4. After(full, Held \union InSeq(wave.blocks) \union Queued)
    <3>1. Linked(x) \subseteq Held \union Waiting
      BY LinksAreBefore DEF Put, Books
    <3> QED
      BY <1>1, <2>1, <3>1, AfterAppend DEF Books, Ordered, Waiting
  <2> HIDE DEF full, x
  <2>5. CASE PutCollects(n)
    <3>1. waveBuffer' = full /\ waveQueue' = waveQueue /\ wave' = wave
      BY <1>1, <2>5 DEF PutCollects, full, x
    <3>2. Queued' = Queued /\ Waiting' = Waiting \union {x}
      BY <2>2, <3>1 DEF Queued, Waiting
    <3>3. Once'
      BY <1>1, <2>1, <2>2, <3>1, <3>2 DEF Books, Once, Waiting, Queued, AllOf
    <3>4. Ordered'
      BY <2>3, <2>4, <3>1, <3>2 DEF Books, Ordered
    <3>5. uploadedCids' \ Waiting' = uploadedCids \ Waiting
      BY <1>1, <2>1, <3>2
    <3>6. Counted' /\ Marked'
      BY <1>1, <3>2, <3>5, FS_AddElement DEF Books, Counted, Marked, HeldStays
    <3> QED
      BY <1>2, <3>3, <3>4, <3>6 DEF Books
  <2>6. CASE PutFlushes(n)
    <3>1. waveBuffer' = <<>> /\ waveQueue' = Append(waveQueue, full) /\ wave' = wave
      BY <1>1, <2>6 DEF PutFlushes, full, x
    <3>2. /\ DOMAIN waveQueue' = DOMAIN waveQueue \union {Len(waveQueue) + 1}
          /\ Len(waveQueue) + 1 \notin DOMAIN waveQueue
          /\ waveQueue'[Len(waveQueue) + 1] = full
          /\ \A k \in DOMAIN waveQueue : waveQueue'[k] = waveQueue[k]
          /\ AllOf(waveQueue') = Queued \union InSeq(full)
          /\ \A k \in DOMAIN waveQueue : Before(waveQueue', k) = Before(waveQueue, k)
          /\ Before(waveQueue', Len(waveQueue) + 1) = Queued
      BY <2>1, <3>1, QueueAppend DEF Queued
    <3>3. InSeq(waveBuffer') = {} /\ Injective(waveBuffer') /\ \A S : After(waveBuffer', S)
      BY <3>1, InEmpty
    <3>4. Waiting' = Waiting \union {x}
      BY <2>2, <3>1, <3>2, <3>3 DEF Queued, Waiting
    <3>5. Once'
      <4>1. ASSUME NEW k \in DOMAIN waveQueue
            PROVE  /\ Injective(waveQueue[k])
                   /\ InSeq(waveQueue[k]) \intersect InSeq(wave.blocks) = {}
                   /\ InSeq(waveQueue[k]) \intersect Before(waveQueue, k) = {}
        BY DEF Books, Once
      <4>2. InSeq(full) \intersect InSeq(wave.blocks) = {} /\ InSeq(full) \intersect Queued = {}
        BY <2>1, <2>2 DEF Books, Once, Waiting, Queued, AllOf
      <4>3. Waiting' \subseteq uploadedCids' /\ Injective(wave.blocks)
        BY <1>1, <3>4 DEF Books, Once
      <4> QED
        BY <2>2, <3>1, <3>2, <3>3, <4>1, <4>2, <4>3 DEF Once
    <3>6. Ordered'
      <4>1. After(wave.blocks, Held')
        BY <2>3 DEF Books, Ordered
      <4>2. ASSUME NEW k \in DOMAIN waveQueue
            PROVE  After(waveQueue[k], Held' \union InSeq(wave.blocks) \union Before(waveQueue, k))
        BY <2>3 DEF Books, Ordered
      <4>3. After(full, Held' \union InSeq(wave.blocks) \union Queued)
        BY <2>3, <2>4
      <4> QED
        BY <3>1, <3>2, <3>3, <4>1, <4>2, <4>3 DEF Ordered
    <3>7. uploadedCids' \ Waiting' = uploadedCids \ Waiting
      BY <1>1, <2>1, <3>4
    <3>8. Counted' /\ Marked'
      BY <1>1, <3>4, <3>7, FS_AddElement DEF Books, Counted, Marked, HeldStays
    <3> QED
      BY <1>2, <3>5, <3>6, <3>8 DEF Books
  <2> QED
    BY <1>4, <2>5, <2>6
<1> QED
  BY <1>1, <1>3, <1>4

\* What is left in the buffer becomes the last wave.
LEMMA FlushBooks ==
  ASSUME TypeOK, Books, UNCHANGED <<ledger, awaited, uploadedCids, wave, completedCount>>,
         waveBuffer' = <<>>,
         waveQueue' = IF waveBuffer = <<>> THEN waveQueue ELSE Append(waveQueue, waveBuffer)
  PROVE  Books'
<1>1. PutAreMarked' /\ Held' = Held /\ \A x : Holds(x)' <=> Holds(x)
  BY DEF Books, PutAreMarked, Held, Holds, Executed
<1>2. InSeq(waveBuffer') = {} /\ Injective(waveBuffer') /\ \A S : After(waveBuffer', S)
  BY InEmpty
<1>3. CASE waveBuffer = <<>>
  <2>1. waveBuffer' = waveBuffer /\ waveQueue' = waveQueue
    BY <1>3
  <2> QED
    BY <1>1, <2>1, QuietBooks DEF HeldStays
<1>4. CASE waveBuffer # <<>>
  <2>1. waveBuffer \in Seq(Cids) /\ waveQueue \in Seq(Seq(Cids)) /\ waveQueue' = Append(waveQueue, waveBuffer)
    BY <1>4 DEF TypeOK
  <2>2. /\ DOMAIN waveQueue' = DOMAIN waveQueue \union {Len(waveQueue) + 1}
        /\ Len(waveQueue) + 1 \notin DOMAIN waveQueue
        /\ waveQueue'[Len(waveQueue) + 1] = waveBuffer
        /\ \A k \in DOMAIN waveQueue : waveQueue'[k] = waveQueue[k]
        /\ AllOf(waveQueue') = Queued \union InSeq(waveBuffer)
        /\ \A k \in DOMAIN waveQueue : Before(waveQueue', k) = Before(waveQueue, k)
        /\ Before(waveQueue', Len(waveQueue) + 1) = Queued
    BY <2>1, QueueAppend DEF Queued
  <2>3. Waiting' = Waiting
    BY <1>2, <2>2 DEF Waiting, Queued
  <2>4. Marked' /\ Counted'
    BY <1>1, <2>3 DEF Books, Marked, Counted
  <2>5. Once'
    <3>1. ASSUME NEW k \in DOMAIN waveQueue
          PROVE  /\ Injective(waveQueue[k])
                 /\ InSeq(waveQueue[k]) \intersect InSeq(wave.blocks) = {}
                 /\ InSeq(waveQueue[k]) \intersect Before(waveQueue, k) = {}
      BY DEF Books, Once
    <3>2. /\ InSeq(waveBuffer) \intersect InSeq(wave.blocks) = {} /\ InSeq(waveBuffer) \intersect Queued = {}
          /\ Injective(waveBuffer)
      BY DEF Books, Once, Queued, AllOf
    <3>3. Waiting' \subseteq uploadedCids' /\ Injective(wave.blocks)
      BY <2>3 DEF Books, Once
    <3> QED
      BY <1>2, <2>2, <3>1, <3>2, <3>3 DEF Once
  <2>6. Ordered'
    <3>1. /\ After(wave.blocks, Held)
          /\ \A k \in DOMAIN waveQueue :
                After(waveQueue[k], Held \union InSeq(wave.blocks) \union Before(waveQueue, k))
          /\ After(waveBuffer, Held \union InSeq(wave.blocks) \union Queued)
      BY DEF Books, Ordered
    <3> QED
      BY <1>1, <1>2, <2>2, <3>1 DEF Ordered
  <2> QED
    BY <1>1, <2>4, <2>5, <2>6 DEF Books
<1> QED
  BY <1>3, <1>4

\* The first chained wave becomes the running one.
LEMMA TakeBooks ==
  ASSUME TypeOK, Books, UNCHANGED <<ledger, awaited, uploadedCids, waveBuffer, completedCount>>,
         waveQueue # <<>>, wave.blocks = <<>>, wave'.blocks = Head(waveQueue),
         waveQueue' = Tail(waveQueue)
  PROVE  Books'
<1>1. PutAreMarked' /\ Held' = Held /\ \A x : Holds(x)' <=> Holds(x)
  BY DEF Books, PutAreMarked, Held, Holds, Executed
<1>2. InSeq(wave.blocks) = {}
  BY InEmpty
<1>3. /\ \A k \in DOMAIN waveQueue' : k + 1 \in DOMAIN waveQueue /\ waveQueue'[k] = waveQueue[k + 1]
      /\ 1 \in DOMAIN waveQueue /\ Head(waveQueue) = waveQueue[1] /\ Before(waveQueue, 1) = {}
      /\ Queued = Queued' \union InSeq(wave'.blocks)
      /\ \A k \in DOMAIN waveQueue' :
            Before(waveQueue, k + 1) = Before(waveQueue', k) \union InSeq(wave'.blocks)
  BY QueueTail DEF TypeOK, Queued
<1>4. Waiting' = Waiting
  BY <1>2, <1>3 DEF Waiting
<1>5. Marked' /\ Counted'
  BY <1>1, <1>4 DEF Books, Marked, Counted
<1>6. Once'
  <2>1. /\ Waiting' \subseteq uploadedCids' /\ Injective(waveBuffer)
        /\ Injective(wave'.blocks) /\ InSeq(waveBuffer) \intersect InSeq(wave'.blocks) = {}
    BY <1>3, <1>4 DEF Books, Once
  <2>2. ASSUME NEW k \in DOMAIN waveQueue'
        PROVE  /\ Injective(waveQueue'[k])
               /\ InSeq(waveQueue'[k]) \intersect (InSeq(waveBuffer) \union InSeq(wave'.blocks)) = {}
               /\ InSeq(waveQueue'[k]) \intersect Before(waveQueue', k) = {}
    <3>1. /\ Injective(waveQueue[k + 1])
          /\ InSeq(waveQueue[k + 1]) \intersect InSeq(waveBuffer) = {}
          /\ InSeq(waveQueue[k + 1]) \intersect Before(waveQueue, k + 1) = {}
      BY <1>3 DEF Books, Once
    <3> QED
      BY <1>3, <3>1
  <2> QED
    BY <2>1, <2>2 DEF Once
<1>7. Ordered'
  <2>1. After(wave'.blocks, Held')
    <3>1. After(waveQueue[1], Held \union InSeq(wave.blocks) \union Before(waveQueue, 1))
      BY <1>3 DEF Books, Ordered
    <3>2. Held \union InSeq(wave.blocks) \union Before(waveQueue, 1) = Held'
      BY <1>1, <1>2, <1>3
    <3> QED
      BY <1>3, <3>1, <3>2
  <2>2. ASSUME NEW k \in DOMAIN waveQueue'
        PROVE  After(waveQueue'[k], Held' \union InSeq(wave'.blocks) \union Before(waveQueue', k))
    <3>1. After(waveQueue[k + 1], Held \union InSeq(wave.blocks) \union Before(waveQueue, k + 1))
      BY <1>3 DEF Books, Ordered
    <3>2. Held \union InSeq(wave.blocks) \union Before(waveQueue, k + 1)
             = Held' \union InSeq(wave'.blocks) \union Before(waveQueue', k)
      BY <1>1, <1>2, <1>3
    <3> QED
      BY <1>3, <3>1, <3>2
  <2>3. After(waveBuffer', Held' \union InSeq(wave'.blocks) \union Queued')
    <3>1. Held \union InSeq(wave.blocks) \union Queued = Held' \union InSeq(wave'.blocks) \union Queued'
      BY <1>1, <1>2, <1>3
    <3> QED
      BY <3>1 DEF Books, Ordered
  <2> QED
    BY <2>1, <2>2, <2>3 DEF Ordered
<1> QED
  BY <1>1, <1>5, <1>6, <1>7 DEF Books

(***************************************************************************)
(* A part of the wave is done: what is left keeps its order, and the rest, *)
(* which the chain holds, is counted.                                      *)
(***************************************************************************)
Shrinks(F, m, pos) ==
  /\ UNCHANGED <<ledger, awaited, uploadedCids, waveBuffer, waveQueue>>
  /\ F \subseteq DOMAIN wave.blocks /\ m \in Nat /\ pos \in [1..m -> F]
  /\ \A j \in F : \E i \in 1..m : pos[i] = j
  /\ \A i, l \in 1..m : i < l => pos[i] < pos[l]
  /\ DOMAIN wave'.blocks = 1..m /\ \A i \in 1..m : wave'.blocks[i] = wave.blocks[pos[i]]
  /\ \A j \in DOMAIN wave.blocks \ F : Holds(wave.blocks[j])
  /\ completedCount' = completedCount + Cardinality(DOMAIN wave.blocks \ F)

LEMMA ShrinkBooks ==
  ASSUME TypeOK, Books, NEW F, NEW m, NEW pos, Shrinks(F, m, pos)
  PROVE  Books'
<1> USE DEF Shrinks
<1> DEFINE rest == DOMAIN wave.blocks \ F
           gone == {wave.blocks[j] : j \in rest}
<1>1. PutAreMarked' /\ Held' = Held /\ \A x : Holds(x)' <=> Holds(x)
  BY DEF Books, PutAreMarked, Held, Holds, Executed
<1>2. Injective(wave.blocks) /\ wave.blocks \in Seq(Cids)
  BY DEF Books, Once, TypeOK, WaveType
<1>3. /\ DOMAIN wave'.blocks = 1..m
       /\ \A i \in 1..m : wave'.blocks[i] = wave.blocks[pos[i]] /\ pos[i] \in F
  OBVIOUS
<1>4. DOMAIN wave.blocks = 1..Len(wave.blocks) /\ Len(wave.blocks) \in Nat
       /\ \A j \in DOMAIN wave.blocks : wave.blocks[j] \in Cids
  BY <1>2
<1>5. \A j \in DOMAIN wave.blocks : j \in Int
  BY <1>4
<1>6. /\ Injective(wave.blocks) /\ wave.blocks \in Seq(Cids)
      /\ \A j \in DOMAIN wave.blocks : j \in Int /\ wave.blocks[j] \in Cids
      /\ DOMAIN wave'.blocks = 1..m
      /\ \A i \in 1..m : wave'.blocks[i] = wave.blocks[pos[i]] /\ pos[i] \in F
  BY <1>2, <1>3, <1>4, <1>5
<1>7. gone \subseteq Held
  BY <1>6 DEF Held
<1>8. /\ InSeq(wave.blocks) = InSeq(wave'.blocks) \union gone
      /\ InSeq(wave'.blocks) = {wave.blocks[j] : j \in F}
      /\ InSeq(wave'.blocks) \intersect gone = {}
  <2>1. InSeq(wave'.blocks) = {wave.blocks[j] : j \in F}
    <3> DEFINE b == wave.blocks
               t == wave'.blocks
    <3>1. DOMAIN t = 1..m /\ \A i \in 1..m : t[i] = b[pos[i]]
      BY <1>6
    <3> HIDE DEF b, t
    <3>2. InSeq(t) \subseteq {b[j] : j \in F}
      BY <3>1 DEF InSeq
    <3>3. ASSUME NEW j \in F PROVE b[j] \in InSeq(t)
      <4>1. PICK i \in 1..m : pos[i] = j
        OBVIOUS
      <4>2. i \in DOMAIN t /\ t[i] = b[j]
        BY <3>1, <4>1
      <4> QED
        BY <4>2 DEF InSeq
    <3> QED
      BY <3>2, <3>3 DEF b, t
  <2>2. InSeq(wave.blocks) = {wave.blocks[j] : j \in F} \union gone
    BY DEF InSeq
  <2>3. {wave.blocks[j] : j \in F} \intersect gone = {}
    BY <1>6 DEF Injective
  <2> QED
    BY <2>1, <2>2, <2>3
<1>9. Waiting = Waiting' \union gone /\ Waiting' \intersect gone = {} /\ gone \subseteq uploadedCids
  <2>1. InSeq(wave.blocks) \intersect (InSeq(waveBuffer) \union Queued) = {}
    BY DEF Books, Once, Queued, AllOf
  <2>2. InSeq(wave.blocks) \subseteq uploadedCids /\ Queued' = Queued
    BY DEF Books, Once, Waiting, Queued
  <2> QED
    BY <1>8, <2>1, <2>2 DEF Waiting
<1>10. PICK n \in Nat : DOMAIN wave.blocks = 1..n
  BY <1>4
<1>11. IsFiniteSet(gone) /\ Cardinality(gone) = Cardinality(rest) /\ Cardinality(rest) \in Nat
  <2>1. IsFiniteSet(rest) /\ Cardinality(rest) \in Nat
    BY <1>10, SomePositions
  <2> DEFINE f == [j \in rest |-> wave.blocks[j]]
  <2>2. f \in Bijection(rest, gone)
    BY <1>6 DEF Injective, Bijection, Injection, Surjection, IsInjective
  <2> QED
    BY <2>1, <2>2, FS_Bijection DEF ExistsBijection
<1> HIDE DEF gone, rest
<1>12. Counted'
  <2>1. uploadedCids' \ Waiting' = (uploadedCids \ Waiting) \union gone
    BY <1>9
  <2>2. (uploadedCids \ Waiting) \intersect gone = {}
    BY <1>9
  <2>3. /\ IsFiniteSet(uploadedCids) /\ IsFiniteSet(uploadedCids \ Waiting)
        /\ completedCount = Cardinality(uploadedCids \ Waiting) /\ completedCount \in Nat
    BY FS_Subset DEF Books, Counted, TypeOK
  <2>4. Cardinality((uploadedCids \ Waiting) \union gone)
           = Cardinality(uploadedCids \ Waiting) + Cardinality(gone)
    <3>1. Cardinality((uploadedCids \ Waiting) \intersect gone) = 0
      BY <2>2, FS_EmptySet
    <3>2. Cardinality((uploadedCids \ Waiting) \union gone)
             = Cardinality(uploadedCids \ Waiting) + Cardinality(gone)
               - Cardinality((uploadedCids \ Waiting) \intersect gone)
      BY <1>11, <2>3, FS_Union
    <3> QED
      BY <1>11, <2>3, <3>1, <3>2
  <2> QED
    BY <1>11, <2>1, <2>3, <2>4 DEF Counted, rest
<1>13. Marked'
  BY <1>1, <1>7, <1>9 DEF Books, Marked, Held
<1>14. Once'
  <2>1. Injective(wave'.blocks)
    <3> SUFFICES ASSUME NEW i \in 1..m, NEW l \in 1..m, wave'.blocks[i] = wave'.blocks[l] PROVE i = l
      BY <1>6 DEF Injective
    <3>1. pos[i] = pos[l] /\ pos[i] \in Int
      BY <1>6 DEF Injective
    <3>2. ~(i < l) /\ ~(l < i)
      BY <1>6, <3>1
    <3> QED
      BY <3>2
  <2>2. Waiting' \subseteq uploadedCids' /\ InSeq(wave'.blocks) \subseteq InSeq(wave.blocks)
    BY <1>8, <1>9 DEF Books, Once
  <2>3. /\ Injective(waveBuffer') /\ InSeq(waveBuffer') \intersect InSeq(wave'.blocks) = {}
    BY <2>2 DEF Books, Once
  <2>4. ASSUME NEW k \in DOMAIN waveQueue'
        PROVE  /\ Injective(waveQueue'[k])
               /\ InSeq(waveQueue'[k]) \intersect (InSeq(waveBuffer') \union InSeq(wave'.blocks)) = {}
               /\ InSeq(waveQueue'[k]) \intersect Before(waveQueue', k) = {}
    BY <2>2 DEF Books, Once
  <2> QED
    BY <2>1, <2>2, <2>3, <2>4 DEF Once
<1>15. Ordered'
  <2>1. After(wave'.blocks, Held')
    <3> SUFFICES ASSUME NEW i \in 1..m, NEW y \in Linked(wave.blocks[pos[i]]), y \notin Held
                 PROVE  \E l \in 1..(i - 1) : wave'.blocks[l] = y
      <4>1. \A i \in 1..m : Linked(wave'.blocks[i]) = Linked(wave.blocks[pos[i]])
        BY <1>6
      <4> QED
        BY <1>1, <1>6, <4>1 DEF After
    <3>1. pos[i] \in DOMAIN wave.blocks
      BY <1>6
    <3>2. PICK j \in 1..(pos[i] - 1) : wave.blocks[j] = y
      BY <3>1 DEF Books, Ordered, After
    <3>3. j \in DOMAIN wave.blocks /\ j < pos[i]
      BY <1>10, <3>1
    <3>4. j \in F
      BY <1>7, <3>2, <3>3 DEF gone, rest
    <3>5. PICK l \in 1..m : pos[l] = j
      BY <3>4
    <3>6. l < i
      <4>1. ~(i = l)
        BY <1>6, <3>1, <3>3, <3>5
      <4>2. ~(i < l)
        BY <1>6, <3>1, <3>3, <3>5
      <4> QED
        BY <4>1, <4>2
    <3>7. wave'.blocks[l] = y /\ l \in 1..(i - 1)
      BY <1>6, <3>2, <3>5, <3>6
    <3> QED
      BY <3>7
  <2>2. Held \union InSeq(wave.blocks) = Held' \union InSeq(wave'.blocks)
    BY <1>1, <1>7, <1>8
  <2>3. \A k \in DOMAIN waveQueue' :
           After(waveQueue'[k], Held' \union InSeq(wave'.blocks) \union Before(waveQueue', k))
    BY <2>2 DEF Books, Ordered
  <2>4. After(waveBuffer', Held' \union InSeq(wave'.blocks) \union Queued')
    BY <2>2 DEF Books, Ordered, Queued
  <2> QED
    BY <2>1, <2>3, <2>4 DEF Ordered
<1> QED
  BY <1>1, <1>12, <1>13, <1>14, <1>15 DEF Books

(***************************************************************************)
(* One step of each actor.                                                 *)
(***************************************************************************)
Core == ChainType /\ TypeOK /\ WaveShape /\ OkAreStored /\ Books /\ Phased
Rest == WaveShape /\ OkAreStored /\ Books /\ Phased

LEMMA FailAttemptKeeps ==
  ASSUME NEW error, FailAttempt(error), pc # "done"
  PROVE  Rest'
<1>1. /\ FreshAttempt /\ wave' = NoWave /\ wavesDone' = 0 /\ waveQueue' = <<>>
      /\ pc' \notin {"finalNonce", "finalWave", "done"}
  BY DEF FailAttempt, FreshAttempt, Running
<1>2. WaveShape' /\ OkAreStored'
  BY <1>1 DEF WaveShape, OkAreStored, NoWave
<1>3. Phased'
  BY <1>1 DEF Phased, Chained, NoWave
<1> QED
  BY <1>1, <1>2, <1>3, FreshBooks DEF Rest

LEMMA SameOkAreStored ==
  ASSUME OkAreStored, HeldStays, wave' = wave
  PROVE  OkAreStored'
BY DEF OkAreStored, HeldStays

LEMMA PutKeeps ==
  ASSUME Core, HeldStays, NEW n \in Nodes, Put(n)
  PROVE  Rest'
<1>1. /\ pc' = pc /\ pc = "importing" /\ wave' = wave /\ wavesDone' = wavesDone
      /\ PutMarked(n) \/ PutFlushes(n) \/ PutCollects(n)
  BY PutEffect DEF Core
<1>2. WaveShape' /\ OkAreStored'
  BY <1>1, SameOkAreStored DEF Core, WaveShape
<1>3. Books'
  BY PutBooks DEF Core
<1>4. Phased'
  <2>1. awaited \in [Nodes -> Nat \union {NotPut}] /\ awaited[n] = NotPut /\ Chained \in Nat
    BY DEF Put, Core, TypeOK, Chained
  <2>2. CASE PutFlushes(n)
    <3>1. Len(waveQueue') = Len(waveQueue) + 1
      BY <2>2 DEF PutFlushes, Core, TypeOK
    <3>2. Chained' = Chained + 1
      BY <1>1, <3>1 DEF Chained, Core, TypeOK
    <3>3. awaited'[n] = Chained'
      BY <2>1, <2>2, <3>2 DEF PutFlushes
    <3> QED
      BY <1>1, <3>3 DEF Phased
  <2>3. CASE PutMarked(n) \/ PutCollects(n)
    <3>1. Chained' = Chained
      BY <1>1, <2>3 DEF Chained, PutMarked, PutCollects
    <3>2. \A m \in Nodes : m # n => awaited'[m] = awaited[m]
      BY <2>1, <2>3 DEF PutMarked, PutCollects
    <3>3. Chained = 0 \/ \E m \in Nodes : awaited[m] = Chained /\ m # n
      BY <1>1, <2>1 DEF Core, Phased, NotPut
    <3> QED
      BY <1>1, <3>1, <3>2, <3>3 DEF Phased
  <2> QED
    BY <1>1, <2>2, <2>3
<1> QED
  BY <1>2, <1>3, <1>4 DEF Rest

LEMMA ImporterKeeps ==
  ASSUME Core, HeldStays, ImporterStep
  PROVE  Rest'
<1>1. CASE ImporterEnds \/ Return
  <2>1. UNCHANGED <<ledger, awaited, uploadedCids, waveBuffer, waveQueue, wavesDone, wave, completedCount>>
    BY <1>1 DEF ImporterEnds, Return
  <2>2. WaveShape' /\ OkAreStored'
    BY <2>1, SameOkAreStored DEF Core, WaveShape
  <2>3. Books'
    BY <2>1, QuietBooks DEF Core, Books, PutAreMarked
  <2>4. Phased'
    <3>1. CASE ImporterEnds
      <4>1. AllPut
        BY <3>1 DEF ImporterEnds, AllReturned, Returned, AllPut
      <4>2. Chained = 0 \/ wavesDone >= Chained
        BY <3>1 DEF ImporterEnds, AllReturned, Returned, Core, Phased
      <4>3. wavesDone \in Nat /\ Len(waveQueue) \in Nat /\ waveQueue \in Seq(Seq(Cids))
        BY DEF Core, TypeOK
      <4>4. Quiet
        BY <4>2, <4>3 DEF Chained, Quiet
      <4> QED
        BY <2>1, <3>1, <4>1, <4>4 DEF ImporterEnds, Phased, AllPut, Quiet
    <3>2. CASE Return
      <4>1. pc = "finalWave" /\ pc' = "done" /\ Quiet /\ AllPut /\ waveBuffer = <<>>
        BY <3>2 DEF Return, Quiet, Core, Phased
      <4> QED
        BY <2>1, <4>1 DEF Phased, AllPut, Quiet
    <3> QED
      BY <1>1, <3>1, <3>2
  <2> QED
    BY <2>2, <2>3, <2>4 DEF Rest
<1>2. CASE FinalFlush
  <2>1. CASE Misfortune /\ FailAttempt("timeout")
    BY <1>2, <2>1, FailAttemptKeeps DEF FinalFlush
  <2>2. CASE /\ FetchNonce /\ client' = "alive"
             /\ waveQueue' = IF waveBuffer = <<>> THEN waveQueue ELSE Append(waveQueue, waveBuffer)
             /\ waveBuffer' = <<>> /\ pc' = "finalWave"
             /\ UNCHANGED <<attempt, awaited, uploadedCids, wavesDone, wave, completedCount, faults>>
    <3>1. ledger' = ledger /\ pc = "finalNonce"
      BY <1>2 DEF FinalFlush
    <3>2. Books'
      BY <2>2, <3>1, FlushBooks DEF Core
    <3>3. WaveShape' /\ OkAreStored'
      BY <2>2, SameOkAreStored DEF Core, WaveShape
    <3>4. Phased'
      BY <2>2, <3>1 DEF Core, Phased, AllPut
    <3> QED
      BY <3>2, <3>3, <3>4 DEF Rest
  <2> QED
    BY <1>2, <2>1, <2>2 DEF FinalFlush
<1> QED
  BY <1>1, <1>2, PutKeeps DEF ImporterStep

LEMMA SubmissionKeeps ==
  ASSUME Core, HeldStays, NEW i \in DOMAIN wave.st,
         SubmitBlock(i) \/ BlockSettles(i) \/ BlockGivenUp(i) \/ BlockFails(i)
  PROVE  Rest'
<1>1. PICK out \in SubStates : /\ SetSub(i, out)
                               /\ out = "ok" => Holds(wave.blocks[i])
  <2>1. CASE SubmitBlock(i)
    <3>1. \A call, n : ~Submit(call, n, "ok")
      BY DEF Submit
    <3> QED
      BY <2>1, <3>1 DEF SubmitBlock
  <2>2. CASE BlockSettles(i)
    <3> DEFINE n == NonceOf(i)
               out == WatchedOutcome(wave.blocks[i], n)
    <3>1. out \in {"ok", "stale", "fatal"} /\ SetSub(i, out)
      BY <2>2 DEF BlockSettles, WatchedOutcome
    <3>2. ASSUME out = "ok" PROVE Holds(wave.blocks[i])
      <4>1. n \in Nat /\ n < Len(ledger) /\ Len(ledger) \in Nat /\ DOMAIN ledger = 1..Len(ledger)
        BY <2>2, SubmissionOf DEF BlockSettles, Spent, Core, ChainType
      <4>2. n + 1 \in DOMAIN ledger
        BY <4>1
      <4>3. ledger[n + 1].call = DagBlock(wave.blocks[i]) /\ ledger[n + 1].outcome = "success"
        BY <3>2 DEF WatchedOutcome, Found, Succeeded
      <4>4. ledger[n + 1] = [call |-> ledger[n + 1].call, outcome |-> ledger[n + 1].outcome]
        BY <4>2, LedgerEntries DEF Core
      <4> QED
        BY <4>2, <4>3, <4>4 DEF Holds, Executed
    <3> QED
      BY <3>1, <3>2 DEF SubStates, Errors, Retryable
  <2>3. CASE BlockGivenUp(i) \/ BlockFails(i)
    BY <2>3 DEF BlockGivenUp, BlockFails, SubStates, Errors, Retryable
  <2> QED
    BY <2>1, <2>2, <2>3
<1>2. UNCHANGED submissionFrame
  BY DEF SubmitBlock, BlockSettles, BlockGivenUp, BlockFails
<1>3. /\ wave'.phase = wave.phase /\ wave'.blocks = wave.blocks
      /\ DOMAIN wave'.st = DOMAIN wave.st /\ wave'.st[i] = out
      /\ \A j \in DOMAIN wave.st : j # i => wave'.st[j] = wave.st[j]
  BY <1>1, SubEffect DEF Core, TypeOK
<1>4. wave.phase = "batch"
  BY SubmissionOf DEF Core
<1>5. WaveShape'
  BY <1>3, <1>4 DEF WaveShape
<1>6. OkAreStored'
  BY <1>1, <1>3 DEF Core, OkAreStored, HeldStays
<1>7. Books'
  BY <1>2, <1>3, QuietBooks DEF Core, Books, PutAreMarked
<1>8. Phased'
  BY <1>2, <1>3, <1>4 DEF Core, Phased, AllPut, Quiet, Chained
<1> QED
  BY <1>5, <1>6, <1>7, <1>8 DEF Rest

\* Every block of a settled wave that did not fail is held.
LEMMA SettledAreHeld ==
  ASSUME Core, Settled
  PROVE  /\ DOMAIN wave.st = DOMAIN wave.blocks
         /\ \A j \in DOMAIN wave.blocks \ FailedOnes : Holds(wave.blocks[j])
<1>1. wave.phase = "batch" /\ DOMAIN wave.st = DOMAIN wave.blocks /\ wave.st \in Seq(SubStates)
  BY DEF Settled, Core, TypeOK, WaveType
<1>2. ASSUME NEW j \in DOMAIN wave.st, j \notin FailedOnes PROVE wave.st[j] = "ok"
  <2>1. wave.st[j] \in SubStates /\ wave.st[j] \notin Pending /\ wave.st[j] \notin Errors
    BY <1>1, <1>2, ElementOfSeq DEF Settled, FailedOnes
  <2> QED
    BY <2>1 DEF SubStates
<1> QED
  BY <1>1, <1>2 DEF Core, OkAreStored

LEMMA WaveCompletesKeeps ==
  ASSUME Core, HeldStays, WaveCompletes
  PROVE  Rest'
<1>1. /\ Settled /\ FailedOnes = {} /\ wave' = NoWave /\ wavesDone' = wavesDone + 1
      /\ completedCount' = completedCount + StoredOnes
      /\ UNCHANGED <<ledger, pc, awaited, uploadedCids, waveBuffer, waveQueue>>
  BY DEF WaveCompletes
<1>2. WaveShape' /\ OkAreStored'
  BY <1>1 DEF WaveShape, OkAreStored, NoWave
<1>3. wave.phase = "batch"
  BY <1>1 DEF Settled
<1>4. Phased'
  <2>1. Chained' = Chained
    BY <1>1, <1>3 DEF Chained, NoWave, Core, TypeOK
  <2> QED
    BY <1>1, <1>3, <2>1 DEF Core, Phased, AllPut, Quiet
<1>5. Books'
  <2> DEFINE pos == [i \in 1..0 |-> i]
  <2>1. /\ 0 \in Nat /\ {} \subseteq DOMAIN wave.blocks /\ pos \in [1..0 -> {}]
        /\ \A i, l \in 1..0 : i < l => pos[i] < pos[l]
    OBVIOUS
  <2>2. DOMAIN wave'.blocks = 1..0 /\ \A i \in 1..0 : wave'.blocks[i] = wave.blocks[pos[i]]
    BY <1>1 DEF NoWave
  <2>3. /\ \A j \in DOMAIN wave.blocks \ {} : Holds(wave.blocks[j])
        /\ completedCount' = completedCount + Cardinality(DOMAIN wave.blocks \ {})
    BY <1>1, SettledAreHeld DEF StoredOnes
  <2> HIDE DEF pos
  <2>4. Shrinks({}, 0, pos)
    BY <1>1, <2>1, <2>2, <2>3 DEF Shrinks
  <2> QED
    BY <2>4, ShrinkBooks DEF Core
<1> QED
  BY <1>2, <1>4, <1>5 DEF Rest

LEMMA RetryWaveKeeps ==
  ASSUME Core, HeldStays, RetryWave
  PROVE  Rest'
<1>1. /\ Settled /\ wave'.phase = "refetch" /\ wave'.blocks = FailedBlocks /\ wave'.st = <<>>
      /\ completedCount' = completedCount + StoredOnes
      /\ UNCHANGED <<ledger, pc, awaited, uploadedCids, waveBuffer, waveQueue, wavesDone>>
  BY DEF RetryWave
<1>2. WaveShape' /\ OkAreStored'
  BY <1>1 DEF WaveShape, OkAreStored
<1>3. wave.phase = "batch"
  BY <1>1 DEF Settled
<1>4. Phased'
  BY <1>1, <1>3 DEF Core, Phased, AllPut, Quiet, Chained
<1>5. Books'
  <2>1. PICK F, m : F = FailedOnes /\ m = Cardinality(FailedOnes)
    OBVIOUS
  <2>2. PICK pos \in [1..m -> F] :
            /\ m \in Nat
            /\ FailedBlocks = [i \in 1..m |-> wave.blocks[pos[i]]]
            /\ \A j \in F : \E i \in DOMAIN pos : pos[i] = j
            /\ \A i, l \in DOMAIN pos : i < l => pos[i] < pos[l]
    BY <2>1, FailedInOrder DEF Core, TypeOK
  <2>3. /\ F \subseteq DOMAIN wave.blocks
        /\ \A j \in DOMAIN wave.blocks \ F : Holds(wave.blocks[j])
        /\ completedCount' = completedCount + Cardinality(DOMAIN wave.blocks \ F)
    BY <1>1, <2>1, SettledAreHeld DEF FailedOnes, StoredOnes
  <2>4. /\ \A j \in F : \E i \in 1..m : pos[i] = j
        /\ \A i, l \in 1..m : i < l => pos[i] < pos[l]
        /\ DOMAIN wave'.blocks = 1..m /\ \A i \in 1..m : wave'.blocks[i] = wave.blocks[pos[i]]
    BY <1>1, <2>2
  <2>5. TypeOK /\ Books /\ UNCHANGED <<ledger, awaited, uploadedCids, waveBuffer, waveQueue>>
    BY <1>1 DEF Core
  <2>6. Shrinks(F, m, pos)
    BY <2>2, <2>3, <2>4, <2>5 DEF Shrinks
  <2> QED
    BY <2>5, <2>6, ShrinkBooks
<1> QED
  BY <1>2, <1>4, <1>5 DEF Rest

\* The blocks of a wave, as they are, go out under a nonce.
LEMMA BatchKeeps ==
  ASSUME Core, HeldStays, NEW n, NEW retry, wave' = Batch(wave.blocks, n, retry),
         wave.phase # "idle",
         UNCHANGED <<pc, awaited, uploadedCids, waveBuffer, waveQueue, wavesDone, completedCount>>
  PROVE  Rest'
<1>1. /\ wave'.phase = "batch" /\ wave'.blocks = wave.blocks
      /\ \A i \in DOMAIN wave'.st : wave'.st[i] = "sent"
  BY DEF Batch
<1>2. WaveShape' /\ OkAreStored'
  BY <1>1 DEF WaveShape, OkAreStored
<1>3. Books'
  BY <1>1, QuietBooks DEF Core, Books, PutAreMarked
<1>4. Phased'
  BY <1>1 DEF Core, Phased, AllPut, Quiet, Chained
<1> QED
  BY <1>2, <1>3, <1>4 DEF Rest

LEMMA StartWaveKeeps ==
  ASSUME Core, HeldStays, StartWave
  PROVE  Rest'
<1>1. /\ wave.phase = "idle" /\ waveQueue # <<>> /\ waveQueue' = Tail(waveQueue) /\ wave = NoWave
      /\ UNCHANGED <<ledger, pc, awaited, uploadedCids, waveBuffer, wavesDone, completedCount>>
  BY DEF StartWave, Core, WaveShape
<1>2. /\ wave'.phase \in {"batch", "client"} /\ wave'.blocks = Head(waveQueue)
      /\ wave'.phase = "client" => wave'.st = <<>>
      /\ \A i \in DOMAIN wave'.st : wave'.st[i] # "ok"
  BY DEF StartWave, Batch, NoWave
<1>3. WaveShape' /\ OkAreStored'
  BY <1>2 DEF WaveShape, OkAreStored
<1>4. Books'
  BY <1>1, <1>2, TakeBooks DEF Core, NoWave
<1>5. Phased'
  <2>1. Len(waveQueue') = Len(waveQueue) - 1 /\ Len(waveQueue) \in Nat
    BY <1>1 DEF Core, TypeOK
  <2>2. Chained' = Chained
    <3>1. wave.phase = "idle" /\ wave'.phase # "idle" /\ wavesDone \in Nat /\ wavesDone' = wavesDone
      BY <1>1, <1>2 DEF Core, TypeOK
    <3>2. Chained = wavesDone + Len(waveQueue) + 0 /\ Chained' = wavesDone + Len(waveQueue') + 1
      BY <3>1 DEF Chained
    <3> QED
      BY <2>1, <3>1, <3>2
  <2> QED
    BY <1>1, <2>2 DEF Core, Phased, AllPut, Quiet
<1> QED
  BY <1>3, <1>4, <1>5 DEF Rest

LEMMA WaveKeeps ==
  ASSUME Core, HeldStays, WaveStep
  PROVE  Rest'
<1>1. pc = "done" => wave.phase = "idle"
  BY DEF Core, Phased, Quiet
<1>2. CASE EnsureClient \/ RefetchNonce
  <2>1. CASE \E error : FailAttempt(error)
    BY <1>1, <1>2, <2>1, FailAttemptKeeps DEF EnsureClient, RefetchNonce
  <2>2. CASE /\ \E n, retry : wave' = Batch(wave.blocks, n, retry)
             /\ UNCHANGED <<pc, awaited, uploadedCids, waveBuffer, waveQueue, wavesDone, completedCount>>
    BY <1>2, <2>2, BatchKeeps DEF EnsureClient, RefetchNonce
  <2> QED
    BY <1>2, <2>1, <2>2 DEF EnsureClient, RefetchNonce
<1>3. CASE WaveThrows
  BY <1>1, <1>3, FailAttemptKeeps DEF WaveThrows, Settled
<1> QED
  BY <1>2, <1>3, StartWaveKeeps, WaveCompletesKeeps, RetryWaveKeeps, SubmissionKeeps DEF WaveStep

LEMMA StepCore == ASSUME Core, [Next]_vars PROVE Core'
<1>1. ChainType' /\ TypeOK' /\ HeldStays
  BY StepChainType, StepTypeOK, HeldForEver DEF Core, HeldStays
<1>2. ASSUME Executes \/ ExecuteFails \/ Dropped \/ Foreign \/ UNCHANGED vars PROVE Rest'
  <2>1. UNCHANGED nodeFrame
    BY <1>2 DEF Executes, ExecuteFails, Dropped, Foreign, vars
  <2>2. WaveShape' /\ OkAreStored'
    BY <1>1, <2>1, SameOkAreStored DEF Core, WaveShape
  <2>3. Books' /\ Phased'
    BY <1>1, <2>1, QuietBooks DEF Core, Books, PutAreMarked, Phased, AllPut, Quiet, Chained
  <2> QED
    BY <2>2, <2>3 DEF Rest
<1>3. ASSUME ImportFails PROVE Rest'
  <2>1. /\ wave'.phase = wave.phase /\ wave'.blocks = wave.blocks /\ DOMAIN wave'.st = DOMAIN wave.st
        /\ \A i \in DOMAIN wave.st : wave'.st[i] = "ok" => wave.st[i] = "ok"
        /\ wave.st = <<>> => wave'.st = <<>>
        /\ UNCHANGED <<ledger, awaited, uploadedCids, waveBuffer, waveQueue, wavesDone, completedCount>>
        /\ pc' = "refused"
    BY <1>3 DEF ImportFails
  <2>2. wave = NoWave => wave' = NoWave
    BY <1>3 DEF ImportFails, NoWave
  <2>3. WaveShape' /\ OkAreStored'
    BY <1>1, <2>1, <2>2 DEF Core, WaveShape, OkAreStored, HeldStays
  <2>4. Books' /\ Phased'
    BY <1>1, <2>1, QuietBooks DEF Core, Books, PutAreMarked, Phased
  <2> QED
    BY <2>3, <2>4 DEF Rest
<1>4. Rest'
  BY <1>1, <1>2, <1>3, ImporterKeeps, WaveKeeps, SubmissionKeeps DEF Next, Trouble, Ended
<1> QED
  BY <1>1, <1>4 DEF Core, Rest

LEMMA InitCore == Init => Core
<1> SUFFICES ASSUME Init PROVE Core
  OBVIOUS
<1>1. ChainType /\ TypeOK
  BY LimitsAssumption, BoundAssumption, TreeAssumption
     DEF Init, ChainType, TypeOK, WaveType, NoWave, ControlPoints, NotPut
<1>2. WaveShape /\ OkAreStored /\ Phased
  BY DEF Init, WaveShape, OkAreStored, NoWave, Phased, Chained
<1>3. Waiting = {}
  BY InEmpty DEF Init, NoWave, Waiting, Queued, AllOf
<1>4. PutAreMarked /\ Marked /\ Ordered
  BY InEmpty DEF Init, NoWave, PutAreMarked, Marked, Ordered
<1>5. Once /\ Counted
  BY <1>3, InEmpty, FS_EmptySet DEF Init, NoWave, Once, Counted
<1> QED
  BY <1>1, <1>2, <1>4, <1>5 DEF Core, Books

(***************************************************************************)
(* What holds whatever fails.                                              *)
(***************************************************************************)
\* The books of the upload (what is marked, what waits and in which order, what is
\* counted) agree with the chain in every reachable state.
THEOREM BooksAreKept == Spec => []Core
<1>1. Core /\ [Next]_vars => Core'
  BY StepCore
<1> QED
  BY <1>1, InitCore, PTL DEF Spec

\* Type correctness of merkleizeAndUploadDirectory: in particular no wave is retried more
\* often than MAX_DIRECTORY_WAVE_RETRIES allows, and the buffer never holds a whole wave.
THEOREM TypeCorrect == Spec => []TypeOK
<1>1. Core => TypeOK
  BY DEF Core
<1> QED
  BY <1>1, BooksAreKept, PTL

\* A CID the blockstore counts as uploaded is held by the chain or still waits to be sent:
\* no retry of a part of a wave drops a block.
THEOREM NothingMarkedIsForgotten == Spec => []MarkedNotForgotten
<1>1. Core => MarkedNotForgotten
  BY DEF Core, Books, Marked, Waiting, Queued, AllOf, MarkedNotForgotten
<1> QED
  BY <1>1, BooksAreKept, PTL

\* What a block links is on the chain before the block is sent, or goes out before it in
\* the same wave, also when waves are retried, and for a block that occurs twice.
THEOREM LinksFirst == Spec => []LinksTravelFirst
<1>1. ASSUME Core PROVE LinksTravelFirst
  <2> SUFFICES ASSUME NEW i \in DOMAIN wave.st, NEW n \in Nodes, wave.blocks[i] = CidOf[n],
                      NEW m \in LinksOf[n]
               PROVE  Holds(CidOf[m]) \/ \E j \in 1..(i - 1) : wave.blocks[j] = CidOf[m]
    BY DEF LinksTravelFirst
  <2>1. CidOf[m] \in Linked(wave.blocks[i])
    BY TreeAssumption DEF Linked
  <2>2. i \in DOMAIN wave.blocks /\ After(wave.blocks, Held)
    BY <1>1, SubmissionOf DEF Core, Books, Ordered
  <2> QED
    BY <2>1, <2>2 DEF After, Held
<1> QED
  BY <1>1, BooksAreKept, PTL

(***************************************************************************)
(* Without a misfortune the nonces never fall out of step.                 *)
(***************************************************************************)
LEMMA DagBlocksDiffer == \A x, y : DagBlock(x) = DagBlock(y) => x = y
<1> SUFFICES ASSUME NEW x, NEW y, DagBlock(x) = DagBlock(y) PROVE x = y
  OBVIOUS
<1>1. DagBlock(x).links = {x} /\ DagBlock(y).links = {y}
  BY DEF DagBlock
<1> QED
  BY <1>1

LEMMA NoneFailed ==
  ASSUME WaveShape, Smooth
  PROVE  FailedOnes = {} /\ ThrowingOnes = {}
<1>1. ASSUME NEW i \in DOMAIN wave.st PROVE wave.st[i] \in {"sent", "inflight", "ok"}
  BY <1>1 DEF WaveShape, Smooth, InStep
<1>2. FailedOnes = {}
  BY <1>1 DEF FailedOnes, Errors, Retryable
<1> QED
  BY <1>2 DEF ThrowingOnes

\* With an empty pool the next index is the account's nonce.
LEMMA NonceIsNext ==
  ASSUME ChainType, pool = {}, FetchNonce
  PROVE  nextNonce' = Len(ledger)
<1>1. Cardinality(pool) = 0 /\ Len(ledger) \in Nat
  BY FS_EmptySet DEF ChainType
<1> QED
  BY <1>1 DEF FetchNonce

LEMMA SameSmooth ==
  ASSUME Smooth,
         UNCHANGED <<ledger, pool, uploadedCids, waveBuffer, waveQueue, wave, client, nextNonce>>
  PROVE  Smooth'
<1>1. InStep => InStep'
  BY DEF InStep, Txn, NonceOf, Spent, Found
<1>2. UNCHANGED <<Queued, InSeq(wave.blocks), InSeq(waveBuffer)>>
  BY DEF Queued
<1> QED
  BY <1>1, <1>2 DEF Smooth, OfUploaded, NotSent

\* What was never marked was never sent.
LEMMA UnmarkedAreNew ==
  ASSUME OfUploaded, NEW x, x \notin uploadedCids, NEW i \in DOMAIN ledger
  PROVE  ledger[i].call # DagBlock(x)
BY DagBlocksDiffer DEF OfUploaded

LEMMA PutSmooth ==
  ASSUME Core, Smooth, NEW n \in Nodes, Put(n)
  PROVE  Smooth'
<1> DEFINE B == InSeq(waveBuffer) \union Queued
<1>1. /\ UNCHANGED <<ledger, pool, wave, client, nextNonce>>
      /\ uploadedCids' = uploadedCids \union {CidOf[n]} /\ CidOf[n] \in Cids
      /\ PutMarked(n) \/ PutFlushes(n) \/ PutCollects(n)
  BY PutEffect DEF Core
<1>2. /\ InSeq(Append(waveBuffer, CidOf[n])) = InSeq(waveBuffer) \union {CidOf[n]}
      /\ Append(waveBuffer, CidOf[n]) \in Seq(Cids)
  BY <1>1, InAppend DEF Core, TypeOK
<1>3. B' = B \/ (B' = B \union {CidOf[n]} /\ CidOf[n] \notin uploadedCids)
  <2>1. CASE PutMarked(n)
    BY <2>1 DEF PutMarked, Queued
  <2>2. CASE PutCollects(n)
    BY <1>2, <2>2 DEF PutCollects, Queued
  <2>3. CASE PutFlushes(n)
    <3>1. AllOf(Append(waveQueue, Append(waveBuffer, CidOf[n])))
             = AllOf(waveQueue) \union InSeq(Append(waveBuffer, CidOf[n]))
      <4> DEFINE full == Append(waveBuffer, CidOf[n])
      <4>1. full \in Seq(Cids) /\ waveQueue \in Seq(Seq(Cids))
        BY <1>2 DEF Core, TypeOK
      <4> HIDE DEF full
      <4>2. AllOf(Append(waveQueue, full)) = AllOf(waveQueue) \union InSeq(full)
        BY <4>1, QueueAppend
      <4> QED
        BY <4>2 DEF full
    <3>2. Queued' = Queued \union InSeq(waveBuffer) \union {CidOf[n]}
      BY <1>2, <2>3, <3>1 DEF PutFlushes, Queued
    <3>3. InSeq(waveBuffer') = {}
      BY <2>3, InEmpty DEF PutFlushes
    <3> QED
      BY <2>3, <3>2, <3>3 DEF PutFlushes
  <2> QED
    BY <1>1, <2>1, <2>2, <2>3
<1>4. NotSent(B, Len(ledger)) /\ OfUploaded
  BY DEF Smooth
<1> HIDE DEF B
<1>5. NotSent(B', Len(ledger)) /\ OfUploaded'
  <2>1. \A i \in DOMAIN ledger : CidOf[n] \notin uploadedCids => ledger[i].call # DagBlock(CidOf[n])
    BY <1>4, UnmarkedAreNew
  <2>2. NotSent(B', Len(ledger))
    BY <1>3, <1>4, <2>1 DEF NotSent
  <2>3. OfUploaded'
    BY <1>1, <1>4 DEF OfUploaded
  <2> QED
    BY <2>2, <2>3
<1>6. InStep => InStep'
  BY <1>1 DEF InStep, Txn, NonceOf, Spent, Found
<1>7. NotSent(B, Len(ledger))' /\ UNCHANGED InSeq(wave.blocks)
  BY <1>1, <1>5 DEF NotSent
<1> QED
  BY <1>1, <1>5, <1>6, <1>7 DEF Smooth, NotSent, B

LEMMA FinalFlushSmooth ==
  ASSUME Core, Smooth, FinalFlush, UNCHANGED faults, faults \in Nat
  PROVE  Smooth'
<1> DEFINE B == InSeq(waveBuffer) \union Queued
<1>1. /\ UNCHANGED <<ledger, pool, uploadedCids, wave>> /\ client' = "alive" /\ FetchNonce
      /\ waveQueue' = IF waveBuffer = <<>> THEN waveQueue ELSE Append(waveQueue, waveBuffer)
      /\ waveBuffer' = <<>> /\ pc = "finalNonce"
  BY DEF FinalFlush, Misfortune
<1>2. wave = NoWave /\ pool = {} /\ wave.phase = "idle"
  BY <1>1 DEF Core, Phased, Quiet, WaveShape, Smooth
<1>3. nextNonce' = Len(ledger)
  BY <1>1, <1>2, NonceIsNext DEF Core
<1>4. B' = B
  <2>1. InSeq(waveBuffer') = {}
    BY <1>1, InEmpty
  <2>2. AllOf(Append(waveQueue, waveBuffer)) = AllOf(waveQueue) \union InSeq(waveBuffer)
    BY QueueAppend DEF Core, TypeOK
  <2>3. waveBuffer = <<>> => InSeq(waveBuffer) = {}
    BY InEmpty
  <2> QED
    BY <1>1, <2>1, <2>2, <2>3 DEF Queued
<1>5. UNCHANGED InSeq(wave.blocks)
  BY <1>1
<1> QED
  BY <1>1, <1>2, <1>3, <1>4, <1>5 DEF Smooth, OfUploaded, NotSent

(***************************************************************************)
(* The running wave.                                                       *)
(***************************************************************************)
\* A batch begins with the nonce the chain expects and the blocks nobody sent.
LEMMA BatchSmooth ==
  ASSUME Core, Smooth, wave.phase # "batch", UNCHANGED <<ledger, pool, uploadedCids, waveBuffer>>,
         NEW blocks \in Seq(Cids), NEW n, n = Len(ledger), NEW retry, wave' = Batch(blocks, n, retry),
         InSeq(blocks) \subseteq InSeq(wave.blocks) \union Queued, Queued' \subseteq Queued,
         client' # "destroyed"
  PROVE  Smooth'
<1>1. pool = {} /\ Len(ledger) \in Nat /\ Len(blocks) \in Nat /\ DOMAIN blocks = 1..Len(blocks)
  BY DEF Core, ChainType, Smooth
<1>2. /\ wave'.phase = "batch" /\ wave'.blocks = blocks /\ wave'.nonce = Len(ledger)
      /\ DOMAIN wave'.st = DOMAIN blocks /\ \A i \in DOMAIN blocks : wave'.st[i] = "sent"
  BY DEF Batch
<1>3. InStep'
  <2>1. \A i \in DOMAIN wave'.st : ~Spent(NonceOf(i))'
    BY <1>1, <1>2 DEF Spent, NonceOf
  <2> QED
    BY <1>1, <1>2, <2>1 DEF InStep
<1>4. NotSent(InSeq(wave.blocks) \union InSeq(waveBuffer) \union Queued, Len(ledger))
  BY DEF Smooth, NotSent
<1>5. /\ NotSent(InSeq(waveBuffer) \union Queued, Len(ledger))'
      /\ NotSent(InSeq(wave.blocks), wave.nonce)'
  BY <1>2, <1>4 DEF NotSent
<1> QED
  BY <1>2, <1>3, <1>5 DEF Smooth, OfUploaded

LEMMA StartWaveSmooth ==
  ASSUME Core, Smooth, StartWave
  PROVE  Smooth'
<1>1. /\ wave.phase = "idle" /\ waveQueue # <<>> /\ waveQueue' = Tail(waveQueue)
      /\ UNCHANGED <<ledger, pool, uploadedCids, waveBuffer, client, nextNonce>>
      /\ client # "destroyed"
  BY DEF StartWave, Smooth
<1>2. waveQueue \in Seq(Seq(Cids)) /\ Head(waveQueue) \in Seq(Cids)
  BY <1>1 DEF Core, TypeOK
<1>3. AllOf(waveQueue) = AllOf(Tail(waveQueue)) \union InSeq(Head(waveQueue))
  BY <1>1, <1>2, QueueTail
<1>4. Queued = Queued' \union InSeq(Head(waveQueue))
  BY <1>1, <1>3 DEF Queued
<1>5. CASE client # "none"
  <2>1. wave' = Batch(Head(waveQueue), nextNonce, 0) /\ nextNonce = Len(ledger)
    BY <1>1, <1>5 DEF StartWave, Smooth
  <2> QED
    BY <1>1, <1>2, <1>4, <2>1, BatchSmooth
<1>6. CASE client = "none"
  <2>1. wave'.phase = "client" /\ wave'.blocks = Head(waveQueue)
    BY <1>6 DEF StartWave, NoWave
  <2>2. NotSent(InSeq(waveBuffer) \union Queued, Len(ledger)) /\ pool = {}
    BY <1>1 DEF Smooth
  <2> QED
    BY <1>1, <1>4, <1>6, <2>1, <2>2 DEF Smooth, OfUploaded, NotSent
<1> QED
  BY <1>5, <1>6

LEMMA EnsureClientSmooth ==
  ASSUME Core, Smooth, EnsureClient, UNCHANGED faults, faults \in Nat
  PROVE  Smooth'
<1>1. /\ wave.phase = "client" /\ FetchNonce /\ client' # "destroyed"
      /\ wave' = Batch(wave.blocks, nextNonce', 0)
      /\ UNCHANGED <<ledger, pool, uploadedCids, waveBuffer, waveQueue>>
  BY DEF EnsureClient, Misfortune, Smooth
<1>2. pool = {} /\ wave.blocks \in Seq(Cids) /\ Queued' = Queued
  BY <1>1 DEF Smooth, Core, TypeOK, WaveType, Queued
<1>3. nextNonce' = Len(ledger)
  BY <1>1, <1>2, NonceIsNext DEF Core
<1> QED
  BY <1>1, <1>2, <1>3, BatchSmooth

LEMMA WaveCompletesSmooth ==
  ASSUME Core, Smooth, WaveCompletes
  PROVE  Smooth'
<1>1. /\ wave.phase = "batch" /\ \A i \in DOMAIN wave.st : wave.st[i] \notin Pending
      /\ InStep /\ wave' = NoWave /\ nextNonce' = wave.nonce + Len(wave.blocks)
      /\ UNCHANGED <<ledger, pool, uploadedCids, waveBuffer, waveQueue, client>>
  BY DEF WaveCompletes, Settled, Smooth
<1>2. /\ DOMAIN wave.st = 1..Len(wave.blocks) /\ Len(wave.blocks) \in Nat /\ wave.nonce \in Nat
      /\ Len(ledger) \in Nat
  BY <1>1 DEF Core, TypeOK, WaveType, ChainType
<1>3. \A i \in DOMAIN wave.st : Spent(NonceOf(i)) /\ wave.st[i] # "inflight"
  BY <1>1 DEF InStep, Pending
<1>4. pool = {}
  BY <1>1, <1>3 DEF InStep
<1>5. nextNonce' = Len(ledger)
  <2>1. wave.nonce <= Len(ledger) /\ Len(ledger) <= wave.nonce + Len(wave.blocks)
    BY <1>1 DEF InStep
  <2>2. ASSUME Len(wave.blocks) > 0 PROVE wave.nonce + Len(wave.blocks) - 1 < Len(ledger)
    <3>1. Len(wave.blocks) \in DOMAIN wave.st
      BY <1>2, <2>2
    <3>2. Spent(NonceOf(Len(wave.blocks)))
      BY <1>3, <3>1
    <3> QED
      BY <3>2 DEF Spent, NonceOf
  <2> QED
    BY <1>1, <1>2, <2>1, <2>2
<1>6. wave'.phase = "idle" /\ InSeq(wave'.blocks) = {}
  BY <1>1, InEmpty DEF NoWave
<1>7. UNCHANGED Queued
  BY <1>1 DEF Queued
<1> QED
  BY <1>1, <1>4, <1>5, <1>6, <1>7 DEF Smooth, OfUploaded, NotSent

LEMMA SubmitSmooth ==
  ASSUME Core, Smooth, NEW i \in DOMAIN wave.st, SubmitBlock(i)
  PROVE  Smooth'
<1>1. InStep /\ wave.phase = "batch" /\ client # "destroyed" /\ NonceOf(i) \in Nat /\ Len(ledger) \in Nat
  BY SubmissionOf DEF Core, Smooth, ChainType
<1>2. PICK out \in SubStates : Submit(DagBlock(wave.blocks[i]), NonceOf(i), out) /\ SetSub(i, out)
  BY <1>1 DEF SubmitBlock
<1>3. /\ UNCHANGED <<ledger, uploadedCids, waveBuffer, waveQueue, client, nextNonce>>
      /\ wave.st[i] = "sent"
  BY DEF SubmitBlock
<1>4. ~Spent(NonceOf(i)) /\ ~Pooled(NonceOf(i))
  <2>1. ~Spent(NonceOf(i))
    BY <1>1, <1>3 DEF InStep
  <2>2. ASSUME NEW t \in pool, t.nonce = NonceOf(i) PROVE FALSE
    <3>1. PICK j \in DOMAIN wave.st : t = Txn(j) /\ wave.st[j] = "inflight"
      BY <1>1 DEF InStep
    <3>2. NonceOf(j) = NonceOf(i)
      BY <2>2, <3>1 DEF Txn
    <3>3. j = i
      BY <3>2 DEF NonceOf, Core, TypeOK, WaveType
    <3> QED
      BY <1>3, <3>1, <3>3
  <2> QED
    BY <2>1, <2>2 DEF Pooled
<1>5. out = "inflight" /\ pool' = pool \union {Txn(i)}
  BY <1>1, <1>2, <1>4 DEF Submit, Spent, Txn
<1>6. /\ wave'.phase = wave.phase /\ wave'.blocks = wave.blocks /\ wave'.nonce = wave.nonce
      /\ DOMAIN wave'.st = DOMAIN wave.st /\ wave'.st[i] = "inflight"
      /\ \A j \in DOMAIN wave.st : j # i => wave'.st[j] = wave.st[j]
  BY <1>2, <1>5, SubEffect DEF Core, TypeOK
<1>7. InStep'
  <2>1. \A j : UNCHANGED <<NonceOf(j), Txn(j), Spent(NonceOf(j)), Found(DagBlock(wave.blocks[j]), NonceOf(j))>>
    BY <1>3, <1>6 DEF NonceOf, Txn, Spent, Found
  <2>2. \A t \in pool : \E j \in DOMAIN wave.st :
           t = Txn(j) /\ ~Spent(NonceOf(j)) /\ wave.st[j] = "inflight" /\ j # i
    BY <1>1, <1>3 DEF InStep
  <2>3. \A t \in pool' : \E j \in DOMAIN wave.st : t = Txn(j) /\ ~Spent(NonceOf(j)) /\ wave'.st[j] = "inflight"
    BY <1>4, <1>5, <1>6, <2>2
  <2> QED
    BY <1>1, <1>3, <1>4, <1>5, <1>6, <2>1, <2>3 DEF InStep
<1>8. UNCHANGED Queued
  BY <1>3 DEF Queued
<1> QED
  BY <1>1, <1>3, <1>6, <1>7, <1>8 DEF Smooth, OfUploaded, NotSent

LEMMA SettlesSmooth ==
  ASSUME Core, Smooth, NEW i \in DOMAIN wave.st, BlockSettles(i)
  PROVE  Smooth'
<1>1. InStep /\ wave.phase = "batch" /\ NonceOf(i) \in Nat /\ Len(ledger) \in Nat
  BY SubmissionOf DEF Core, Smooth, ChainType
<1>2. /\ UNCHANGED <<ledger, pool, uploadedCids, waveBuffer, waveQueue, client, nextNonce>>
      /\ Spent(NonceOf(i)) /\ Found(DagBlock(wave.blocks[i]), NonceOf(i))
  BY <1>1 DEF BlockSettles, InStep
<1>3. Succeeded(NonceOf(i))
  <2>1. NonceOf(i) + 1 \in DOMAIN ledger
    BY <1>1, <1>2 DEF Spent, Core, ChainType
  <2> QED
    BY <2>1 DEF Smooth, OfUploaded, Succeeded
<1>4. SetSub(i, "ok")
  BY <1>2, <1>3 DEF BlockSettles, WatchedOutcome
<1>5. /\ wave'.phase = wave.phase /\ wave'.blocks = wave.blocks /\ wave'.nonce = wave.nonce
      /\ DOMAIN wave'.st = DOMAIN wave.st /\ wave'.st[i] = "ok"
      /\ \A j \in DOMAIN wave.st : j # i => wave'.st[j] = wave.st[j]
  BY <1>4, SubEffect DEF Core, TypeOK, SubStates
<1>6. InStep'
  <2>1. \A j : UNCHANGED <<NonceOf(j), Txn(j), Spent(NonceOf(j)), Found(DagBlock(wave.blocks[j]), NonceOf(j))>>
    BY <1>2, <1>5 DEF NonceOf, Txn, Spent, Found
  <2>2. \A t \in pool : \E j \in DOMAIN wave.st : t = Txn(j) /\ ~Spent(NonceOf(j)) /\ wave'.st[j] = "inflight"
    BY <1>1, <1>2, <1>5 DEF InStep
  <2> QED
    BY <1>1, <1>2, <1>5, <2>1, <2>2 DEF InStep
<1>7. UNCHANGED Queued
  BY <1>2 DEF Queued
<1> QED
  BY <1>1, <1>2, <1>5, <1>6, <1>7 DEF Smooth, OfUploaded, NotSent

\* No submission is given up: its transaction waits in the pool, and so do those before it.
LEMMA NoneGivenUp ==
  ASSUME Core, Smooth, NEW i \in DOMAIN wave.st
  PROVE  ~BlockGivenUp(i)
<1> SUFFICES ASSUME BlockGivenUp(i) PROVE FALSE
  OBVIOUS
<1>1. InStep /\ wave.phase = "batch" /\ i \in 1..Len(wave.blocks) /\ NonceOf(i) \in Nat /\ Len(ledger) \in Nat
  BY SubmissionOf DEF Core, Smooth, ChainType
<1>2. /\ wave.st[i] = "inflight" /\ Stuck(NonceOf(i))
      /\ \A j \in DOMAIN wave.st : wave.st[j] = "sent" => j >= i
  BY <1>1 DEF BlockGivenUp, InStep
<1>3. NonceOf(i) >= Len(ledger) /\ ~Spent(NonceOf(i))
  BY <1>1, <1>2 DEF Stuck, Spent
<1>4. Pooled(NonceOf(i))
  BY <1>1, <1>2, <1>3 DEF InStep, Pooled, Txn
<1>5. PICK m \in Len(ledger)..(NonceOf(i) - 1) : ~Pooled(m)
  BY <1>2, <1>4 DEF Stuck, Gap
<1> DEFINE j == m - wave.nonce + 1
<1>6. j \in DOMAIN wave.st /\ j \in Int /\ i \in Int /\ j < i /\ NonceOf(j) = m /\ ~Spent(m)
  <2>1. wave.nonce \in Nat /\ wave.nonce <= Len(ledger) /\ DOMAIN wave.st = 1..Len(wave.blocks)
        /\ Len(wave.blocks) \in Nat
    BY <1>1 DEF InStep, Core, TypeOK, WaveType
  <2> QED
    BY <1>1, <1>5, <2>1 DEF NonceOf, Spent
<1> HIDE DEF j
<1>7. wave.st[j] # "sent"
  <2>1. wave.st[j] = "sent" => j >= i
    BY <1>2, <1>6
  <2> QED
    BY <1>6, <2>1
<1>8. Txn(j) \in pool
  BY <1>1, <1>6, <1>7 DEF InStep
<1> QED
  BY <1>5, <1>6, <1>8 DEF Pooled, Txn

\* A block whose nonce is not spent is not on the chain yet.
LEMMA UnspentAreNew ==
  ASSUME Core, Smooth, NEW i \in DOMAIN wave.st, ~Spent(NonceOf(i)), NEW l \in DOMAIN ledger
  PROVE  ledger[l].call # DagBlock(wave.blocks[i])
<1>1. /\ InStep /\ wave.phase = "batch" /\ i \in DOMAIN wave.blocks /\ wave.nonce \in Nat
      /\ NotSent(InSeq(wave.blocks), wave.nonce) /\ Injective(wave.blocks)
      /\ DOMAIN wave.st = DOMAIN wave.blocks
  BY SubmissionOf DEF Core, Smooth, TypeOK, WaveType, Books, Once
<1>2. l \in 1..Len(ledger) /\ Len(ledger) \in Nat
  BY DEF Core, ChainType
<1>3. CASE l <= wave.nonce
  BY <1>1, <1>3 DEF NotSent, InSeq
<1>4. CASE l > wave.nonce
  <2> DEFINE j == l - wave.nonce
  <2>1. /\ j \in DOMAIN wave.st /\ NonceOf(j) + 1 = l /\ Spent(NonceOf(j))
    <3>1. Len(ledger) <= wave.nonce + Len(wave.blocks) /\ DOMAIN wave.st = 1..Len(wave.blocks)
          /\ Len(wave.blocks) \in Nat
      BY <1>1 DEF InStep, Core, TypeOK, WaveType
    <3> QED
      BY <1>1, <1>2, <1>4, <3>1 DEF NonceOf, Spent
  <2> HIDE DEF j
  <2>2. ledger[l].call = DagBlock(wave.blocks[j])
    BY <1>1, <2>1 DEF InStep, Found
  <2>3. j # i
    BY <2>1
  <2>4. wave.blocks[j] # wave.blocks[i]
    BY <1>1, <2>1, <2>3 DEF Injective
  <2> QED
    BY <2>2, <2>4, DagBlocksDiffer
<1> QED
  BY <1>1, <1>2, <1>3, <1>4

LEMMA ExecutesSmooth ==
  ASSUME Core, Smooth, Executes
  PROVE  Smooth'
<1>1. UNCHANGED <<uploadedCids, waveBuffer, waveQueue, wave, client, nextNonce>>
  BY DEF Executes
<1>2. PICK t \in pool : /\ t.nonce = Len(ledger)
                        /\ ledger' = Append(ledger, [call |-> t.call, outcome |-> "success"])
                        /\ pool' = pool \ {t}
  BY DEF Executes, Include
<1>3. wave.phase = "batch" /\ InStep
  BY <1>2 DEF Smooth
<1>4. PICK i \in DOMAIN wave.st : t = Txn(i) /\ ~Spent(NonceOf(i)) /\ wave.st[i] = "inflight"
  BY <1>2, <1>3 DEF InStep
<1> DEFINE L == Len(ledger)
           x == wave.blocks[i]
           e == [call |-> DagBlock(x), outcome |-> "success"]
<1>5. /\ i \in 1..Len(wave.blocks) /\ Len(wave.blocks) \in Nat /\ wave.nonce \in Nat
      /\ DOMAIN wave.st = 1..Len(wave.blocks) /\ NonceOf(i) = L /\ t.call = DagBlock(x)
      /\ L \in Nat /\ x \in InSeq(wave.blocks) /\ x \in uploadedCids
  <2>1. i \in DOMAIN wave.blocks /\ InSeq(wave.blocks) \subseteq uploadedCids
    BY SubmissionOf DEF Core, Books, Once, Waiting
  <2> QED
    BY <1>2, <1>3, <1>4, <2>1 DEF Core, TypeOK, WaveType, ChainType, Txn, InSeq
<1>6. /\ DOMAIN ledger' = DOMAIN ledger \union {L + 1} /\ Len(ledger') = L + 1
      /\ ledger'[L + 1] = e /\ \A l \in DOMAIN ledger : ledger'[l] = ledger[l]
      /\ DOMAIN ledger = 1..L
  BY <1>2, <1>5 DEF Core, ChainType
<1>7. \A l \in DOMAIN ledger : ledger[l].call # DagBlock(x)
  BY <1>4, UnspentAreNew
<1> HIDE DEF e
<1>8. OfUploaded'
  BY <1>1, <1>5, <1>6 DEF OfUploaded, Smooth, e
<1>9. \A l, m \in DOMAIN ledger' : ledger'[l].call = ledger'[m].call => l = m
  <2>1. ledger'[L + 1].call = DagBlock(x)
    BY <1>6 DEF e
  <2>2. \A l, m \in DOMAIN ledger : ledger'[l].call = ledger'[m].call => l = m
    BY <1>6 DEF Smooth
  <2> QED
    BY <1>6, <1>7, <2>1, <2>2
<1>10. NotSent(InSeq(waveBuffer) \union Queued, Len(ledger))'
  <2>1. x \notin InSeq(waveBuffer) \union Queued
    <3>1. \A k \in DOMAIN waveQueue : InSeq(waveQueue[k]) \intersect InSeq(wave.blocks) = {}
      BY DEF Core, Books, Once
    <3>2. InSeq(waveBuffer) \intersect InSeq(wave.blocks) = {}
      BY DEF Core, Books, Once
    <3> QED
      BY <1>5, <3>1, <3>2 DEF Queued, AllOf
  <2>2. NotSent(InSeq(waveBuffer) \union Queued, L)
    BY DEF Smooth
  <2>3. \A y \in InSeq(waveBuffer) \union Queued : DagBlock(y) # DagBlock(x)
    BY <2>1, DagBlocksDiffer
  <2>4. ledger'[L + 1].call = DagBlock(x) /\ \A l \in DOMAIN ledger : l <= L
    BY <1>6 DEF e
  <2>5. \A l \in DOMAIN ledger', y \in InSeq(waveBuffer) \union Queued : ledger'[l].call # DagBlock(y)
    BY <1>6, <2>2, <2>3, <2>4 DEF NotSent
  <2> QED
    BY <1>1, <2>5 DEF NotSent, Queued
<1>11. NotSent(InSeq(wave.blocks), wave.nonce)'
  <2>1. NotSent(InSeq(wave.blocks), wave.nonce) /\ wave.nonce <= L
    BY <1>3 DEF Smooth, InStep
  <2>2. \A l \in DOMAIN ledger' : l <= wave.nonce => l \in DOMAIN ledger
    BY <1>5, <1>6, <2>1
  <2> QED
    BY <1>1, <1>6, <2>1, <2>2 DEF NotSent
<1>12. InStep'
  <2>1. wave.nonce <= Len(ledger') /\ Len(ledger') <= wave.nonce + Len(wave.blocks)
    BY <1>3, <1>5, <1>6 DEF InStep, NonceOf
  <2>2. \A j \in DOMAIN wave.st : /\ UNCHANGED <<NonceOf(j), Txn(j)>> /\ NonceOf(j) \in Nat
                                  /\ NonceOf(j) = L => j = i
    <3>1. \A j \in DOMAIN wave.st : UNCHANGED <<NonceOf(j), Txn(j)>>
      BY <1>1 DEF NonceOf, Txn
    <3>2. ASSUME NEW j \in DOMAIN wave.st PROVE NonceOf(j) \in Nat /\ (NonceOf(j) = L => j = i)
      <4>1. j \in 1..Len(wave.blocks) /\ wave.nonce + i - 1 = L
        BY <1>5 DEF NonceOf
      <4> QED
        BY <1>5, <4>1 DEF NonceOf
    <3> QED
      BY <3>1, <3>2
  <2>3. /\ \A j \in DOMAIN wave.st : Spent(NonceOf(j))' <=> (Spent(NonceOf(j)) \/ j = i)
        /\ \A j \in DOMAIN wave.st : Spent(NonceOf(j)) => NonceOf(j) + 1 \in DOMAIN ledger
    BY <1>5, <1>6, <2>2 DEF Spent
  <2>4. \A j \in DOMAIN wave.st : Spent(NonceOf(j))' => Found(DagBlock(wave.blocks[j]), NonceOf(j))'
    <3>1. Found(DagBlock(x), NonceOf(i))'
      BY <1>1, <1>5, <1>6, <2>2 DEF Found, e
    <3>2. ASSUME NEW j \in DOMAIN wave.st, Spent(NonceOf(j))
          PROVE  Found(DagBlock(wave.blocks[j]), NonceOf(j))'
      <4>1. ledger[NonceOf(j) + 1].call = DagBlock(wave.blocks[j]) /\ NonceOf(j) + 1 \in DOMAIN ledger
        BY <1>3, <2>3, <3>2 DEF InStep, Found
      <4> QED
        BY <1>1, <1>6, <2>2, <4>1 DEF Found
    <3> QED
      BY <2>3, <3>1, <3>2
  <2>5. \A j \in DOMAIN wave.st : j # i => Txn(j) # t
    <3>1. \A j : Txn(j).nonce = NonceOf(j)
      BY DEF Txn
    <3> QED
      BY <1>2, <2>2, <3>1
  <2>6. \A j \in DOMAIN wave.st :
           /\ wave.st[j] \in {"sent", "inflight", "ok"}
           /\ Spent(NonceOf(j))' => wave.st[j] # "sent"
           /\ ~Spent(NonceOf(j))' => wave.st[j] # "ok" /\ (wave.st[j] = "inflight" => Txn(j) \in pool')
    BY <1>2, <1>3, <1>4, <2>3, <2>5 DEF InStep
  <2>7. \A u \in pool' : \E j \in DOMAIN wave.st :
           u = Txn(j) /\ ~Spent(NonceOf(j))' /\ wave.st[j] = "inflight"
    BY <1>2, <1>3, <1>4, <2>3 DEF InStep
  <2> QED
    BY <1>1, <2>1, <2>2, <2>4, <2>6, <2>7 DEF InStep
<1> QED
  BY <1>1, <1>3, <1>8, <1>9, <1>10, <1>11, <1>12 DEF Smooth

LEMMA InitSmooth == Init => Smooth
<1> SUFFICES ASSUME Init PROVE Smooth
  OBVIOUS
<1>1. /\ ledger = <<>> /\ pool = {} /\ wave.phase = "idle" /\ client = "none"
      /\ DOMAIN ledger = {} /\ Len(ledger) = 0
  BY DEF Init, NoWave
<1> QED
  BY <1>1 DEF Smooth, OfUploaded, NotSent

LEMMA StepFaultless == ASSUME Core, Faultless, [Next]_vars PROVE Faultless'
<1> SUFFICES ASSUME faults' = 0 PROVE Smooth'
  BY DEF Faultless
<1>1. faults \in Nat /\ ~Misfortune
  BY BoundAssumption DEF Core, TypeOK, Misfortune
<1>2. UNCHANGED faults
  BY <1>1 DEF Next, ImporterStep, WaveStep, Trouble, Ended, Put, ImporterEnds, FinalFlush, Return,
              StartWave, EnsureClient, WaveCompletes, WaveThrows, RetryWave, RefetchNonce, SubmitBlock,
              BlockSettles, BlockGivenUp, BlockFails, ImportFails, Executes, ExecuteFails, Dropped,
              Foreign, vars
<1>3. Smooth
  BY <1>2 DEF Faultless
<1>4. ASSUME ImporterStep PROVE Smooth'
  <2>1. CASE ImporterEnds \/ Return
    BY <1>3, <2>1, SameSmooth DEF ImporterEnds, Return
  <2> QED
    BY <1>1, <1>2, <1>3, <1>4, <2>1, PutSmooth, FinalFlushSmooth DEF ImporterStep
<1>5. ASSUME WaveStep PROVE Smooth'
  <2>1. ~WaveThrows /\ ~RetryWave /\ ~RefetchNonce
    BY <1>3, NoneFailed DEF Core, WaveThrows, RetryWave, RefetchNonce, Smooth
  <2> QED
    BY <1>1, <1>2, <1>3, <1>5, <2>1, StartWaveSmooth, EnsureClientSmooth, WaveCompletesSmooth,
       SubmitSmooth, SettlesSmooth, NoneGivenUp DEF WaveStep
<1>6. ASSUME UNCHANGED vars PROVE Smooth'
  BY <1>3, <1>6, SameSmooth DEF vars
<1>7. ~Trouble
  BY <1>1 DEF Trouble, BlockFails, ImportFails, ExecuteFails, Dropped, Foreign
<1> QED
  BY <1>3, <1>4, <1>5, <1>6, <1>7, ExecutesSmooth DEF Next, Ended

\* The inductive invariant of the whole module.
THEOREM Invariance == Spec => []IInv
<1>1. Init => IInv
  BY InitCore, InitSmooth DEF IInv, Core, Books, Faultless
<1>2. IInv /\ [Next]_vars => IInv'
  BY StepCore, StepFaultless DEF IInv, Core, Books
<1> QED
  BY <1>1, <1>2, PTL DEF Spec

\* Without a misfortune no block is sent, and paid for, twice: every wave begins with the
\* nonce the chain expects, so none of its transactions is refused, replaced or overtaken.
THEOREM NothingIsPaidTwice == Spec => []NothingPaidTwice
<1>1. ASSUME IInv PROVE NothingPaidTwice
  <2> SUFFICES ASSUME faults = 0
               PROVE  /\ \A i, j \in DOMAIN ledger : ledger[i].call = ledger[j].call => i = j
                      /\ \A t \in pool : (\A i \in DOMAIN ledger : ledger[i].call # t.call)
                                         /\ \A u \in pool : u.call = t.call => u = t
    BY DEF NothingPaidTwice
  <2>1. Core /\ Smooth
    BY <1>1 DEF IInv, Core, Books, Faultless
  <2>2. \A t \in pool : \E i \in DOMAIN wave.st :
           t = Txn(i) /\ t.call = DagBlock(wave.blocks[i]) /\ ~Spent(NonceOf(i))
    BY <2>1 DEF Smooth, InStep, Txn
  <2>3. \A i, j \in DOMAIN wave.st : wave.blocks[i] = wave.blocks[j] => i = j
    BY <2>1, SubmissionOf DEF Core, Books, Once, Injective
  <2>4. \A t \in pool, i \in DOMAIN ledger : ledger[i].call # t.call
    BY <2>1, <2>2, UnspentAreNew
  <2>5. \A t, u \in pool : u.call = t.call => u = t
    BY <2>2, <2>3, DagBlocksDiffer
  <2> QED
    BY <2>1, <2>4, <2>5 DEF Smooth
<1> QED
  BY <1>1, Invariance, PTL

-----------------------------------------------------------------------------
(***************************************************************************)
(* The upload implements AbstractDirectory: an executed block is a         *)
(* StoreBlock, the end of the importer's promise a Publish, a misfortune a *)
(* Strike or a GiveUp, and every other step a stutter.                     *)
(***************************************************************************)
LEMMA FaultsGrow ==
  ASSUME TypeOK, [Next]_vars
  PROVE  faults \in Nat /\ faults' \in {faults, faults + 1}
<1>1. faults \in Nat
  BY BoundAssumption DEF TypeOK
<1>2. CASE \E n \in Nodes : Put(n)
  BY <1>1, <1>2 DEF Put
<1>3. CASE \E i \in DOMAIN wave.st : SubmitBlock(i) \/ BlockSettles(i) \/ BlockGivenUp(i) \/ BlockFails(i)
  BY <1>1, <1>3 DEF SubmitBlock, BlockSettles, BlockGivenUp, BlockFails, Misfortune
<1> QED
  BY <1>1, <1>2, <1>3
     DEF Next, ImporterStep, WaveStep, Trouble, Ended, ImporterEnds, FinalFlush, Return, StartWave,
         EnsureClient, WaveCompletes, WaveThrows, RetryWave, RefetchNonce, ImportFails, Executes,
         ExecuteFails, Dropped, Foreign, Misfortune, vars

\* A failed attempt starts over, ends the upload, or is one of an upload that has ended.
LEMMA FailAttemptOutcome ==
  ASSUME NEW error, FailAttempt(error)
  PROVE  Outcome' = Outcome \/ (Outcome = "running" /\ Outcome' = "failed")
BY DEF FailAttempt, Outcome, Running

\* An attempt fails only behind a misfortune.
LEMMA FailuresAreTroubled ==
  ASSUME Core, Faultless, WaveThrows
  PROVE  faults # 0
BY NoneFailed DEF Core, Faultless, WaveThrows

\* What is below the block that executes next is on the chain.
LEMMA BelowIsHeld ==
  ASSUME Core, Smooth, NEW t \in pool, t.nonce = Len(ledger), NEW x \in Cids, t.call = DagBlock(x)
  PROVE  Linked(x) \subseteq Held
<1>1. wave.phase = "batch" /\ InStep /\ OfUploaded
  BY DEF Smooth
<1>2. PICK i \in DOMAIN wave.st : t = Txn(i) /\ ~Spent(NonceOf(i))
  BY <1>1 DEF InStep
<1>3. /\ i \in DOMAIN wave.blocks /\ x = wave.blocks[i] /\ NonceOf(i) = Len(ledger)
      /\ DOMAIN wave.st = DOMAIN wave.blocks /\ DOMAIN wave.blocks = 1..Len(wave.blocks)
      /\ wave.nonce \in Nat /\ Len(ledger) \in Nat /\ DOMAIN ledger = 1..Len(ledger)
      /\ Len(wave.blocks) \in Nat
  <2>1. DagBlock(x) = DagBlock(wave.blocks[i]) /\ t.nonce = NonceOf(i)
    BY <1>2 DEF Txn
  <2>2. /\ i \in DOMAIN wave.blocks /\ wave.phase = "batch" /\ wave.nonce \in Nat
        /\ wave.blocks \in Seq(Cids) /\ DOMAIN wave.st = DOMAIN wave.blocks
    BY <1>1, SubmissionOf DEF Core, TypeOK, WaveType
  <2>3. Len(ledger) \in Nat /\ DOMAIN ledger = 1..Len(ledger)
    BY DEF Core, ChainType
  <2> QED
    BY <2>1, <2>2, <2>3, DagBlocksDiffer
<1>4. ASSUME NEW j \in 1..(i - 1) PROVE wave.blocks[j] \in Held
  <2>1. j \in DOMAIN wave.st /\ NonceOf(j) \in Nat /\ NonceOf(j) < Len(ledger)
    BY <1>3 DEF NonceOf, Core, ChainType
  <2>2. ledger[NonceOf(j) + 1].call = DagBlock(wave.blocks[j]) /\ NonceOf(j) + 1 \in DOMAIN ledger
    BY <1>1, <1>3, <2>1 DEF InStep, Spent, Found
  <2>3. ledger[NonceOf(j) + 1] = [call |-> DagBlock(wave.blocks[j]), outcome |-> "success"]
    BY <1>1, <2>2, LedgerEntries DEF OfUploaded, Core
  <2>4. wave.blocks[j] \in Cids
    BY <2>1, SubmissionOf DEF Core
  <2> QED
    BY <2>2, <2>3, <2>4 DEF Held, Holds, Executed
<1>5. \A y \in Linked(x) : y \in Held \/ \E j \in 1..(i - 1) : wave.blocks[j] = y
  BY <1>3 DEF Core, Books, Ordered, After
<1> QED
  BY <1>4, <1>5

LEMMA AbstractExecution ==
  ASSUME Core, Faultless, Executes
  PROVE  [Abstract!Next]_(Abstract!vars)
<1>1. PICK t \in pool : /\ t.nonce = Len(ledger)
                        /\ ledger' = Append(ledger, [call |-> t.call, outcome |-> "success"])
  BY DEF Executes, Include
<1>2. UNCHANGED <<faults, Outcome, pc, completedCount>>
  BY DEF Executes, Outcome, Running
<1>3. /\ DOMAIN ledger' = DOMAIN ledger \union {Len(ledger) + 1}
      /\ ledger'[Len(ledger) + 1] = [call |-> t.call, outcome |-> "success"]
      /\ \A i \in DOMAIN ledger : ledger'[i] = ledger[i]
  BY <1>1 DEF Core, ChainType
<1>4. \A x : Holds(x)' <=> Holds(x) \/ DagBlock(x) = t.call
  BY <1>3 DEF Holds, Executed
<1>5. CASE \E x \in Cids : DagBlock(x) = t.call
  <2>1. PICK x \in Cids : DagBlock(x) = t.call
    BY <1>5
  <2>2. Held' = Held \union {x}
    BY <1>4, <2>1, DagBlocksDiffer DEF Held
  <2>3. faults > 0 \/ Linked(x) \subseteq Held
    <3>1. faults \in Nat
      BY BoundAssumption DEF Core, TypeOK
    <3> QED
      BY <1>1, <2>1, <3>1, BelowIsHeld DEF Faultless
  <2>4. Abstract!StoreBlock
    BY <1>2, <2>2, <2>3 DEF Abstract!StoreBlock
  <2> QED
    BY <2>4 DEF Abstract!Next
<1>6. CASE ~\E x \in Cids : DagBlock(x) = t.call
  <2>1. Held' = Held
    BY <1>4, <1>6 DEF Held
  <2> QED
    BY <1>2, <2>1 DEF Abstract!vars
<1> QED
  BY <1>5, <1>6

\* No other step adds to what the chain holds.
LEMMA HeldElsewhere ==
  ASSUME ChainType, [Next]_vars, ~Executes
  PROVE  Held' = Held
<1>1. CASE ledger' = ledger
  BY <1>1 DEF Held, Holds, Executed
<1>2. CASE ExecuteFails
  <2>1. PICK t \in pool : ledger' = Append(ledger, [call |-> t.call, outcome |-> "error"])
    BY <1>2 DEF ExecuteFails, Include
  <2>2. /\ DOMAIN ledger' = DOMAIN ledger \union {Len(ledger) + 1}
        /\ ledger'[Len(ledger) + 1] = [call |-> t.call, outcome |-> "error"]
        /\ \A i \in DOMAIN ledger : ledger'[i] = ledger[i]
    BY <2>1 DEF ChainType
  <2> QED
    BY <2>2 DEF Held, Holds, Executed
<1>3. CASE \E n \in Nodes : Put(n)
  BY <1>1, <1>3 DEF Put
<1> QED
  BY <1>1, <1>2, <1>3
     DEF Next, ImporterStep, WaveStep, Trouble, Ended, ImporterEnds, FinalFlush, Return, StartWave,
         EnsureClient, WaveCompletes, WaveThrows, RetryWave, RefetchNonce, SubmitBlock, BlockSettles,
         BlockGivenUp, BlockFails, ImportFails, Dropped, Drop, Foreign, ForeignTransaction, vars

\* The upload goes on, or is over; it ends well; or it gives up behind a misfortune.
LEMMA Outcomes ==
  ASSUME Core, Faultless, [Next]_vars, ~Return
  PROVE  Outcome' = Outcome \/ (Outcome = "running" /\ Outcome' = "failed" /\ faults' # 0)
<1>1. faults \in Nat /\ faults' \in {faults, faults + 1}
  BY FaultsGrow DEF Core
<1>2. CASE pc' = pc
  BY <1>2 DEF Outcome, Running
<1>3. CASE \E n \in Nodes : Put(n)
  BY <1>2, <1>3 DEF Put
<1>4. CASE ImporterEnds
  BY <1>4 DEF ImporterEnds, Outcome, Running
<1>5. CASE FinalFlush \/ EnsureClient \/ RefetchNonce
  <2>1. CASE Misfortune /\ FailAttempt("timeout")
    BY <1>1, <2>1, FailAttemptOutcome DEF Misfortune
  <2>2. CASE pc = "finalNonce" /\ pc' = "finalWave"
    BY <2>2 DEF Outcome, Running
  <2> QED
    BY <1>2, <1>5, <2>1, <2>2 DEF FinalFlush, EnsureClient, RefetchNonce
<1>6. CASE WaveThrows
  BY <1>1, <1>6, FailAttemptOutcome, FailuresAreTroubled DEF WaveThrows
<1>7. CASE ImportFails
  BY <1>1, <1>7 DEF ImportFails, Misfortune, Outcome, Running
<1>8. CASE \E i \in DOMAIN wave.st : SubmitBlock(i) \/ BlockSettles(i) \/ BlockGivenUp(i) \/ BlockFails(i)
  BY <1>2, <1>8 DEF SubmitBlock, BlockSettles, BlockGivenUp, BlockFails
<1> QED
  BY <1>2, <1>3, <1>4, <1>5, <1>6, <1>7, <1>8
     DEF Next, ImporterStep, WaveStep, Trouble, Ended, StartWave, WaveCompletes, RetryWave, Executes,
         ExecuteFails, Dropped, Foreign, vars

\* An importer that has ended, or whose upload has reported its root, finds every block
\* on the chain, and has counted each of them once.
LEMMA AllAreCounted ==
  ASSUME Core, Return \/ pc = "done"
  PROVE  Cids \subseteq Held /\ completedCount = Cardinality(Cids)
<1>1. AllPut /\ wave = NoWave /\ waveQueue = <<>> /\ waveBuffer = <<>>
  BY DEF Core, Phased, WaveShape, Return, Quiet
<1>2. Waiting = {}
  BY <1>1, InEmpty DEF NoWave, Waiting, Queued, AllOf
<1>3. uploadedCids = Cids
  BY <1>1 DEF Core, Books, PutAreMarked, AllPut, TypeOK, Cids
<1> QED
  BY <1>2, <1>3 DEF Core, Books, Marked, Counted, Held

Announced == IF pc = "done" THEN completedCount ELSE 0

AnnouncedAll == Announced = IF Outcome = "published" THEN Cardinality(Cids) ELSE 0

LEMMA AnnouncedAre == Core => AnnouncedAll
BY AllAreCounted DEF Announced, AnnouncedAll, Outcome, Running

LEMMA ReturnPublishes ==
  ASSUME Core, Return
  PROVE  Abstract!Publish
<1>1. Cids \subseteq Held /\ completedCount = Cardinality(Cids)
  BY AllAreCounted
<1>2. Outcome = "running" /\ Outcome' = "published" /\ UNCHANGED <<Held, faults>>
      /\ Announced' = completedCount
  BY DEF Return, Outcome, Announced, Running, Held, Holds, Executed
<1> QED
  BY <1>1, <1>2 DEF Abstract!Publish, Held, Announced

LEMMA AbstractStep ==
  ASSUME Core, Faultless, AnnouncedAll, AnnouncedAll', [Next]_vars
  PROVE  [Abstract!Next]_(Abstract!vars)
<1>1. CASE Return
  BY <1>1, ReturnPublishes DEF Abstract!Next
<1>2. CASE ~Executes /\ ~Return
  <2>1. Held' = Held /\ faults \in Nat /\ faults' \in {faults, faults + 1}
    BY <1>2, HeldElsewhere, FaultsGrow DEF Core
  <2>2. CASE Outcome' = Outcome /\ faults' = faults
    BY <2>1, <2>2 DEF Abstract!vars, Announced, AnnouncedAll, Cids
  <2>3. CASE Outcome' = Outcome /\ faults' = faults + 1
    <3>1. Abstract!Strike
      BY <2>1, <2>3 DEF Abstract!Strike, Announced, AnnouncedAll, Cids
    <3> QED
      BY <3>1 DEF Abstract!Next
  <2>4. CASE Outcome = "running" /\ Outcome' = "failed" /\ faults' # 0
    <3>1. Abstract!GiveUp
      BY <2>1, <2>4 DEF Abstract!GiveUp, Announced, AnnouncedAll, Cids
    <3> QED
      BY <3>1 DEF Abstract!Next
  <2> QED
    BY <1>2, <2>1, <2>2, <2>3, <2>4, Outcomes
<1> QED
  BY <1>1, <1>2, AbstractExecution

\* merkleizeAndUploadDirectory under its retries keeps the promise of AbstractDirectory, for
\* every tree, size of waves, number of retries and misfortunes: until something goes wrong
\* a block is on the chain only behind all it links; the root is announced once, with every
\* block on the chain and counted once; and the upload gives up only behind a misfortune.
THEOREM DirectoryImplementsAbstract == Spec => ImplementsAbstractDirectory
<1>1. Init => Abstract!Init
  <2> SUFFICES ASSUME Init PROVE Abstract!Init
    OBVIOUS
  <2>1. Held = {}
    BY DEF Init, Held, Holds, Executed
  <2>2. Outcome = "running" /\ ~(faults > 0) /\ pc # "done"
    BY DEF Init, Outcome, Running
  <2> QED
    BY <2>1, <2>2 DEF Abstract!Init
<1>2. IInv => AnnouncedAll
  BY AnnouncedAre DEF IInv, Core, Books
<1>3. IInv /\ AnnouncedAll /\ AnnouncedAll' /\ [Next]_vars => [Abstract!Next]_(Abstract!vars)
  BY AbstractStep DEF IInv, Core, Books
<1> QED
  BY <1>1, <1>2, <1>3, Invariance, PTL DEF Spec, ImplementsAbstractDirectory, Abstract!Spec
===============================================================================
