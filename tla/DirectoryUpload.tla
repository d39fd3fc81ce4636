---------------------------- MODULE DirectoryUpload ----------------------------
(***************************************************************************)
(* merkleizeAndUploadDirectory under the retry loop of storeDirectory      *)
(* (packages/cli/src/commands/bulletin.ts).                                *)
(*                                                                         *)
(* An importer walks a directory and puts blocks, several at a time but a  *)
(* node only after what it links.  A put collects its block; the put that  *)
(* fills the buffer flushes it as a wave and waits until that wave has     *)
(* run.  Waves are chained on a promise and run one after the other, each  *)
(* with consecutive nonces.  The blocks of a wave that fail are sent again *)
(* under nonces fetched afresh.  A CID counts as uploaded as soon as it is *)
(* collected, so a block that occurs again is never waited for.            *)
(***************************************************************************)
EXTENDS BulletinChain, FiniteSetsExt

CONSTANTS
    Nodes,                  \* occurrences of blocks in the directory tree
    CidOf,                  \* [Nodes -> the CID of the block]
    LinksOf,                \* [Nodes -> the nodes it links]
    WaveSize,               \* WAVE_SIZE, the concurrency
    MaxWaveRetries,         \* MAX_DIRECTORY_WAVE_RETRIES
    MaxUploadRetries,       \* retries of the whole upload
    MaxFaults               \* bound: misfortunes of the network, the node, the disk

Cids == {CidOf[n] : n \in Nodes}

ASSUME TreeAssumption ==
    /\ CidOf \in [Nodes -> Cids]
    /\ LinksOf \in [Nodes -> SUBSET Nodes]
    \* A CID is the hash of the block, so of the CIDs it links.
    /\ \A n, m \in Nodes : CidOf[n] = CidOf[m] =>
           {CidOf[l] : l \in LinksOf[n]} = {CidOf[l] : l \in LinksOf[m]}
ASSUME LimitsAssumption ==
    /\ WaveSize \in Nat \ {0} /\ MaxWaveRetries \in Nat /\ MaxUploadRetries \in Nat
ASSUME BoundAssumption == MaxFaults \in Nat

VARIABLES
    pc,             \* where merkleizeAndUploadDirectory waits
    attempt,        \* attempt of runWithUploadRetries, from 0
    awaited,        \* [Nodes -> the wave its put waits for, or NotPut]
    uploadedCids,
    waveBuffer,     \* blocks collected and not in a wave yet
    waveQueue,      \* waves chained behind the running one
    wavesDone,      \* waves of this attempt that have run
    wave,           \* the running wave
    client,         \* the shared client: "none" yet, "alive" or "destroyed"
    nextNonce,
    completedCount,
    faults

importVars == <<awaited, uploadedCids, waveBuffer>>
queueVars  == <<waveQueue, wavesDone>>
clientVars == <<client, nextNonce>>
attemptVars == <<importVars, queueVars, wave, clientVars, completedCount>>
vars == <<accountVars, pc, attempt, attemptVars, faults>>

ControlPoints ==
    { "importing",   \* the importer runs
      "finalNonce",  \* next: FinalFlush
      "finalWave",   \* awaits the last wave
      "done",        \* the root was returned
      "failed",      \* the retries are used up
      "refused" }    \* an error that is not worth a retry

Running == pc \notin {"done", "failed", "refused"}

Retryable == {"timeout", "stale", "pool", "reconnect"}
Errors    == Retryable \union {"fatal"}
Pending   == {"sent", "inflight", "orphan"}
SubStates == {"ok"} \union Pending \union Errors

NotPut == -1

\* phases: no wave; ensureClient; the batch is under way; a fresh nonce is awaited
NoWave == [phase |-> "idle", blocks |-> <<>>, nonce |-> 0, st |-> <<>>, retry |-> 0]

DagBlock(x)  == [kind |-> "dag", links |-> {x}]
Holds(x)     == Executed(DagBlock(x))
Misfortune   == faults < MaxFaults /\ faults' = faults + 1

FreshAttempt ==
    /\ awaited' = [n \in Nodes |-> NotPut] /\ uploadedCids' = {} /\ waveBuffer' = <<>>
    /\ waveQueue' = <<>> /\ wavesDone' = 0 /\ wave' = NoWave
    /\ client' = "none" /\ nextNonce' = 0 /\ completedCount' = 0

Init ==
    /\ ledger = <<>> /\ pool = {}
    /\ pc = "importing" /\ attempt = 0
    /\ awaited = [n \in Nodes |-> NotPut] /\ uploadedCids = {} /\ waveBuffer = <<>>
    /\ waveQueue = <<>> /\ wavesDone = 0 /\ wave = NoWave
    /\ client = "none" /\ nextNonce = 0 /\ completedCount = 0
    /\ faults = 0

\* A mutant of FailAttempt: the chain of waves goes on after one was rejected.
Swallowed(error) ==
    /\ wave' = NoWave /\ wavesDone' = wavesDone + 1
    /\ UNCHANGED <<pc, attempt, importVars, waveQueue, clientVars, completedCount>>

\* A rejected wave rejects those chained behind it and every put that waits for
\* them, the importer throws, and the upload starts over if it may.
FailAttempt(error) ==
    /\ IF Running /\ error \in Retryable /\ attempt < MaxUploadRetries
       THEN pc' = "importing" /\ attempt' = attempt + 1
       ELSE /\ pc' = IF ~Running THEN pc ELSE IF error \in Retryable THEN "failed" ELSE "refused"
            /\ UNCHANGED attempt
    /\ FreshAttempt

(***************************************************************************)
(* The importer and the blockstore it writes to.                           *)
(***************************************************************************)
Returned(n) == awaited[n] # NotPut /\ wavesDone >= awaited[n]

\* Waves put on the chain so far, whether they have run or not.
Chained == wavesDone + Len(waveQueue) + (IF wave.phase = "idle" THEN 0 ELSE 1)

EveryTime(x) == TRUE       \* a mutant: a block that occurs again is collected again

Collected(x) == x \notin uploadedCids

Put(n) ==
    /\ pc = "importing" /\ awaited[n] = NotPut
    /\ \A m \in LinksOf[n] : Returned(m)
    /\ uploadedCids' = uploadedCids \union {CidOf[n]}
    /\ LET full == Append(waveBuffer, CidOf[n])
       IN  IF ~Collected(CidOf[n])
           THEN /\ awaited' = [awaited EXCEPT ![n] = 0]
                /\ UNCHANGED <<waveBuffer, waveQueue>>
           ELSE IF Len(full) >= WaveSize
           THEN /\ awaited' = [awaited EXCEPT ![n] = Chained + 1]
                /\ waveQueue' = Append(waveQueue, full)
                /\ waveBuffer' = <<>>
           ELSE /\ awaited' = [awaited EXCEPT ![n] = 0]
                /\ waveBuffer' = full
                /\ UNCHANGED waveQueue
    /\ UNCHANGED <<accountVars, pc, attempt, wavesDone, wave, clientVars, completedCount, faults>>

AllReturned == \A n \in Nodes : Returned(n)

\* The importer has yielded the root.  The client is replaced.
ImporterEnds ==
    /\ pc = "importing" /\ AllReturned
    /\ pc' = "finalNonce"
    /\ UNCHANGED <<accountVars, attempt, attemptVars, faults>>

RememberedNonce == nextNonce' = nextNonce      \* a mutant: the nonce is not asked for

FetchNonce ==
    \E n \in Len(ledger)..(Len(ledger) + Cardinality(pool)) :
        IsNextIndex(n) /\ nextNonce' = n

\* What is left in the buffer becomes the last wave.
FinalFlush ==
    /\ pc = "finalNonce"
    /\ \/ /\ FetchNonce /\ client' = "alive"
          /\ waveQueue' = IF waveBuffer = <<>> THEN waveQueue ELSE Append(waveQueue, waveBuffer)
          /\ waveBuffer' = <<>>
          /\ pc' = "finalWave"
          /\ UNCHANGED <<attempt, awaited, uploadedCids, wavesDone, wave, completedCount, faults>>
       \/ Misfortune /\ FailAttempt("timeout")
    /\ UNCHANGED accountVars

Return ==
    /\ pc = "finalWave" /\ wave.phase = "idle" /\ waveQueue = <<>>
    /\ pc' = "done"
    /\ UNCHANGED <<accountVars, attempt, attemptVars, faults>>

(***************************************************************************)
(* executeWave.                                                            *)
(***************************************************************************)
Batch(blocks, n, retry) ==
    [phase |-> "batch", blocks |-> blocks, nonce |-> n, retry |-> retry,
     st |-> [i \in DOMAIN blocks |-> "sent"]]

waveFrame == <<pc, attempt, importVars, waveQueue>>

StartWave ==
    /\ wave.phase = "idle" /\ waveQueue # <<>>
    /\ wave' = IF client # "none" THEN Batch(Head(waveQueue), nextNonce, 0)
               ELSE [NoWave EXCEPT !.phase = "client", !.blocks = Head(waveQueue)]
    /\ waveQueue' = Tail(waveQueue)
    /\ UNCHANGED <<accountVars, pc, attempt, importVars, wavesDone, clientVars,
                   completedCount, faults>>

\* ensureClient: the first wave creates the client and asks for the nonce.
EnsureClient ==
    /\ wave.phase = "client"
    /\ \/ /\ FetchNonce /\ client' = IF client = "none" THEN "alive" ELSE client
          /\ wave' = Batch(wave.blocks, nextNonce', 0)
          /\ UNCHANGED <<waveFrame, wavesDone, completedCount, faults>>
       \/ Misfortune /\ FailAttempt("timeout")
    /\ UNCHANGED accountVars

NonceOf(i) == wave.nonce + i - 1

SetSub(i, out) == wave' = [wave EXCEPT !.st[i] = out]

submissionFrame == <<waveFrame, wavesDone, clientVars, completedCount>>

SubmitBlock(i) ==
    /\ wave.st[i] = "sent"
    /\ \E out \in SubStates :
          /\ IF client = "destroyed" THEN out = "reconnect" /\ UNCHANGED pool
             ELSE Submit(DagBlock(wave.blocks[i]), NonceOf(i), out)
          /\ SetSub(i, out)
    /\ UNCHANGED <<ledger, submissionFrame, faults>>

\* A mutant: the event's ok flag is not looked at.
IgnoringDispatchError(x, n) == IF Found(DagBlock(x), n) THEN "ok" ELSE "stale"

\* What the watcher of a transaction makes of its nonce being spent.
WatchedOutcome(x, n) ==
    IF ~Found(DagBlock(x), n) THEN "stale" ELSE IF Succeeded(n) THEN "ok" ELSE "fatal"

BlockSettles(i) ==
    /\ wave.st[i] = "inflight" /\ Spent(NonceOf(i))
    /\ SetSub(i, WatchedOutcome(wave.blocks[i], NonceOf(i)))
    /\ UNCHANGED <<accountVars, submissionFrame, faults>>

\* The timer fires, or the client is gone, and nothing will come of it any more.
BlockGivenUp(i) ==
    /\ \/ wave.st[i] = "orphan"
       \/ /\ wave.st[i] = "inflight" /\ Stuck(NonceOf(i))
          /\ \A j \in DOMAIN wave.st : wave.st[j] = "sent" => j >= i
    /\ SetSub(i, "timeout")
    /\ UNCHANGED <<accountVars, submissionFrame, faults>>

\* The submission fails although its transaction may still execute.
BlockFails(i) ==
    /\ wave.st[i] \in {"sent", "inflight"}
    /\ \E out \in {"timeout", "fatal"} : SetSub(i, out)
    /\ Misfortune
    /\ UNCHANGED <<accountVars, submissionFrame>>

Settled     == wave.phase = "batch" /\ \A i \in DOMAIN wave.st : wave.st[i] \notin Pending
FailedOnes  == {i \in DOMAIN wave.st : wave.st[i] \in Errors}
UnlimitedRetries == {i \in FailedOnes : wave.st[i] \notin Retryable}        \* a mutant
ThrowingOnes == {i \in FailedOnes : wave.st[i] \notin Retryable \/ wave.retry >= MaxWaveRetries}
StoredOnes  == Cardinality(DOMAIN wave.st \ FailedOnes)

WaveCompletes ==
    /\ Settled /\ FailedOnes = {}
    /\ nextNonce' = wave.nonce + Len(wave.blocks)
    /\ completedCount' = completedCount + StoredOnes
    /\ wavesDone' = wavesDone + 1
    /\ wave' = NoWave
    /\ UNCHANGED <<accountVars, waveFrame, client, faults>>

\* The first failure, in block order, that may not be retried.
WaveThrows ==
    /\ Settled /\ ThrowingOnes # {}
    /\ FailAttempt(wave.st[Min(ThrowingOnes)])
    /\ UNCHANGED <<accountVars, faults>>

\* Mutants: all but the last failure are dropped; the whole wave is sent again.
LastFailed == <<wave.blocks[Max(FailedOnes)]>>
WholeWave  == wave.blocks

FailedBlocks ==
    [i \in 1..Cardinality(FailedOnes) |->
        wave.blocks[CHOOSE j \in FailedOnes : Cardinality({k \in FailedOnes : k <= j}) = i]]

\* The failures of a wave wait for a new client and a fresh nonce.
RetryWave ==
    /\ Settled /\ FailedOnes # {} /\ ThrowingOnes = {}
    /\ completedCount' = completedCount + StoredOnes
    /\ wave' = [phase |-> "refetch", blocks |-> FailedBlocks, nonce |-> 0, st |-> <<>>,
                retry |-> wave.retry + 1]
    /\ client' = "alive"
    /\ UNCHANGED <<accountVars, waveFrame, wavesDone, nextNonce, faults>>

RefetchNonce ==
    /\ wave.phase = "refetch"
    /\ \/ /\ FetchNonce
          /\ wave' = Batch(wave.blocks, nextNonce', wave.retry)
          /\ UNCHANGED <<waveFrame, wavesDone, client, completedCount, faults>>
       \/ Misfortune /\ FailAttempt("timeout")
    /\ UNCHANGED accountVars

(***************************************************************************)
(* A file cannot be read: the upload fails at once, its client is          *)
(* destroyed, and the chained waves, which nobody awaits any more, go on,  *)
(* after their first failure with a client they create themselves.         *)
(***************************************************************************)
ImportFails ==
    /\ pc = "importing" /\ Misfortune
    /\ pc' = "refused"
    /\ wave' = [wave EXCEPT !.st = [i \in DOMAIN wave.st |->
                   IF wave.st[i] \in {"sent", "inflight"} THEN "orphan" ELSE wave.st[i]]]
    /\ client' = IF client = "none" /\ wave.phase # "client" THEN client ELSE "destroyed"
    /\ UNCHANGED <<accountVars, attempt, importVars, queueVars, nextNonce, completedCount>>

(***************************************************************************)
(* The whole system.                                                       *)
(***************************************************************************)
nodeFrame == <<pc, attempt, attemptVars>>

Executes     == Include("success") /\ UNCHANGED <<nodeFrame, faults>>
ExecuteFails == Include("error") /\ Misfortune /\ UNCHANGED nodeFrame
Dropped      == Drop /\ Misfortune /\ UNCHANGED nodeFrame
Foreign      == ForeignTransaction /\ Misfortune /\ UNCHANGED nodeFrame

ImporterStep == (\E n \in Nodes : Put(n)) \/ ImporterEnds \/ FinalFlush \/ Return

WaveStep ==
    \/ StartWave \/ EnsureClient \/ WaveCompletes \/ WaveThrows \/ RetryWave \/ RefetchNonce
    \/ \E i \in DOMAIN wave.st : SubmitBlock(i) \/ BlockSettles(i) \/ BlockGivenUp(i)

Trouble ==
    \/ \E i \in DOMAIN wave.st : BlockFails(i)
    \/ ImportFails \/ ExecuteFails \/ Dropped \/ Foreign

Ended == ~Running /\ UNCHANGED vars

Next == ImporterStep \/ WaveStep \/ Executes \/ Trouble \/ Ended

Spec == Init /\ [][Next]_vars

\* Settled promises run on, timers fire, blocks are produced.
FairSpec == Spec /\ WF_vars(ImporterStep) /\ WF_vars(WaveStep) /\ WF_vars(Executes)

(***************************************************************************)
(* What should be true.                                                    *)
(***************************************************************************)
WaveType ==
    /\ wave.phase \in {"idle", "client", "batch", "refetch"}
    /\ wave.blocks \in Seq(Cids) /\ wave.nonce \in Nat /\ wave.retry \in 0..MaxWaveRetries
    /\ wave.st \in Seq(SubStates)
    /\ wave.phase = "batch" => DOMAIN wave.st = DOMAIN wave.blocks

\* Every variable ranges over the values the code's variable can hold; no wave is
\* retried more often than allowed, and no wave is larger than WAVE_SIZE.
TypeOK ==
    /\ pc \in ControlPoints /\ attempt \in 0..MaxUploadRetries /\ faults \in 0..MaxFaults
    /\ awaited \in [Nodes -> Nat \union {NotPut}] /\ uploadedCids \subseteq Cids
    /\ waveBuffer \in Seq(Cids) /\ Len(waveBuffer) < WaveSize
    /\ waveQueue \in Seq(Seq(Cids)) /\ wavesDone \in Nat
    /\ WaveType
    /\ client \in {"none", "alive", "destroyed"} /\ nextNonce \in Nat /\ completedCount \in Nat

InSeq(s) == {s[i] : i \in DOMAIN s}

\* A CID that counts as uploaded, so that nobody will put it again, is held by the
\* chain or still waits in the buffer, in a chained wave, or in what the running wave
\* has to send: between retries of a part of a wave no block falls out.
MarkedNotForgotten ==
    Running => \A x \in uploadedCids :
        \/ Holds(x)
        \/ x \in InSeq(waveBuffer) \union InSeq(wave.blocks)
                     \union UNION {InSeq(waveQueue[i]) : i \in DOMAIN waveQueue}

\* A node is sent only when the chain holds what it links, or the same wave sends it
\* first: waves never overtake each other, a block that occurs twice is not linked
\* before its only copy went out, and a failed wave stops those behind it.
LinksTravelFirst ==
    \A i \in DOMAIN wave.st, n \in Nodes : wave.blocks[i] = CidOf[n] =>
        \A m \in LinksOf[n] : Holds(CidOf[m]) \/ \E j \in 1..(i - 1) : wave.blocks[j] = CidOf[m]

\* Without a misfortune no block is sent, and paid for, twice: not for occurring twice
\* in the tree, and not by a wave that runs with the nonces of its predecessor.
NothingPaidTwice ==
    faults = 0 =>
        /\ \A i, j \in DOMAIN ledger : ledger[i].call = ledger[j].call => i = j
        /\ \A t \in pool : (\A i \in DOMAIN ledger : ledger[i].call # t.call)
                           /\ \A u \in pool : u.call = t.call => u = t

\* The whole upload, seen from outside, is one of AbstractDirectory.
Held      == {x \in Cids : Holds(x)}
Linked(x) == {CidOf[m] : m \in UNION {LinksOf[n] : n \in {k \in Nodes : CidOf[k] = x}}}
Outcome   == IF Running THEN "running" ELSE IF pc = "done" THEN "published" ELSE "failed"

Abstract == INSTANCE AbstractDirectory WITH
                Blocks <- Cids, Below <- [x \in Cids |-> Linked(x)], Total <- Cardinality(Cids),
                available <- Held, troubled <- (faults > 0), outcome <- Outcome,
                announced <- (IF pc = "done" THEN completedCount ELSE 0)

\* Until something goes wrong a reader who finds a block on the chain finds all it
\* links; the upload announces its root once, with every block of the tree on the chain,
\* and a number that counts each of them once, whatever was retried; and it does not
\* give up unless something went wrong.
ImplementsAbstractDirectory == Abstract!Spec

\* The upload ends; and it gives up only for an error that is not worth a retry, or
\* after more misfortunes than it has retries: repairing one never causes another.
DirectoryEnds ==
    Running ~> \/ pc \in {"done", "refused"}
               \/ pc = "failed" /\ faults > MaxUploadRetries
===============================================================================
