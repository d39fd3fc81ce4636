------------------------- MODULE ChunkedUploadProofs -------------------------
EXTENDS ChunkedUpload, FiniteSetTheorems, TLAPS

LEMMA HalvedWindowType ==
  ASSUME NEW w \in Nat, NEW limit \in Nat, w \in 1..limit
  PROVE  HalvedWindow(w) \in 1..limit
BY DEF HalvedWindow, AtLeast, WindowMin

LEMMA MaxWindowType == MaxWindow \in 1..4
BY LimitsAssumption DEF MaxWindow, SanitizedWindow, AtMost, AtLeast, WindowMin, WindowCap

LEMMA NextAdaptiveWindowType ==
  ASSUME NEW w \in 1..MaxWindow, NEW s \in 0..1, NEW d \in Durations, NEW r \in BOOLEAN
  PROVE  /\ NextAdaptiveWindow(w, MaxWindow, s, d, r).window \in 1..MaxWindow
         /\ NextAdaptiveWindow(w, MaxWindow, s, d, r).streak \in 0..1
BY MaxWindowType, HalvedWindowType DEF NextAdaptiveWindow, Durations, AtMost, AtLeast, WindowMin

LEMMA WaveIsPartOfQueue ==
  ASSUME NEW q, NEW w, NEW l, NEW b
  PROVE  SelectWaveChunks(q, w, l, b) \subseteq q
BY DEF SelectWaveChunks, FittingPrefixes, IsPrefix

LEMMA SomeChunksAreFinite ==
  ASSUME NEW S, S \subseteq Chunks
  PROVE  IsFiniteSet(S) /\ Cardinality(S) \in Nat
<1>1. IsFiniteSet(Chunks)
  BY SizesAssumption, FS_Interval DEF Chunks
<1> QED
  BY <1>1, FS_Subset, FS_CardinalityType

-----------------------------------------------------------------------------

USE DEF submissionFrame, rootFrame, nodeFrame, diskVars, commandVars, windowVars,
        markVars, rootVars, boundVars, attemptVars, accountVars

LEMMA InitTyped == Init => Typed
<1> SUFFICES ASSUME Init PROVE Typed
  OBVIOUS
<1> USE SizesAssumption, LimitsAssumption, BoundsAssumption, MaxWindowType DEF Init
<1>1. ChainType
  BY DEF ChainType
<1>2. RecordType
  BY DEF RecordType
<1>3. ControlType
  BY DEF ControlType, ControlPoints, Loads
<1>4. LoopType
  BY DEF LoopType, WindowMin
<1>5. WavesType
  BY DEF WavesType
<1>6. RootType
  BY DEF RootType, NoRoot, SubStates
<1> QED
  BY <1>1, <1>2, <1>3, <1>4, <1>5, <1>6 DEF Typed

-----------------------------------------------------------------------------
(***************************************************************************)
(* What the operators on waves return.                                     *)
(***************************************************************************)
LEMMA WaveRecordType ==
  ASSUME WavesType, NEW w \in DOMAIN waves
  PROVE  /\ waves[w] \in WaveRecords
         /\ waves[w] = [phase |-> waves[w].phase, retry |-> waves[w].retry,
                        nonce |-> waves[w].nonce, st |-> waves[w].st]
<1>1. waves[w] \in WaveRecords
  BY DEF WavesType
<1> QED
  BY <1>1 DEF WaveRecords, WaveFields

LEMMA SetSubType ==
  ASSUME WavesType, NEW w \in DOMAIN waves, NEW c \in Chunks, NEW out \in SubStates,
         SetSub(w, c, out)
  PROVE  WavesType'
<1> DEFINE r == [waves[w] EXCEPT !.st = [@ EXCEPT ![c] = out]]
<1>1. r \in WaveRecords
  BY WaveRecordType DEF WaveRecords, WaveFields
<1>2. waves' = [waves EXCEPT ![w] = r]
  BY DEF SetSub
<1> QED
  BY <1>1, <1>2 DEF WavesType

LEMMA OrphanAllType ==
  ASSUME NEW ws \in Seq(WaveRecords)
  PROVE  OrphanAll(ws) \in Seq(WaveRecords)
<1>1. ASSUME NEW i \in DOMAIN ws
      PROVE  OrphanedWave(ws[i]) \in WaveRecords
  <2>1. ws[i] \in WaveRecords
    OBVIOUS
  <2>2. ASSUME NEW st \in SubStates
        PROVE  Orphaned(st) \in SubStates
    BY DEF Orphaned, SubStates, Pending
  <2>3. [c \in Chunks |-> Orphaned(ws[i].st[c])] \in [Chunks -> SubStates]
    BY <2>1, <2>2 DEF WaveRecords, WaveFields
  <2> QED
    BY <2>1, <2>3 DEF WaveRecords, WaveFields, OrphanedWave
<1> QED
  BY <1>1 DEF OrphanAll

LEMMA WithoutCurrentType ==
  ASSUME WavesType
  PROVE  WithoutCurrent \in Seq(WaveRecords)
<1>1. CASE Len(waves) > 0
  BY <1>1 DEF WithoutCurrent, WavesType
<1>2. CASE Len(waves) = 0
  BY <1>2 DEF WithoutCurrent, WavesType
<1> QED
  BY <1>1, <1>2 DEF WavesType

LEMMA EndedWaveType == EndedWave \in WaveRecords
BY LimitsAssumption DEF EndedWave, WaveRecords, WaveFields, Phases, SubStates
LEMMA NewWaveType ==
  ASSUME nextNonce \in Nat, NEW W, W \subseteq Chunks
  PROVE  NewWave(W) \in WaveRecords
<1>1. ASSUME NEW c \in Chunks
      PROVE  NonceIn(W, c) \in Nat
  BY SomeChunksAreFinite DEF NonceIn
<1> QED
  BY <1>1, LimitsAssumption DEF NewWave, WaveRecords, WaveFields, Phases, SubStates, Pending

-----------------------------------------------------------------------------
(***************************************************************************)
(* Steps that several actions share.                                       *)
(***************************************************************************)
LEMMA ClearAttemptType ==
  ASSUME ClearAttempt
  PROVE  LoopType' /\ WavesType' /\ RootType' /\ completed' = {}
<1> USE SizesAssumption, LimitsAssumption, MaxWindowType DEF ClearAttempt
<1>1. LoopType'
  BY DEF LoopType, WindowMin
<1>2. WavesType'
  BY DEF WavesType
<1>3. RootType'
  BY DEF RootType, NoRoot, SubStates
<1> QED
  BY <1>1, <1>2, <1>3

LEMMA MisfortuneType ==
  ASSUME ControlType, Misfortune
  PROVE  faults' \in 0..MaxFaults /\ edits' = edits
BY BoundsAssumption DEF ControlType, Misfortune

LEMMA FailAttemptType ==
  ASSUME Typed, NEW error, FailAttempt(error), UNCHANGED accountVars,
         faults' \in 0..MaxFaults, edits' = edits
  PROVE  Typed'
<1> USE LimitsAssumption DEF FailAttempt
<1>1. ChainType'
  BY DEF Typed, ChainType
<1>2. RecordType'
  BY ClearAttemptType DEF Typed, RecordType, LoadForRetry, Merge
<1>3. ControlType'
  BY DEF Typed, ControlType, ControlPoints, LoadForRetry, Loads
<1> QED
  BY <1>1, <1>2, <1>3, ClearAttemptType DEF Typed

LEMMA StallType ==
  ASSUME Typed, NEW ws \in Seq(WaveRecords), Stall(ws), UNCHANGED accountVars,
         faults' \in 0..MaxFaults, edits' = edits
  PROVE  Typed'
<1> USE DEF Stall
<1>1. WavesType'
  BY OrphanAllType DEF WavesType
<1>2. ChainType' /\ RecordType' /\ RootType'
  BY DEF Typed, ChainType, RecordType, RootType
<1>3. ControlType' /\ LoopType'
  BY DEF Typed, ControlType, ControlPoints, LoopType
<1> QED
  BY <1>1, <1>2, <1>3 DEF Typed

\* A block the uploader submits is well-formed.
LEMMA BlocksType ==
  ASSUME RecordType, ControlType
  PROVE  /\ \A c \in Chunks : ChunkBlock(c, version[c]) \in Blocks
         /\ RootOfCompleted \in Blocks
         /\ ForeignBlock \in Blocks
BY BoundsAssumption
DEF RecordType, ControlType, ChunkBlock, RootOfCompleted, RootBlock, ForeignBlock, Blocks, Pairs

LEMMA SubmitType ==
  ASSUME ChainType, NEW b \in Blocks, NEW n \in Nat, NEW out, Submit(b, n, out), UNCHANGED ledger
  PROVE  ChainType' /\ out \in SubStates
BY DEF ChainType, Submit, SubStates, Pending, Errors, UploadRetryable

LEMMA IncludeType ==
  ASSUME ChainType, NEW outcome \in {"success", "error"}, Include(outcome)
  PROVE  ChainType'
BY DEF ChainType, Include
-----------------------------------------------------------------------------
(***************************************************************************)
(* Type correctness is inductive as it stands.                             *)
(***************************************************************************)
LEMMA LoopStepTyped == ASSUME Typed, LoopStep PROVE Typed'
<1> USE SizesAssumption, LimitsAssumption, MaxWindowType
<1> USE DEF Typed, ControlPoints
<1>1. CASE StartAttempt
  BY <1>1 DEF StartAttempt, AtMost, ChainType, RecordType, ControlType, LoopType, WavesType,
     RootType
<1>2. CASE FetchStartNonce
  <2>1. CASE FetchNonce /\ pc' = "loop" /\ UNCHANGED <<diskVars, commandVars, markVars, nextRead,
                 queue, windowVars, waveChunks, waves, rootVars, boundVars>>
    BY <1>2, <2>1 DEF FetchStartNonce, FetchNonce, ChainType, RecordType, ControlType, LoopType,
       WavesType, RootType
  <2>2. CASE Misfortune /\ FailAttempt("timeout")
    BY <1>2, <2>2, FailAttemptType, MisfortuneType DEF FetchStartNonce
  <2> QED
    BY <1>2, <2>1, <2>2 DEF FetchStartNonce
<1>3. CASE ReadChunk
  <2>1. LoopType'
    <3>1. nextRead' \in 0..(NumChunks + 1)
      BY <1>3 DEF ReadChunk, endOfStream, LoopType
    <3>2. nextRead # NumChunks => nextRead \in Chunks
      BY <1>3 DEF ReadChunk, Chunks, endOfStream, LoopType
    <3>3. queue' \subseteq Chunks /\ completedChunks' \in Nat
      BY <1>3, <3>2 DEF ReadChunk, LoopType
    <3> QED
      BY <1>3, <3>1, <3>3 DEF ReadChunk, LoopType
  <2>2. RecordType'
    BY <1>3 DEF ReadChunk, RecordType
  <2> QED
    BY <1>3, <2>1, <2>2 DEF ReadChunk, ChainType, ControlType, WavesType, RootType
<1>4. CASE StartWave
  <2> DEFINE W == SelectWaveChunks(queue, window, ChunkLength, MaxInFlightBytes)
  <2>1. W \subseteq queue /\ W \subseteq Chunks /\ Cardinality(W) \in Nat
    BY WaveIsPartOfQueue, SomeChunksAreFinite DEF LoopType
  <2>2. LoopType'
    BY <1>4, <2>1 DEF StartWave, LoopType
  <2>3. WavesType'
    BY <1>4, <2>1, NewWaveType DEF StartWave, LoopType, WavesType
  <2> QED
    BY <1>4, <2>2, <2>3 DEF StartWave, ChainType, RecordType, ControlType, RootType
<1>5. CASE WaveCompletes
  <2>1. LoopType'
    <3>1. PICK duration \in Durations :
             LET next == NextAdaptiveWindow(window, MaxWindow, streak, duration,
                                            waves[Len(waves)].retry > 0)
             IN  window' = next.window /\ streak' = next.streak
      BY <1>5 DEF WaveCompletes
    <3>2. (waves[Len(waves)].retry > 0) \in BOOLEAN
      OBVIOUS
    <3>3. window' \in 1..MaxWindow /\ streak' \in 0..1
      BY <3>1, <3>2, NextAdaptiveWindowType DEF LoopType
    <3> QED
      BY <1>5, <3>3 DEF WaveCompletes, LoopType
  <2>2. WavesType'
    BY <1>5, WithoutCurrentType DEF WaveCompletes, WavesType
  <2> QED
    BY <1>5, <2>1, <2>2 DEF WaveCompletes, ChainType, RecordType, ControlType, RootType
<1>6. CASE WaveThrows
  <2>1. CASE \E error : FailAttempt(error)
    BY <1>6, <2>1, FailAttemptType DEF WaveThrows, ControlType
  <2>2. CASE Stall(WithoutCurrent)
    BY <1>6, <2>2, StallType, WithoutCurrentType DEF WaveThrows, ControlType
  <2> QED
    BY <1>6, <2>1, <2>2 DEF WaveThrows
<1>7. CASE RequeueWave
  <2>1. CASE Misfortune /\ FailAttempt("timeout")
    BY <1>7, <2>1, FailAttemptType, MisfortuneType DEF RequeueWave
  <2>2. CASE ~(Misfortune /\ FailAttempt("timeout"))
    <3>1. LoopType'
      BY <1>7, <2>2, HalvedWindowType DEF RequeueWave, FetchNonce, LoopType, Unconfirmed, ChainType
    <3> QED
      BY <1>7, <2>2, <3>1 DEF RequeueWave, ChainType, RecordType, ControlType, WavesType, RootType
  <2> QED
    BY <2>1, <2>2
<1>8. CASE StartRoot
  <2>1. CASE FailAttempt("fatal")
    BY <1>8, <2>1, FailAttemptType DEF StartRoot, ControlType
  <2>2. CASE ~FailAttempt("fatal")
    <3>1. /\ pc' = "root" /\ rootAttempt' = 1 /\ rootSub' = [st |-> "sent", nonce |-> nextNonce]
          /\ UNCHANGED <<accountVars, diskVars, commandVars, markVars, nextRead, queue, windowVars,
                         nextNonce, waveChunks, waves, boundVars>>
      BY <1>8, <2>2 DEF StartRoot
    <3>2. RootType'
      BY <3>1 DEF LoopType, RootType, SubStates, Pending
    <3>3. ChainType' /\ RecordType' /\ ControlType' /\ LoopType' /\ WavesType'
      BY <3>1 DEF ChainType, RecordType, ControlType, LoopType, WavesType
    <3> QED
      BY <3>2, <3>3
  <2> QED
    BY <2>1, <2>2
<1>9. CASE SubmitRoot
  <2>1. ChainType' /\ RootType'
    BY <1>9, BlocksType, SubmitType DEF SubmitRoot, RootType
  <2> QED
    BY <1>9, <2>1 DEF SubmitRoot, RecordType, ControlType, LoopType, WavesType
<1>10. CASE RootSettles
  BY <1>10 DEF RootSettles, ChainType, RecordType, ControlType, LoopType, WavesType, RootType,
     SubStates, Errors, UploadRetryable
<1>11. CASE RootGivenUp
  BY <1>11 DEF RootGivenUp, ChainType, RecordType, ControlType, LoopType, WavesType, RootType,
     SubStates, Errors, UploadRetryable
<1>12. CASE RootThrows
  <2>1. CASE FailAttempt(rootSub.st)
    BY <1>12, <2>1, FailAttemptType DEF RootThrows, ControlType
  <2>2. CASE ~FailAttempt(rootSub.st)
    <3>1. /\ pc' = "rootRetry" /\ rootAttempt # RootMaxRetries /\ rootAttempt' = rootAttempt + 1
          /\ UNCHANGED <<accountVars, diskVars, commandVars, markVars, nextRead, queue, windowVars,
                         nextNonce, waveChunks, waves, rootSub, boundVars>>
      BY <1>12, <2>2 DEF RootThrows
    <3>2. RootType'
      BY <3>1 DEF RootType
    <3>3. ChainType' /\ RecordType' /\ ControlType' /\ LoopType' /\ WavesType'
      BY <3>1 DEF ChainType, RecordType, ControlType, LoopType, WavesType
    <3> QED
      BY <3>2, <3>3
  <2> QED
    BY <2>1, <2>2
<1>13. CASE RetryRoot
  <2>1. /\ pc' = "root"
        /\ UNCHANGED <<accountVars, diskVars, commandVars, markVars, nextRead, queue, windowVars,
                       waveChunks, rootAttempt>>
    BY <1>13 DEF RetryRoot
  <2>2. CASE /\ FetchNonce /\ waves' = OrphanAll(waves)
             /\ rootSub' = [st |-> "sent", nonce |-> nextNonce']
             /\ UNCHANGED boundVars
    <3>1. LoopType' /\ RootType'
      BY <2>1, <2>2 DEF FetchNonce, LoopType, ChainType, RootType, SubStates, Pending
    <3>2. WavesType'
      BY <2>2, OrphanAllType DEF WavesType
    <3> QED
      BY <2>1, <2>2, <3>1, <3>2 DEF ChainType, RecordType, ControlType
  <2>3. CASE /\ Misfortune /\ rootSub' = [rootSub EXCEPT !.st = "timeout"]
             /\ UNCHANGED <<nextNonce, waves>>
    <3>1. RootType' /\ LoopType' /\ WavesType'
      BY <2>1, <2>3 DEF LoopType, WavesType, RootType, SubStates, Errors, UploadRetryable
    <3> QED
      BY <2>1, <2>3, <3>1, MisfortuneType DEF ChainType, RecordType, ControlType
  <2> QED
    BY <1>13, <2>2, <2>3 DEF RetryRoot
<1>14. CASE PersistRoot
  BY <1>14 DEF PersistRoot, ChainType, RecordType, ControlType, LoopType, WavesType, RootType
<1>15. CASE DeleteManifest
  BY <1>15, ClearAttemptType DEF DeleteManifest, ChainType, RecordType, ControlType
<1> QED
  BY <1>1, <1>2, <1>3, <1>4, <1>5, <1>6, <1>7, <1>8, <1>9, <1>10, <1>11, <1>12, <1>13, <1>14,
     <1>15 DEF LoopStep

LEMMA WaveStepTyped ==
  ASSUME Typed, NEW w \in DOMAIN waves, WaveStep(w) \/ \E c \in Chunks : ChunkFails(w, c)
  PROVE  Typed'
<1> USE DEF Typed
<1>1. /\ waves[w] \in WaveRecords
      /\ UNCHANGED submissionFrame
  BY WaveRecordType DEF WaveStep, SubmitChunk, ChunkSettles, ChunkGivenUp, ChunkFails, RetryLater,
     Resubmit, AbandonedWaveEnds
<1>2. RootType' /\ pc' = pc /\ run' = run /\ attempt' = attempt
  BY <1>1 DEF RootType
<1>3. ASSUME NEW c \in Chunks, SubmitChunk(w, c) PROVE Typed'
  <2>1. waves[w].nonce[c] \in Nat
    BY <1>1 DEF WaveRecords, WaveFields
  <2>2. ChainType' /\ WavesType'
    BY <1>3, <2>1, BlocksType, SubmitType, SetSubType DEF SubmitChunk
  <2> QED
    BY <1>3, <1>1, <1>2, <2>2 DEF SubmitChunk, RecordType, ControlType, LoopType
<1>4. ASSUME NEW c \in Chunks, ChunkSettles(w, c) PROVE Typed'
  <2>1. {"ok", "stale", "fatal"} \subseteq SubStates
    BY DEF SubStates, Errors, UploadRetryable
  <2>2. WavesType'
    BY <1>4, <2>1, SetSubType DEF ChunkSettles
  <2>3. RecordType' /\ LoopType'
    BY <1>4, <1>1, BoundsAssumption DEF ChunkSettles, MarkCompleted, RecordType, LoopType, ControlType,
       Pairs, Current
  <2> QED
    BY <1>4, <1>1, <1>2, <2>2, <2>3 DEF ChunkSettles, ChainType, ControlType
<1>5. ASSUME NEW c \in Chunks, ChunkGivenUp(w, c) PROVE Typed'
  <2>1. {"timeout", "reconnect"} \subseteq SubStates
    BY DEF SubStates, Errors, UploadRetryable
  <2>2. WavesType'
    BY <1>5, <2>1, SetSubType DEF ChunkGivenUp
  <2> QED
    BY <1>5, <1>1, <1>2, <2>2 DEF ChunkGivenUp, ChainType, ControlType, RecordType, LoopType
<1>6. ASSUME NEW c \in Chunks, ChunkFails(w, c) PROVE Typed'
  <2>1. FaultErrors \subseteq SubStates
    BY FaultsAssumption DEF SubStates, Errors, UploadRetryable
  <2>2. WavesType'
    BY <1>6, <2>1, SetSubType DEF ChunkFails
  <2>3. ControlType' /\ edits' = edits
    BY <1>6, <1>2, MisfortuneType DEF ChunkFails, ControlType
  <2> QED
    BY <1>6, <1>1, <1>2, <2>2, <2>3 DEF ChunkFails, ChainType, RecordType, LoopType
<1>7. ASSUME RetryLater(w) PROVE Typed'
  <2>0. ~Exhausted(w)
    BY <1>7 DEF RetryLater, Throwing
  <2>1. [waves[w] EXCEPT !.phase = "sleep"] \in WaveRecords
    BY <1>1, <2>0, LimitsAssumption DEF Exhausted, WaveRecords, WaveFields, Phases
  <2>2. WavesType'
    BY <1>7, <2>1 DEF RetryLater, WavesType
  <2> QED
    BY <1>7, <1>1, <1>2, <2>2 DEF RetryLater, ChainType, ControlType, RecordType, LoopType
<1>8. ASSUME Resubmit(w) PROVE Typed'
  <2>1. [c \in Chunks |-> IF waves[w].st[c] \in Errors THEN "sent" ELSE waves[w].st[c]]
          \in [Chunks -> SubStates]
    BY <1>1 DEF WaveRecords, WaveFields, SubStates, Pending
  <2>2. waves[w].retry < MaxRetries
    BY <1>8, <1>1 DEF Resubmit, WaveRecords
  <2>3. waves[w].retry + 1 \in 0..MaxRetries
    BY <1>1, <2>2, LimitsAssumption DEF WaveRecords, WaveFields
  <2>4. Resubmitted(waves[w]) \in WaveRecords
    BY <1>1, <2>1, <2>3 DEF Resubmitted, WaveRecords, WaveFields, Phases
  <2>5. WavesType'
    BY <1>8, <2>4 DEF Resubmit, WavesType
  <2> QED
    BY <1>8, <1>1, <1>2, <2>5 DEF Resubmit, ChainType, ControlType, RecordType, LoopType
<1>9. ASSUME AbandonedWaveEnds(w) PROVE Typed'
  <2>1. WavesType'
    BY <1>9, EndedWaveType DEF AbandonedWaveEnds, WavesType
  <2> QED
    BY <1>9, <1>1, <1>2, <2>1 DEF AbandonedWaveEnds, ChainType, ControlType, RecordType, LoopType
<1> QED
  BY <1>3, <1>4, <1>5, <1>6, <1>7, <1>8, <1>9 DEF WaveStep

LEMMA StepTyped == Typed /\ [Next]_vars => Typed'
<1> SUFFICES ASSUME Typed, [Next]_vars PROVE Typed'
  OBVIOUS
<1> USE DEF Typed
<1> DEFINE Rest == UNCHANGED <<nodeFrame, edits>> /\ faults' \in 0..MaxFaults
<1>1. ASSUME ChainType', Rest PROVE Typed'
  BY <1>1 DEF RecordType, ControlType, LoopType, WavesType, RootType
<1>2. faults \in 0..MaxFaults
  BY DEF ControlType
<1>3. CASE LoopStep
  BY <1>3, LoopStepTyped
<1>4. CASE \E w \in DOMAIN waves : WaveStep(w)
  BY <1>4, WaveStepTyped
<1>5. CASE Executes
  BY <1>5, <1>1, <1>2, IncludeType DEF Executes
<1>6. CASE Trouble
  <2>1. CASE \E w \in DOMAIN waves, c \in Chunks : ChunkFails(w, c)
    BY <2>1, WaveStepTyped
  <2>2. CASE WaveTimeout
    BY <2>2, StallType, MisfortuneType DEF WaveTimeout, WavesType
  <2>3. CASE RootFails
    BY <2>3, MisfortuneType, FaultsAssumption DEF RootFails, ChainType, RecordType, ControlType,
       LoopType, WavesType, RootType, SubStates, Errors, UploadRetryable
  <2>4. CASE ExecuteFails
    BY <2>4, <1>1, IncludeType, MisfortuneType DEF ExecuteFails
  <2>5. CASE Dropped
    BY <2>5, <1>1, MisfortuneType DEF Dropped, Drop, ChainType
  <2>6. CASE Foreign
    <3>1. ChainType'
      BY <2>6, BlocksType DEF Foreign, ForeignTransaction, ChainType
    <3> QED
      BY <2>6, <3>1, <1>1, MisfortuneType DEF Foreign
  <2> QED
    BY <1>6, <2>1, <2>2, <2>3, <2>4, <2>5, <2>6 DEF Trouble
<1>7. CASE Crash
  BY <1>7, ClearAttemptType DEF Crash, ChainType, RecordType, ControlType, ControlPoints
<1>8. CASE Restart
  <2>1. RecordType'
    BY <1>8 DEF Restart, CleanupStaleManifests, LoadManifestForResume, RecordType
  <2> QED
    BY <1>8, <2>1, LimitsAssumption DEF Restart, ChainType, ControlType, ControlPoints, LoopType, WavesType, RootType
<1>9. CASE EditFile
  <2>1. edits' \in 0..MaxEdits /\ edits' = edits + 1
    BY <1>9, BoundsAssumption DEF EditFile, ControlType
  <2>2. version' \in [Chunks -> 0..edits']
    BY <1>9, <2>1 DEF EditFile, RecordType, ControlType
  <2> QED
    BY <1>9, <2>1, <2>2 DEF EditFile, ChainType, RecordType, ControlType, LoopType, WavesType, RootType
<1>10. CASE UNCHANGED vars
  BY <1>10 DEF vars, ChainType, RecordType, ControlType, LoopType, WavesType, RootType
<1> QED
  BY <1>3, <1>4, <1>5, <1>6, <1>7, <1>8, <1>9, <1>10 DEF Next, Ended

\* What each variable holds, of whatever the others hold.
THEOREM TypesAreKept == Spec => []Typed
BY InitTyped, StepTyped, PTL DEF Spec

-----------------------------------------------------------------------------
(***************************************************************************)
(* What is recorded is stored: the ledger only grows, nothing but the      *)
(* watch of an executed transaction adds to the records, and every other   *)
(* step copies one record into another or forgets.                         *)
(***************************************************************************)
Recorded == manifest \union resumed \union completed

LEMMA StoredForEver ==
  ASSUME ChainType, NEW x, Stored(x),
         \/ ledger' = ledger
         \/ \E outcome \in {"success", "error"} : Include(outcome)
  PROVE  Stored(x)'
<1>1. PICK i \in DOMAIN ledger :
         ledger[i] = [call |-> ChunkBlock(x[1], x[2]), outcome |-> "success"]
  BY DEF Stored, Executed
<1>2. ledger \in Seq([call : Blocks, outcome : {"success", "error"}])
  BY DEF ChainType
<1>3. i \in DOMAIN ledger' /\ ledger'[i] = ledger[i]
  <2>1. CASE ledger' = ledger
    BY <2>1
  <2>2. CASE \E outcome \in {"success", "error"} : Include(outcome)
    <3>1. PICK e : ledger' = Append(ledger, e)
      BY <2>2 DEF Include
    <3>2. i \in 1..Len(ledger)
      BY <1>2
    <3> QED
      BY <1>2, <3>1, <3>2
  <2> QED
    BY <2>1, <2>2
<1> QED
  BY <1>1, <1>3 DEF Stored, Executed

LEMMA ElementOfSeq ==
  ASSUME NEW S, NEW s \in Seq(S), NEW i \in DOMAIN s
  PROVE  s[i] \in S
OBVIOUS

LEMMA SettledOkIsStored ==
  ASSUME ChainType, NEW c \in Chunks, NEW n \in Nat,
         WatchResult(ChunkBlock(c, version[c]), n, "ok")
  PROVE  Stored(Current(c))
<1>1. /\ n + 1 \in DOMAIN ledger
      /\ ledger[n + 1].call = ChunkBlock(c, version[c])
      /\ ledger[n + 1].outcome = "success"
  BY DEF ChainType, WatchResult, Spent, Found, Succeeded
<1>2. ledger[n + 1] \in [call : Blocks, outcome : {"success", "error"}]
  BY <1>1, ElementOfSeq DEF ChainType
<1>3. ledger[n + 1] = [call |-> ChunkBlock(c, version[c]), outcome |-> "success"]
  BY <1>1, <1>2
<1> QED
  BY <1>1, <1>3 DEF Stored, Executed, Current

LEMMA FailAttemptRecords ==
  ASSUME NEW error, FailAttempt(error)
  PROVE  Recorded' \subseteq Recorded
BY DEF FailAttempt, ClearAttempt, LoadForRetry, Merge, Recorded

LEMMA LoopStepRecords ==
  ASSUME LoopStep
  PROVE  Recorded' \subseteq Recorded /\ ledger' = ledger
<1> USE DEF Recorded
<1>1. CASE StartAttempt \/ ReadChunk \/ StartWave \/ WaveCompletes
  BY <1>1 DEF StartAttempt, ReadChunk, StartWave, WaveCompletes
<1>2. CASE FetchStartNonce \/ RequeueWave
  BY <1>2, FailAttemptRecords DEF FetchStartNonce, RequeueWave
<1>3. CASE WaveThrows
  <2>1. CASE \E error : FailAttempt(error)
    BY <1>3, <2>1, FailAttemptRecords DEF WaveThrows
  <2>2. CASE Stall(WithoutCurrent)
    BY <1>3, <2>2 DEF WaveThrows, Stall
  <2> QED
    BY <1>3, <2>1, <2>2 DEF WaveThrows
<1>4. CASE StartRoot
  BY <1>4, FailAttemptRecords DEF StartRoot
<1>5. CASE RootThrows
  BY <1>5, FailAttemptRecords DEF RootThrows
<1>6. CASE SubmitRoot \/ RootSettles \/ RootGivenUp \/ RetryRoot
  BY <1>6 DEF SubmitRoot, RootSettles, RootGivenUp, RetryRoot
<1>7. CASE PersistRoot \/ DeleteManifest
  BY <1>7 DEF PersistRoot, DeleteManifest, ClearAttempt
<1> QED
  BY <1>1, <1>2, <1>3, <1>4, <1>5, <1>6, <1>7 DEF LoopStep

LEMMA WaveStepRecords ==
  ASSUME Typed, NEW w \in DOMAIN waves,
         WaveStep(w) \/ \E c \in Chunks : ChunkFails(w, c)
  PROVE  ledger' = ledger /\ \A x \in Recorded' : x \in Recorded \/ Stored(x)
<1> USE DEF Recorded
<1>1. ASSUME NEW c \in Chunks, ChunkSettles(w, c)
      PROVE  ledger' = ledger /\ \A x \in Recorded' : x \in Recorded \/ Stored(x)
  <2>1. waves[w].nonce[c] \in Nat
    BY WaveRecordType DEF Typed, WaveRecords, WaveFields
  <2>2. CASE MarkCompleted(c) /\ WatchResult(ChunkBlock(c, version[c]), waves[w].nonce[c], "ok")
    BY <1>1, <2>1, <2>2, SettledOkIsStored DEF ChunkSettles, MarkCompleted, Typed
  <2>3. CASE UNCHANGED markVars
    BY <1>1, <2>3 DEF ChunkSettles
  <2> QED
    BY <1>1, <2>2, <2>3 DEF ChunkSettles
<1>2. CASE \E c \in Chunks : SubmitChunk(w, c) \/ ChunkGivenUp(w, c) \/ ChunkFails(w, c)
  BY <1>2 DEF SubmitChunk, ChunkGivenUp, ChunkFails
<1>3. CASE RetryLater(w) \/ Resubmit(w) \/ AbandonedWaveEnds(w)
  BY <1>3 DEF RetryLater, Resubmit, AbandonedWaveEnds
<1> QED
  BY <1>1, <1>2, <1>3 DEF WaveStep

LEMMA StepRecords ==
  ASSUME Typed, RecordedAreStored, [Next]_vars
  PROVE  RecordedAreStored'
<1> DEFINE Grows == \/ ledger' = ledger
                    \/ \E outcome \in {"success", "error"} : Include(outcome)
<1>1. Grows /\ \A x \in Recorded' : x \in Recorded \/ Stored(x)
  <2>1. CASE LoopStep
    BY <2>1, LoopStepRecords
  <2>2. CASE \E w \in DOMAIN waves : WaveStep(w)
    BY <2>2, WaveStepRecords
  <2>3. CASE Executes \/ ExecuteFails \/ Dropped \/ Foreign
    BY <2>3 DEF Executes, ExecuteFails, Dropped, Drop, Foreign, ForeignTransaction, Recorded
  <2>4. CASE \E w \in DOMAIN waves, c \in Chunks : ChunkFails(w, c)
    BY <2>4, WaveStepRecords
  <2>5. CASE WaveTimeout \/ RootFails
    BY <2>5 DEF WaveTimeout, Stall, RootFails, Recorded
  <2>6. CASE Crash \/ Restart \/ EditFile \/ UNCHANGED vars
    BY <2>6 DEF Crash, ClearAttempt, Restart, CleanupStaleManifests, LoadManifestForResume,
       EditFile, vars, Recorded
  <2> QED
    BY <2>1, <2>2, <2>3, <2>4, <2>5, <2>6 DEF Next, Trouble, Ended
<1>2. \A x : Stored(x) => Stored(x)'
  BY <1>1, StoredForEver DEF Typed
<1> QED
  BY <1>1, <1>2 DEF RecordedAreStored, Recorded

\* Whatever becomes of waves, clients, nonces and processes, the upload never
\* takes for stored what the chain does not hold: not in memory, not in what an
\* attempt resumes from, not in the manifest on disk.
THEOREM RecordsCorrect == Spec => []RecordedAreStored
<1>1. Init => RecordedAreStored
  BY DEF Init, RecordedAreStored
<1>2. Typed /\ RecordedAreStored /\ [Next]_vars => RecordedAreStored'
  BY StepRecords
<1> QED
  BY <1>1, <1>2, TypesAreKept, PTL DEF Spec

-----------------------------------------------------------------------------
(***************************************************************************)
(* The buffer: a wave is taken out of the queue and goes back to it, and   *)
(* only a loop without a wave reads another chunk.                         *)
(***************************************************************************)
NoWaveOutside == waveChunks # {} => pc \in {"wave", "refetch"}
BufferInv     == BufferBound /\ NoWaveOutside

LEMMA SmallerBuffer ==
  ASSUME Typed, BufferBound, queue' \union waveChunks' \subseteq queue \union waveChunks
  PROVE  BufferBound'
<1>1. queue \union waveChunks \subseteq Chunks
  BY DEF Typed, LoopType
<1>2. Cardinality(queue' \union waveChunks') <= Cardinality(queue \union waveChunks)
  BY <1>1, SomeChunksAreFinite, FS_Subset
<1>3. /\ Cardinality(queue' \union waveChunks') \in Nat
      /\ Cardinality(queue \union waveChunks) \in Nat
  BY <1>1, SomeChunksAreFinite
<1> QED
  BY <1>2, <1>3, MaxWindowType DEF BufferBound, Typed, LoopType

LEMMA EmptyBuffer ==
  ASSUME ClearAttempt
  PROVE  BufferInv'
BY FS_EmptySet, MaxWindowType DEF ClearAttempt, BufferInv, BufferBound, NoWaveOutside

LEMMA FailAttemptBuffer ==
  ASSUME NEW error, FailAttempt(error)
  PROVE  BufferInv'
BY EmptyBuffer DEF FailAttempt

LEMMA ReadChunkBuffer ==
  ASSUME Typed, BufferInv, ReadChunk
  PROVE  BufferInv'
<1>1. waveChunks = {} /\ waveChunks' = {}
  BY DEF ReadChunk, BufferInv, NoWaveOutside
<1>2. queue \subseteq Chunks /\ IsFiniteSet(queue) /\ Cardinality(queue) \in Nat
  BY SomeChunksAreFinite DEF Typed, LoopType
<1>3. Cardinality(queue) < MaxWindow
  BY DEF ReadChunk, QueueHasRoom
<1>4. CASE queue' = queue
  BY <1>1, <1>2, <1>3, <1>4, MaxWindowType DEF BufferInv, BufferBound, NoWaveOutside
<1>5. CASE queue' = queue \union {nextRead}
  <2>1. /\ Cardinality(queue') = Cardinality(queue) \/ Cardinality(queue') = Cardinality(queue) + 1
        /\ queue' \union waveChunks' = queue'
    BY <1>1, <1>2, <1>5, FS_AddElement
  <2> QED
    BY <1>1, <1>2, <1>3, <2>1, MaxWindowType DEF BufferInv, BufferBound, NoWaveOutside
<1> QED
  BY <1>4, <1>5 DEF ReadChunk

LEMMA LoopStepBuffer ==
  ASSUME Typed, BufferInv, LoopStep
  PROVE  BufferInv'
<1> USE DEF BufferInv, NoWaveOutside
<1>1. CASE StartAttempt \/ WaveCompletes
  BY <1>1, SmallerBuffer DEF StartAttempt, WaveCompletes
<1>2. CASE FetchStartNonce
  BY <1>2, SmallerBuffer, FailAttemptBuffer DEF FetchStartNonce
<1>3. CASE ReadChunk
  BY <1>3, ReadChunkBuffer
<1>4. CASE StartWave
  <2>1. queue' \union waveChunks' \subseteq queue \union waveChunks /\ pc' = "wave"
    BY <1>4, WaveIsPartOfQueue DEF StartWave
  <2> QED
    BY <2>1, SmallerBuffer
<1>5. CASE WaveThrows
  <2>1. CASE \E error : FailAttempt(error)
    BY <2>1, FailAttemptBuffer
  <2>2. CASE Stall(WithoutCurrent)
    BY <2>2, SmallerBuffer DEF Stall
  <2> QED
    BY <1>5, <2>1, <2>2 DEF WaveThrows
<1>6. CASE RequeueWave
  <2>1. CASE FailAttempt("timeout")
    BY <2>1, FailAttemptBuffer
  <2>2. CASE ~FailAttempt("timeout")
    BY <1>6, <2>2, SmallerBuffer DEF RequeueWave, Unconfirmed
  <2> QED
    BY <2>1, <2>2
<1>7. CASE StartRoot \/ RootThrows
  <2>1. CASE \E error : FailAttempt(error)
    BY <2>1, FailAttemptBuffer
  <2>2. CASE ~\E error : FailAttempt(error)
    BY <1>7, <2>2, SmallerBuffer DEF StartRoot, RootThrows
  <2> QED
    BY <2>1, <2>2
<1>8. CASE SubmitRoot \/ RootSettles \/ RootGivenUp \/ RetryRoot \/ PersistRoot
  BY <1>8, SmallerBuffer DEF SubmitRoot, RootSettles, RootGivenUp, RetryRoot, PersistRoot
<1>9. CASE DeleteManifest
  BY <1>9, EmptyBuffer DEF DeleteManifest
<1> QED
  BY <1>1, <1>2, <1>3, <1>4, <1>5, <1>6, <1>7, <1>8, <1>9 DEF LoopStep

LEMMA StepBuffer ==
  ASSUME Typed, BufferInv, [Next]_vars
  PROVE  BufferInv'
<1>1. CASE LoopStep
  BY <1>1, LoopStepBuffer
<1>2. CASE \/ \E w \in DOMAIN waves : WaveStep(w) \/ \E c \in Chunks : ChunkFails(w, c)
           \/ Executes \/ ExecuteFails \/ Dropped \/ Foreign \/ RootFails \/ UNCHANGED vars
  <2>1. UNCHANGED <<pc, queue, waveChunks>>
    BY <1>2 DEF WaveStep, SubmitChunk, ChunkSettles, ChunkGivenUp, ChunkFails, RetryLater, Resubmit,
       AbandonedWaveEnds, Executes, ExecuteFails, Dropped, Foreign, RootFails, vars
  <2> QED
    BY <2>1, SmallerBuffer DEF BufferInv, NoWaveOutside
<1>3. CASE WaveTimeout
  BY <1>3, SmallerBuffer DEF WaveTimeout, Stall, BufferInv, NoWaveOutside
<1>4. CASE Crash
  BY <1>4, EmptyBuffer DEF Crash
<1>5. CASE Restart \/ EditFile
  BY <1>5, SmallerBuffer DEF Restart, CleanupStaleManifests, EditFile, BufferInv, NoWaveOutside
<1> QED
  BY <1>1, <1>2, <1>3, <1>4, <1>5 DEF Next, Trouble, Ended

\* The upload's state stays within its types: windows are never empty, nonces never
\* negative, an upload never refers to chunks the file does not have, and however often
\* waves stall and are put back the loop never holds more chunks than the limit allows.
THEOREM TypeCorrect == Spec => []QueueTypeOK
<1>1. Init => BufferInv
  BY FS_EmptySet, MaxWindowType DEF Init, BufferInv, BufferBound, NoWaveOutside
<1>2. Typed /\ BufferInv /\ [Next]_vars => BufferInv'
  BY StepBuffer
<1>3. Typed /\ BufferInv => QueueTypeOK
  BY DEF BufferInv, QueueTypeOK
<1> QED
  BY <1>1, <1>2, <1>3, TypesAreKept, PTL DEF Spec
===============================================================================
