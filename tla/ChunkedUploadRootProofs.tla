------------------------ MODULE ChunkedUploadRootProofs ------------------------
(***************************************************************************)
(* Proofs about what ChunkedUpload records and publishes, for any file,    *)
(* any limits, and any number of misfortunes, crashes, restarts and edits: *)
(* no chunk is forgotten, a root links every chunk once, the published     *)
(* root is that of the file as it is, the manifest loses nothing that      *)
(* counts, and the upload implements AbstractUpload.                       *)
(***************************************************************************)
EXTENDS ChunkedUploadProofs

(***************************************************************************)
(* The inductive invariant, on top of those of ChunkedUploadProofs.        *)
(***************************************************************************)
Outside    == {"start", "failed", "down", "done"}
Attempting == {"nonce", "loop", "wave", "refetch", "root", "rootRetry", "persist"}
Publishing == {"root", "rootRetry"}

\* Locals of an attempt are fresh when it begins.
FreshOutside ==
    /\ pc \in Outside => completed = {}
    /\ pc \in Outside \union {"nonce"} => waves = <<>> /\ nextRead = 0

\* A map of blocks holds each chunk once.
Single(S) == \A x, y \in S : x[1] = y[1] => x = y
SingleRecords == Single(completed) /\ Single(manifest) /\ Single(resumed)

\* Only chunks of the stream are queued or sent.
Delivered == \A c \in queue \union waveChunks : c < nextRead

\* What the stream has passed is recorded with the bytes it has now.
CurrentOnes == \A x \in completed : x[1] < nextRead => x = Current(x[1])

\* A wave sends chunks the stream has delivered, and those it sent well are recorded.
WaveFits(st) ==
    \A c \in Chunks : /\ st[c] # "none" => c < nextRead
                      /\ st[c] = "ok" => c \in IndicesOf(completed)
WavesFit == \A w \in DOMAIN waves : WaveFits(waves[w].st)

\* The chunks the loop waits for are those of the last wave.
CurrentWave ==
    pc = "wave" => /\ Len(waves) > 0
                   /\ \A c \in waveChunks : waves[Len(waves)].st[c] # "none"

\* The root is built when the stream has ended and every chunk is recorded.
RootReady ==
    pc \in Publishing => nextRead > NumChunks /\ Chunks \subseteq IndicesOf(completed)

\* An attempt that may take over what the manifest keeps, and can, has done so.
Resuming == {"read", "old"}
Saved ==
    /\ pc = "start" /\ load \in Resuming => manifest \subseteq resumed
    /\ pc \in Attempting => \A x \in manifest : x = Current(x[1]) => x \in completed

\* A part of the invariant that is about one attempt.
AttemptInv ==
    /\ FreshOutside /\ SingleRecords /\ Delivered /\ CurrentOnes /\ WavesFit /\ CurrentWave
    /\ NoChunkForgotten /\ RootReady /\ Saved

USE DEF submissionFrame, rootFrame, nodeFrame, diskVars, commandVars, windowVars,
        markVars, rootVars, boundVars, attemptVars, accountVars

(***************************************************************************)
(* Steps that several actors share.                                        *)
(***************************************************************************)
LEMMA Cleared ==
  ASSUME ClearAttempt, pc' \in Outside, Single(manifest'), Single(resumed'),
         pc' = "start" /\ load' \in Resuming => manifest' \subseteq resumed'
  PROVE  AttemptInv'
<1>1. completed' = {} /\ waves' = <<>> /\ nextRead' = 0 /\ queue' \union waveChunks' = {}
  BY DEF ClearAttempt
<1>2. FreshOutside' /\ SingleRecords' /\ Delivered' /\ CurrentOnes'
  BY <1>1 DEF FreshOutside, SingleRecords, Single, Delivered, CurrentOnes
<1>3. WavesFit' /\ CurrentWave' /\ RootReady'
  BY <1>1 DEF WavesFit, CurrentWave, RootReady, Outside, Publishing
<1>4. NoChunkForgotten'
  BY <1>1, SizesAssumption DEF NoChunkForgotten, Chunks
<1>5. Saved'
  BY DEF Saved, Outside, Attempting
<1> QED
  BY <1>2, <1>3, <1>4, <1>5 DEF AttemptInv

LEMMA MergedIsSingle ==
  ASSUME NEW S, NEW T, Single(S), Single(T)
  PROVE  Single(Merge(S, T)) /\ T \subseteq Merge(S, T)
BY DEF Single, Merge, IndicesOf

LEMMA FailAttemptKeeps ==
  ASSUME Typed, AttemptInv, NEW error, FailAttempt(error)
  PROVE  AttemptInv'
<1>1. Single(manifest) /\ Single(resumed) /\ manifest' = manifest
  BY DEF AttemptInv, SingleRecords, FailAttempt
<1>2. ClearAttempt /\ pc' \in Outside
  BY DEF FailAttempt, Outside
<1>3. Single(resumed') /\ (pc' = "start" /\ load' \in Resuming => manifest' \subseteq resumed')
  BY <1>1, MergedIsSingle DEF FailAttempt, LoadForRetry, Resuming
<1> QED
  BY <1>1, <1>2, <1>3, Cleared

\* A step of the loop that leaves the recorded chunks and the waves alone.
LEMMA LoopMoves ==
  ASSUME AttemptInv, UNCHANGED <<completed, manifest, resumed, version, nextRead, waves>>,
         pc \notin Outside, pc' \notin Outside \union {"nonce", "wave", "start"},
         queue' \union waveChunks' \subseteq queue \union waveChunks,
         queue \union waveChunks \subseteq queue' \union waveChunks' \union IndicesOf(completed),
         pc' \in Publishing => nextRead > NumChunks /\ Chunks \subseteq IndicesOf(completed),
         pc' \in Attempting => pc \in Attempting
  PROVE  AttemptInv'
<1>1. FreshOutside' /\ SingleRecords' /\ Delivered'
  BY DEF AttemptInv, FreshOutside, SingleRecords, Delivered, Outside
<1>2. CurrentOnes'
  BY DEF AttemptInv, CurrentOnes, Current
<1>3. WavesFit' /\ CurrentWave'
  BY DEF AttemptInv, WavesFit, WaveFits, CurrentWave
<1>4. NoChunkForgotten'
  BY DEF AttemptInv, NoChunkForgotten, Running, Outside, IndicesOf
<1>5. RootReady' /\ Saved'
  BY DEF AttemptInv, RootReady, Saved, Current, IndicesOf, Outside
<1> QED
  BY <1>1, <1>2, <1>3, <1>4, <1>5 DEF AttemptInv

\* What becomes of the waves: none is in a state the chunks do not justify.
LEMMA OrphanedFits ==
  ASSUME NEW i \in DOMAIN waves, NEW w, w = OrphanedWave(waves[i]), WavesType, WaveFits(waves[i].st)
  PROVE  /\ WaveFits(w.st)
         /\ \A c \in Chunks : w.st[c] # "none" <=> waves[i].st[c] # "none"
<1>1. waves[i] \in WaveRecords
  BY WaveRecordType
<1>2. w.st = [c \in Chunks |-> Orphaned(waves[i].st[c])]
  BY <1>1 DEF OrphanedWave, WaveRecords, WaveFields
<1> QED
  BY <1>2 DEF WaveFits, Orphaned

LEMMA OrphanedAllFit ==
  ASSUME WavesType, WavesFit
  PROVE  /\ \A i \in DOMAIN OrphanAll(waves) : WaveFits(OrphanAll(waves)[i].st)
         /\ \A i \in DOMAIN OrphanAll(WithoutCurrent) : WaveFits(OrphanAll(WithoutCurrent)[i].st)
<1>1. ASSUME NEW i \in DOMAIN OrphanAll(waves) PROVE WaveFits(OrphanAll(waves)[i].st)
  <2>1. i \in DOMAIN waves /\ OrphanAll(waves)[i] = OrphanedWave(waves[i])
    BY DEF OrphanAll
  <2> QED
    BY <2>1, OrphanedFits DEF WavesFit
<1>2. ASSUME NEW i \in DOMAIN OrphanAll(WithoutCurrent)
      PROVE  WaveFits(OrphanAll(WithoutCurrent)[i].st)
  <2>1. i \in DOMAIN WithoutCurrent /\ OrphanAll(WithoutCurrent)[i] = OrphanedWave(WithoutCurrent[i])
    BY DEF OrphanAll
  <2>2. i \in DOMAIN waves /\ WithoutCurrent[i] = waves[i]
    BY <2>1 DEF WithoutCurrent, WavesType
  <2> QED
    BY <2>1, <2>2, OrphanedFits DEF WavesFit
<1> QED
  BY <1>1, <1>2

LEMMA StallKeeps ==
  ASSUME Typed, AttemptInv, pc = "wave", UNCHANGED accountVars,
         Stall(waves) \/ Stall(WithoutCurrent)
  PROVE  AttemptInv'
<1>1. /\ pc' = "refetch"
      /\ UNCHANGED <<completed, manifest, resumed, version, nextRead, queue, waveChunks, attempt>>
  BY DEF Stall
<1>2. WavesFit'
  <2>1. \A i \in DOMAIN waves' : WaveFits(waves'[i].st)
    BY OrphanedAllFit DEF Stall, Typed, AttemptInv
  <2>2. \A st : WaveFits(st)' <=> WaveFits(st)
    BY <1>1 DEF WaveFits
  <2> QED
    BY <2>1, <2>2 DEF WavesFit
<1>3. FreshOutside' /\ SingleRecords' /\ Delivered' /\ CurrentOnes'
  BY <1>1 DEF AttemptInv, FreshOutside, SingleRecords, Delivered, CurrentOnes, Current, Outside
<1>4. CurrentWave' /\ RootReady'
  BY <1>1 DEF CurrentWave, RootReady, Publishing
<1>5. NoChunkForgotten'
  BY <1>1 DEF AttemptInv, NoChunkForgotten, Running
<1>6. Saved'
  BY <1>1 DEF AttemptInv, Saved, Attempting, Current
<1> QED
  BY <1>2, <1>3, <1>4, <1>5, <1>6 DEF AttemptInv

(***************************************************************************)
(* The loop.                                                               *)
(***************************************************************************)
LEMMA StartAttemptKeeps ==
  ASSUME Typed, AttemptInv, StartAttempt
  PROVE  AttemptInv'
<1>1. /\ pc = "start" /\ pc' = "nonce" /\ completed' = resumed /\ manifest' = resumed /\ resumed' = resumed
      /\ UNCHANGED <<version, nextRead, queue, waveChunks, waves>>
  BY DEF StartAttempt
<1>2. waves = <<>> /\ nextRead = 0
  BY <1>1 DEF AttemptInv, FreshOutside, Outside
<1>3. FreshOutside' /\ SingleRecords' /\ Delivered'
  BY <1>1, <1>2 DEF AttemptInv, FreshOutside, SingleRecords, Delivered, Outside
<1>4. CurrentOnes'
  <2>1. resumed \subseteq Pairs
    BY DEF Typed, RecordType
  <2> QED
    BY <1>1, <1>2, <2>1, SizesAssumption DEF CurrentOnes, Pairs, Chunks
<1>5. WavesFit' /\ CurrentWave' /\ RootReady'
  BY <1>1, <1>2 DEF WavesFit, CurrentWave, RootReady, Publishing
<1>6. NoChunkForgotten'
  BY <1>1, <1>2, SizesAssumption DEF NoChunkForgotten, Chunks
<1>7. Saved'
  BY <1>1 DEF Saved
<1> QED
  BY <1>3, <1>4, <1>5, <1>6, <1>7 DEF AttemptInv

LEMMA ReadChunkKeeps ==
  ASSUME Typed, AttemptInv, ReadChunk
  PROVE  AttemptInv'
<1>1. /\ pc = "loop" /\ pc' = "loop" /\ nextRead' = nextRead + 1 /\ nextRead \in 0..NumChunks
      /\ UNCHANGED <<version, manifest, resumed, attempt, waveChunks, waves>>
      /\ completed \subseteq Pairs /\ completed' \subseteq completed
  BY SizesAssumption DEF ReadChunk, endOfStream, Typed, LoopType, RecordType
<1>2. nextRead # NumChunks => nextRead \in Chunks
  BY <1>1, SizesAssumption DEF Chunks
<1>3. \A x \in completed : x[1] # nextRead => x \in completed'
  BY DEF ReadChunk
<1>4. \A x \in completed : x = Current(x[1]) => x \in completed'
  BY DEF ReadChunk, AlreadyCompleted
<1>5. FreshOutside' /\ SingleRecords'
  BY <1>1 DEF AttemptInv, FreshOutside, SingleRecords, Single, Outside
<1>6. Delivered'
  <2>1. queue' \subseteq queue \union {nextRead}
    BY DEF ReadChunk
  <2>2. queue \union waveChunks \subseteq Chunks
    BY DEF Typed, LoopType
  <2> QED
    BY <1>1, <2>1, <2>2, SizesAssumption DEF AttemptInv, Delivered, Chunks
<1>7. CurrentOnes'
  <2> SUFFICES ASSUME NEW x \in completed', x[1] < nextRead + 1 PROVE x = Current(x[1])
    BY <1>1 DEF CurrentOnes, Current
  <2>1. x[1] \in 0..(NumChunks - 1)
    BY <1>1 DEF Pairs, Chunks
  <2>2. CASE x[1] < nextRead
    BY <1>1, <2>2 DEF AttemptInv, CurrentOnes
  <2>3. CASE x[1] = nextRead
    <3>1. nextRead # NumChunks
      BY <2>1, <2>3, SizesAssumption
    <3>2. Current(nextRead) \in completed /\ completed' = completed
      BY <2>3, <3>1 DEF ReadChunk, AlreadyCompleted
    <3>3. Current(nextRead)[1] = x[1]
      BY <2>3 DEF Current
    <3> QED
      BY <1>1, <2>3, <3>2, <3>3 DEF AttemptInv, SingleRecords, Single
  <2> QED
    BY <1>1, <2>1, <2>2, <2>3, SizesAssumption
<1>8. WavesFit'
  <2> SUFFICES ASSUME NEW w \in DOMAIN waves PROVE WaveFits(waves[w].st)'
    BY <1>1 DEF WavesFit
  <2>1. WaveFits(waves[w].st)
    BY DEF AttemptInv, WavesFit
  <2>2. ASSUME NEW c \in Chunks, waves[w].st[c] = "ok" PROVE c \in IndicesOf(completed')
    <3>1. c < nextRead /\ c \in IndicesOf(completed)
      BY <2>1, <2>2 DEF WaveFits
    <3>2. c # nextRead
      BY <1>1, <3>1, SizesAssumption DEF Chunks
    <3> QED
      BY <1>3, <3>1, <3>2 DEF IndicesOf
  <2>3. \A c \in Chunks : c < nextRead => c < nextRead + 1
    BY <1>1, SizesAssumption DEF Chunks
  <2> QED
    BY <1>1, <2>1, <2>2, <2>3 DEF WaveFits
<1>9. CurrentWave' /\ RootReady'
  BY <1>1 DEF CurrentWave, RootReady, Publishing
<1>10. NoChunkForgotten'
  <2> SUFFICES ASSUME NEW c \in Chunks, c < nextRead + 1
               PROVE  c \in queue' \union waveChunks \union IndicesOf(completed')
    BY <1>1 DEF NoChunkForgotten
  <2>1. queue \subseteq queue' /\ c \in 0..(NumChunks - 1)
    BY DEF ReadChunk, Chunks
  <2>2. CASE c < nextRead
    <3>1. c \in queue \union waveChunks \union IndicesOf(completed)
      BY <1>1, <2>2 DEF AttemptInv, NoChunkForgotten, Running
    <3>2. c # nextRead
      BY <1>1, <2>1, <2>2
    <3> QED
      BY <1>3, <2>1, <3>1, <3>2 DEF IndicesOf
  <2>3. CASE c = nextRead
    <3>1. nextRead # NumChunks
      BY <2>1, <2>3, SizesAssumption
    <3>2. \/ nextRead \in queue'
          \/ Current(nextRead) \in completed'
      BY <3>1 DEF ReadChunk, AlreadyCompleted
    <3> QED
      BY <2>3, <3>2 DEF IndicesOf, Current
  <2> QED
    BY <1>1, <2>1, <2>2, <2>3, SizesAssumption
<1>11. Saved'
  BY <1>1, <1>4 DEF AttemptInv, Saved, Attempting, Current
<1> QED
  BY <1>5, <1>6, <1>7, <1>8, <1>9, <1>10, <1>11 DEF AttemptInv

LEMMA StartWaveKeeps ==
  ASSUME Typed, BufferInv, AttemptInv, StartWave
  PROVE  AttemptInv'
<1> DEFINE W == SelectWaveChunks(queue, window, ChunkLength, MaxInFlightBytes)
<1>1. /\ pc = "loop" /\ pc' = "wave" /\ queue' = queue \ W /\ waveChunks' = W
      /\ waves' = Append(waves, NewWave(W))
      /\ UNCHANGED <<completed, manifest, resumed, version, nextRead, attempt>>
  BY DEF StartWave
<1>2. W \subseteq queue /\ waveChunks = {} /\ queue \subseteq Chunks
  BY <1>1, WaveIsPartOfQueue DEF BufferInv, NoWaveOutside, Typed, LoopType
<1> HIDE DEF W
<1>3. FreshOutside' /\ SingleRecords' /\ Delivered' /\ CurrentOnes'
  BY <1>1, <1>2 DEF AttemptInv, FreshOutside, SingleRecords, Delivered, CurrentOnes, Current, Outside
<1>4. \A c \in Chunks : NewWave(W).st[c] = IF c \in W THEN "sent" ELSE "none"
  BY DEF NewWave
<1>5. WaveFits(NewWave(W).st)
  BY <1>1, <1>2, <1>4 DEF AttemptInv, Delivered, WaveFits
<1>6. waves \in Seq(WaveRecords) /\ Len(waves') = Len(waves) + 1 /\ waves'[Len(waves')] = NewWave(W)
  BY <1>1 DEF Typed, WavesType
<1>7. WavesFit'
  <2> SUFFICES ASSUME NEW w \in DOMAIN waves' PROVE WaveFits(waves'[w].st)
    BY <1>1 DEF WavesFit, WaveFits
  <2>1. CASE w = Len(waves) + 1
    BY <1>5, <1>6, <2>1
  <2>2. CASE w # Len(waves) + 1
    <3>1. w \in DOMAIN waves /\ waves'[w] = waves[w]
      BY <1>1, <1>6, <2>2
    <3> QED
      BY <3>1 DEF AttemptInv, WavesFit
  <2> QED
    BY <2>1, <2>2
<1>8. CurrentWave'
  BY <1>1, <1>2, <1>4, <1>6 DEF CurrentWave
<1>9. NoChunkForgotten'
  BY <1>1, <1>2 DEF AttemptInv, NoChunkForgotten, Running
<1>10. RootReady' /\ Saved'
  BY <1>1 DEF AttemptInv, RootReady, Saved, Publishing, Attempting, Current
<1> QED
  BY <1>3, <1>7, <1>8, <1>9, <1>10 DEF AttemptInv

LEMMA WaveCompletesKeeps ==
  ASSUME Typed, AttemptInv, WaveCompletes
  PROVE  AttemptInv'
<1>1. /\ pc = "wave" /\ pc' = "loop" /\ manifest' = completed /\ waveChunks' = {}
      /\ waves' = WithoutCurrent /\ Settled(Len(waves)) /\ Failures(Len(waves)) = {}
      /\ UNCHANGED <<completed, resumed, version, nextRead, queue, attempt>>
  BY DEF WaveCompletes
<1>2. Len(waves) \in DOMAIN waves /\ waves \in Seq(WaveRecords)
  BY <1>1 DEF AttemptInv, CurrentWave, Typed, WavesType
<1>3. waveChunks \subseteq IndicesOf(completed)
  <2> SUFFICES ASSUME NEW c \in waveChunks PROVE c \in IndicesOf(completed)
    OBVIOUS
  <2>1. c \in Chunks /\ waves[Len(waves)] \in WaveRecords
    BY <1>2, WaveRecordType DEF Typed, LoopType
  <2>2. waves[Len(waves)].st[c] \in SubStates
    BY <2>1 DEF WaveRecords, WaveFields
  <2>3. waves[Len(waves)].st[c] = "ok"
    BY <1>1, <2>1, <2>2 DEF Settled, Failures, SubStates, AttemptInv, CurrentWave
  <2> QED
    BY <1>2, <2>1, <2>3 DEF AttemptInv, WavesFit, WaveFits
<1>4. FreshOutside' /\ SingleRecords' /\ Delivered' /\ CurrentOnes'
  BY <1>1 DEF AttemptInv, FreshOutside, SingleRecords, Delivered, CurrentOnes, Current, Outside
<1>5. WavesFit'
  <2> SUFFICES ASSUME NEW w \in DOMAIN WithoutCurrent PROVE WaveFits(WithoutCurrent[w].st)
    BY <1>1 DEF WavesFit, WaveFits
  <2>1. w \in DOMAIN waves /\ WithoutCurrent[w] = waves[w]
    BY <1>2 DEF WithoutCurrent
  <2> QED
    BY <2>1 DEF AttemptInv, WavesFit
<1>6. NoChunkForgotten'
  BY <1>1, <1>3 DEF AttemptInv, NoChunkForgotten, Running
<1>7. CurrentWave' /\ RootReady' /\ Saved'
  BY <1>1 DEF CurrentWave, RootReady, Saved, Publishing
<1> QED
  BY <1>4, <1>5, <1>6, <1>7 DEF AttemptInv

\* The root's retry takes a new client: the abandoned waves hear nothing more.
LEMMA RetryRootKeeps ==
  ASSUME Typed, AttemptInv, RetryRoot
  PROVE  AttemptInv'
<1>1. /\ pc = "rootRetry" /\ pc' = "root"
      /\ UNCHANGED <<completed, manifest, resumed, version, nextRead, queue, waveChunks, attempt>>
      /\ waves' = OrphanAll(waves) \/ waves' = waves
  BY DEF RetryRoot
<1>2. WavesFit'
  <2>1. \A i \in DOMAIN waves' : WaveFits(waves'[i].st)
    BY <1>1, OrphanedAllFit DEF Typed, AttemptInv, WavesFit
  <2> QED
    BY <1>1, <2>1 DEF WavesFit, WaveFits
<1>3. FreshOutside' /\ SingleRecords' /\ Delivered' /\ CurrentOnes' /\ CurrentWave'
  BY <1>1 DEF AttemptInv, FreshOutside, SingleRecords, Delivered, CurrentOnes, Current, Outside, CurrentWave
<1>4. NoChunkForgotten' /\ RootReady' /\ Saved'
  BY <1>1 DEF AttemptInv, NoChunkForgotten, Running, RootReady, Publishing, Saved, Attempting, Current
<1> QED
  BY <1>2, <1>3, <1>4 DEF AttemptInv

LEMMA LoopStepKeeps ==
  ASSUME Typed, BufferInv, AttemptInv, LoopStep
  PROVE  AttemptInv'
<1>1. CASE \E error : FailAttempt(error)
  BY <1>1, FailAttemptKeeps
<1>2. CASE StartAttempt \/ ReadChunk \/ StartWave \/ WaveCompletes \/ RetryRoot
  BY <1>2, StartAttemptKeeps, ReadChunkKeeps, StartWaveKeeps, WaveCompletesKeeps, RetryRootKeeps
<1>3. CASE FetchStartNonce /\ ~FailAttempt("timeout")
  <2>1. /\ pc = "nonce" /\ pc' = "loop"
        /\ UNCHANGED <<completed, manifest, resumed, version, nextRead, waves, queue, waveChunks>>
    BY <1>3 DEF FetchStartNonce
  <2> QED
    BY <2>1, LoopMoves DEF Outside, Publishing, Attempting
<1>4. CASE WaveThrows /\ ~\E error : FailAttempt(error)
  BY <1>4, StallKeeps DEF WaveThrows
<1>5. CASE RequeueWave /\ ~FailAttempt("timeout")
  <2>1. /\ pc = "refetch" /\ pc' = "loop" /\ queue' = queue \union Unconfirmed /\ waveChunks' = {}
        /\ UNCHANGED <<completed, manifest, resumed, version, nextRead, waves>>
    BY <1>5 DEF RequeueWave
  <2> QED
    BY <2>1, LoopMoves DEF Outside, Publishing, Attempting, Unconfirmed
<1>6. CASE StartRoot /\ ~FailAttempt("fatal")
  <2>1. /\ pc = "loop" /\ pc' = "root" /\ nextRead > NumChunks /\ Chunks \subseteq IndicesOf(completed)
        /\ UNCHANGED <<completed, manifest, resumed, version, nextRead, waves, queue, waveChunks>>
    BY <1>6 DEF StartRoot, endOfStream
  <2> QED
    BY <2>1, LoopMoves DEF Outside, Attempting
<1>7. CASE SubmitRoot \/ RootSettles \/ RootGivenUp \/ (RootThrows /\ ~\E error : FailAttempt(error))
  <2>1. /\ pc = "root" /\ pc' \in {"root", "rootRetry", "persist"}
        /\ UNCHANGED <<completed, manifest, resumed, version, nextRead, waves, queue, waveChunks>>
    BY <1>7 DEF SubmitRoot, RootSettles, RootGivenUp, RootThrows
  <2>2. nextRead > NumChunks /\ Chunks \subseteq IndicesOf(completed)
    BY <2>1 DEF AttemptInv, RootReady, Publishing
  <2> QED
    BY <2>1, <2>2, LoopMoves DEF Outside, Attempting
<1>8. CASE PersistRoot
  <2>1. /\ pc = "persist" /\ pc' = "cleanup" /\ manifest' = completed
        /\ UNCHANGED <<completed, resumed, version, nextRead, waves, queue, waveChunks, attempt>>
    BY <1>8 DEF PersistRoot
  <2>2. FreshOutside' /\ SingleRecords' /\ Delivered' /\ CurrentOnes' /\ WavesFit' /\ CurrentWave'
    BY <2>1 DEF AttemptInv, FreshOutside, SingleRecords, Delivered, CurrentOnes, Current, Outside, WavesFit,
                WaveFits, CurrentWave
  <2>3. NoChunkForgotten' /\ RootReady' /\ Saved'
    BY <2>1 DEF AttemptInv, NoChunkForgotten, Running, RootReady, Publishing, Saved, Attempting
  <2> QED
    BY <2>2, <2>3 DEF AttemptInv
<1>9. CASE DeleteManifest
  <2>1. ClearAttempt /\ pc' = "done" /\ manifest' = {} /\ resumed' = resumed
    BY <1>9 DEF DeleteManifest
  <2> QED
    BY <2>1, Cleared DEF Outside, Single, AttemptInv, SingleRecords
<1> QED
  BY <1>1, <1>2, <1>3, <1>4, <1>5, <1>6, <1>7, <1>8, <1>9 DEF LoopStep

(***************************************************************************)
(* The waves, current or abandoned.                                        *)
(***************************************************************************)
Marks(c) == completed' = {x \in completed : x[1] # c} \union {Current(c)}

LEMMA SetSubEffect ==
  ASSUME WavesType, NEW w \in DOMAIN waves, NEW c \in Chunks, NEW out, SetSub(w, c, out)
  PROVE  LET r == [waves[w] EXCEPT !.st[c] = out] IN
         /\ waves' = [waves EXCEPT ![w] = r]
         /\ r.st[c] = out /\ \A d \in Chunks \ {c} : r.st[d] = waves[w].st[d]
<1>1. waves[w] \in WaveRecords /\ waves \in Seq(WaveRecords)
  BY WaveRecordType DEF WavesType
<1> QED
  BY <1>1 DEF SetSub, WaveRecords, WaveFields

\* A submission that was sent is still one, and succeeds only when its chunk is recorded.
LEMMA WaveStepEffect ==
  ASSUME Typed, NEW w \in DOMAIN waves, WaveStep(w) \/ \E c \in Chunks : ChunkFails(w, c)
  PROVE  /\ UNCHANGED <<manifest, resumed, version, nextRead, queue, waveChunks, pc, attempt>>
         /\ UNCHANGED completed \/ \E c \in Chunks : Marks(c)
         /\ \E r : /\ waves' = [waves EXCEPT ![w] = r]
                   /\ \A d \in Chunks :
                         /\ r.st[d] # "none" => waves[w].st[d] # "none"
                         /\ IsCurrent(w) /\ waves[w].st[d] # "none" => r.st[d] # "none"
                         /\ r.st[d] = "ok" => waves[w].st[d] = "ok" \/ Marks(d)
<1>1. UNCHANGED <<manifest, resumed, version, nextRead, queue, waveChunks, pc, attempt>>
  BY DEF WaveStep, SubmitChunk, ChunkSettles, ChunkGivenUp, ChunkFails, RetryLater, Resubmit,
         AbandonedWaveEnds
<1>2. WavesType /\ waves[w] \in WaveRecords
  BY WaveRecordType DEF Typed
<1>3. ASSUME NEW c \in Chunks, NEW out, out # "none", waves[w].st[c] # "none", SetSub(w, c, out),
             \/ out = "ok" /\ Marks(c)
             \/ out # "ok" /\ UNCHANGED completed
      PROVE  /\ UNCHANGED completed \/ \E d \in Chunks : Marks(d)
             /\ \E r : /\ waves' = [waves EXCEPT ![w] = r]
                       /\ \A d \in Chunks :
                             /\ r.st[d] # "none" => waves[w].st[d] # "none"
                             /\ IsCurrent(w) /\ waves[w].st[d] # "none" => r.st[d] # "none"
                             /\ r.st[d] = "ok" => waves[w].st[d] = "ok" \/ Marks(d)
  <2> DEFINE r == [waves[w] EXCEPT !.st[c] = out]
  <2>1. /\ waves' = [waves EXCEPT ![w] = r]
        /\ r.st[c] = out /\ \A d \in Chunks \ {c} : r.st[d] = waves[w].st[d]
    BY <1>2, <1>3, SetSubEffect
  <2> HIDE DEF r
  <2>2. ASSUME NEW d \in Chunks
        PROVE  /\ r.st[d] # "none" => waves[w].st[d] # "none"
               /\ IsCurrent(w) /\ waves[w].st[d] # "none" => r.st[d] # "none"
               /\ r.st[d] = "ok" => waves[w].st[d] = "ok" \/ Marks(d)
    <3>1. CASE d = c
      BY <1>3, <2>1, <3>1
    <3>2. CASE d # c
      BY <2>1, <3>2
    <3> QED
      BY <3>1, <3>2
  <2>3. UNCHANGED completed \/ \E d \in Chunks : Marks(d)
    BY <1>3
  <2> QED
    BY <2>1, <2>2, <2>3
<1>4. ASSUME NEW c \in Chunks, SubmitChunk(w, c) \/ ChunkSettles(w, c) \/ ChunkGivenUp(w, c) \/ ChunkFails(w, c)
      PROVE  \E out : /\ out # "none" /\ waves[w].st[c] # "none" /\ SetSub(w, c, out)
                      /\ \/ out = "ok" /\ Marks(c)
                         \/ out # "ok" /\ UNCHANGED completed
  <2>1. CASE SubmitChunk(w, c)
    BY <2>1 DEF SubmitChunk, Submit
  <2>2. CASE ChunkSettles(w, c)
    BY <2>2 DEF ChunkSettles, MarkCompleted, Marks
  <2>3. CASE ChunkGivenUp(w, c)
    BY <2>3 DEF ChunkGivenUp
  <2>4. CASE ChunkFails(w, c)
    BY <2>4, FaultsAssumption DEF ChunkFails
  <2> QED
    BY <1>4, <2>1, <2>2, <2>3, <2>4
<1>5. CASE RetryLater(w)
  <2> DEFINE r == [waves[w] EXCEPT !.phase = "sleep"]
  <2>1. waves' = [waves EXCEPT ![w] = r] /\ UNCHANGED completed
    BY <1>5 DEF RetryLater
  <2>2. r.st = waves[w].st
    BY <1>2 DEF WaveRecords, WaveFields
  <2> HIDE DEF r
  <2> QED
    BY <1>1, <2>1, <2>2
<1>6. CASE Resubmit(w)
  <2> DEFINE r == Resubmitted(waves[w])
  <2>1. waves' = [waves EXCEPT ![w] = r] /\ UNCHANGED completed
    BY <1>6 DEF Resubmit
  <2>2. \A d \in Chunks : r.st[d] = IF waves[w].st[d] \in Errors THEN "sent" ELSE waves[w].st[d]
    BY <1>2 DEF WaveRecords, WaveFields, Resubmitted
  <2> HIDE DEF r
  <2> QED
    BY <1>1, <2>1, <2>2 DEF Errors, UploadRetryable
<1>7. CASE AbandonedWaveEnds(w)
  <2>1. waves' = [waves EXCEPT ![w] = EndedWave] /\ UNCHANGED completed /\ ~IsCurrent(w)
    BY <1>7 DEF AbandonedWaveEnds
  <2>2. \A d \in Chunks : EndedWave.st[d] = "none"
    BY DEF EndedWave
  <2> QED
    BY <1>1, <2>1, <2>2
<1>8. CASE \E c \in Chunks : SubmitChunk(w, c) \/ ChunkSettles(w, c) \/ ChunkGivenUp(w, c) \/ ChunkFails(w, c)
  <2>1. PICK c \in Chunks : \E out :
           /\ out # "none" /\ waves[w].st[c] # "none" /\ SetSub(w, c, out)
           /\ \/ out = "ok" /\ Marks(c)
              \/ out # "ok" /\ UNCHANGED completed
    BY <1>4, <1>8
  <2> QED
    BY <1>1, <1>3, <2>1
<1> QED
  BY <1>5, <1>6, <1>7, <1>8 DEF WaveStep

LEMMA MarksEffect ==
  ASSUME Typed, AttemptInv, NEW c \in Chunks, Marks(c)
  PROVE  /\ Single(completed') /\ IndicesOf(completed) \union {c} \subseteq IndicesOf(completed')
         /\ \A x \in completed' : x \in completed \/ x = Current(x[1])
         /\ \A x \in completed : x = Current(x[1]) => x \in completed'
<1>1. Current(c)[1] = c
  BY DEF Current
<1> QED
  BY <1>1 DEF Marks, AttemptInv, SingleRecords, Single, IndicesOf

LEMMA WaveStepKeeps ==
  ASSUME Typed, AttemptInv, NEW w \in DOMAIN waves,
         WaveStep(w) \/ \E c \in Chunks : ChunkFails(w, c)
  PROVE  AttemptInv'
<1>1. /\ UNCHANGED <<manifest, resumed, version, nextRead, queue, waveChunks, pc, attempt>>
      /\ UNCHANGED completed \/ \E c \in Chunks : Marks(c)
  BY WaveStepEffect
<1>2. PICK r : /\ waves' = [waves EXCEPT ![w] = r]
               /\ \A d \in Chunks :
                     /\ r.st[d] # "none" => waves[w].st[d] # "none"
                     /\ IsCurrent(w) /\ waves[w].st[d] # "none" => r.st[d] # "none"
                     /\ r.st[d] = "ok" => waves[w].st[d] = "ok" \/ Marks(d)
  BY WaveStepEffect
<1>3. waves \in Seq(WaveRecords) /\ waves # <<>>
  BY DEF Typed, WavesType
<1>4. pc \notin Outside \union {"nonce"}
  BY <1>3 DEF AttemptInv, FreshOutside
<1>5. /\ Single(completed') /\ IndicesOf(completed) \subseteq IndicesOf(completed')
      /\ \A x \in completed' : x \in completed \/ x = Current(x[1])
      /\ \A x \in completed : x = Current(x[1]) => x \in completed'
  BY <1>1, MarksEffect DEF AttemptInv, SingleRecords
<1>6. FreshOutside' /\ SingleRecords' /\ Delivered' /\ CurrentOnes'
  BY <1>1, <1>4, <1>5 DEF AttemptInv, FreshOutside, SingleRecords, Delivered, CurrentOnes, Current
<1>7. WavesFit'
  <2>1. ASSUME NEW d \in Chunks, Marks(d) PROVE d \in IndicesOf(completed')
    BY <2>1, MarksEffect
  <2>2. WaveFits(r.st)'
    BY <1>1, <1>2, <1>5, <2>1 DEF AttemptInv, WavesFit, WaveFits
  <2>3. ASSUME NEW v \in DOMAIN waves, v # w PROVE WaveFits(waves[v].st)'
    BY <1>1, <1>2, <1>3, <1>5, <2>3 DEF AttemptInv, WavesFit, WaveFits
  <2> QED
    BY <1>2, <1>3, <2>2, <2>3 DEF WavesFit, WaveFits
<1>8. CurrentWave'
  <2>1. waveChunks \subseteq Chunks /\ Len(waves') = Len(waves)
    BY <1>2, <1>3 DEF Typed, LoopType
  <2>2. CASE pc = "wave" /\ w = Len(waves)
    BY <1>1, <1>2, <1>3, <2>1, <2>2 DEF AttemptInv, CurrentWave, IsCurrent
  <2>3. CASE ~(pc = "wave" /\ w = Len(waves))
    BY <1>1, <1>2, <1>3, <2>1, <2>3 DEF AttemptInv, CurrentWave
  <2> QED
    BY <2>2, <2>3
<1>9. NoChunkForgotten'
  BY <1>1, <1>5 DEF AttemptInv, NoChunkForgotten, Running
<1>10. RootReady' /\ Saved'
  BY <1>1, <1>4, <1>5 DEF AttemptInv, RootReady, Saved, Current, Outside
<1> QED
  BY <1>6, <1>7, <1>8, <1>9, <1>10 DEF AttemptInv

LEMMA StepKeepsAttempt ==
  ASSUME Typed, BufferInv, AttemptInv, [Next]_vars
  PROVE  AttemptInv'
<1>1. CASE LoopStep
  BY <1>1, LoopStepKeeps
<1>2. CASE \E w \in DOMAIN waves : WaveStep(w) \/ \E c \in Chunks : ChunkFails(w, c)
  BY <1>2, WaveStepKeeps
<1>3. CASE WaveTimeout
  BY <1>3, StallKeeps DEF WaveTimeout
<1>4. CASE Executes \/ ExecuteFails \/ Dropped \/ Foreign \/ RootFails \/ UNCHANGED vars
  <2>1. UNCHANGED <<diskVars, pc, commandVars, completed, nextRead, queue, waveChunks, waves>>
    BY <1>4 DEF Executes, ExecuteFails, Dropped, Foreign, RootFails, vars
  <2>2. FreshOutside' /\ SingleRecords' /\ Delivered' /\ CurrentOnes' /\ CurrentWave'
    BY <2>1 DEF AttemptInv, FreshOutside, SingleRecords, Delivered, CurrentOnes, Current, CurrentWave
  <2>3. WavesFit' /\ NoChunkForgotten' /\ RootReady' /\ Saved'
    BY <2>1 DEF AttemptInv, WavesFit, WaveFits, NoChunkForgotten, Running, RootReady, Saved, Current
  <2> QED
    BY <2>2, <2>3 DEF AttemptInv
<1>5. CASE Crash
  BY <1>5, Cleared DEF Crash, Outside, AttemptInv, SingleRecords
<1>6. CASE Restart
  <2>1. /\ pc \in {"failed", "down"} /\ pc' = "start"
        /\ manifest' \in {manifest, {}} /\ resumed' \in {manifest', {}}
        /\ load' \in Resuming => manifest' \subseteq resumed'
        /\ UNCHANGED <<version, completed, nextRead, queue, waveChunks, waves>>
    BY <1>6 DEF Restart, CleanupStaleManifests, LoadManifestForResume, Resuming
  <2>2. waves = <<>> /\ nextRead = 0 /\ completed = {}
    BY <2>1 DEF AttemptInv, FreshOutside, Outside
  <2>3. FreshOutside' /\ SingleRecords' /\ Delivered' /\ CurrentOnes' /\ CurrentWave' /\ WavesFit'
    BY <2>1, <2>2 DEF AttemptInv, FreshOutside, SingleRecords, Single, Delivered, CurrentOnes,
                      CurrentWave, WavesFit
  <2>4. NoChunkForgotten' /\ RootReady' /\ Saved'
    BY <2>1, <2>2, SizesAssumption DEF NoChunkForgotten, Chunks, RootReady, Publishing, Saved, Attempting
  <2> QED
    BY <2>3, <2>4 DEF AttemptInv
<1>7. CASE EditFile
  <2>1. /\ pc \in {"failed", "down"}
        /\ UNCHANGED <<pc, manifest, commandVars, completed, nextRead, queue, waveChunks, waves>>
    BY <1>7 DEF EditFile
  <2>2. waves = <<>> /\ nextRead = 0 /\ completed = {}
    BY <2>1 DEF AttemptInv, FreshOutside, Outside
  <2>3. FreshOutside' /\ SingleRecords' /\ Delivered' /\ CurrentOnes' /\ CurrentWave' /\ WavesFit'
    BY <2>1, <2>2 DEF AttemptInv, FreshOutside, SingleRecords, Delivered, CurrentOnes,
                      CurrentWave, WavesFit
  <2>4. NoChunkForgotten' /\ RootReady' /\ Saved'
    BY <2>1, <2>2 DEF NoChunkForgotten, Running, RootReady, Publishing, Saved, Attempting
  <2> QED
    BY <2>3, <2>4 DEF AttemptInv
<1> QED
  BY <1>1, <1>2, <1>3, <1>4, <1>5, <1>6, <1>7 DEF Next, Trouble, Ended

LEMMA InitAttempt == Init => AttemptInv
<1> SUFFICES ASSUME Init PROVE AttemptInv
  OBVIOUS
<1>1. FreshOutside /\ SingleRecords /\ Delivered /\ CurrentOnes /\ CurrentWave /\ WavesFit
  BY DEF Init, FreshOutside, SingleRecords, Single, Delivered, CurrentOnes, CurrentWave, WavesFit
<1>2. NoChunkForgotten /\ RootReady /\ Saved
  BY SizesAssumption DEF Init, NoChunkForgotten, Chunks, RootReady, Publishing, Saved, Attempting
<1> QED
  BY <1>1, <1>2 DEF AttemptInv

(***************************************************************************)
(* What the account's transactions carry.                                  *)
(***************************************************************************)
Calls == {t.call : t \in pool} \union {ledger[i].call : i \in DOMAIN ledger}

LedgerGrows ==
  \/ ledger' = ledger
  \/ \E outcome \in {"success", "error"} : Include(outcome)

LEMMA ExecutedForEver ==
  ASSUME ChainType, NEW call, Executed(call), LedgerGrows
  PROVE  Executed(call)'
<1>1. PICK i \in DOMAIN ledger : ledger[i] = [call |-> call, outcome |-> "success"]
  BY DEF Executed
<1>2. i \in DOMAIN ledger' /\ ledger'[i] = ledger[i]
  <2>1. CASE ledger' = ledger
    BY <2>1
  <2>2. CASE \E outcome \in {"success", "error"} : Include(outcome)
    <3>1. PICK e : ledger' = Append(ledger, e)
      BY <2>2 DEF Include
    <3>2. i \in 1..Len(ledger) /\ ledger \in Seq([call : Blocks, outcome : {"success", "error"}])
      BY DEF ChainType
    <3> QED
      BY <3>1, <3>2
  <2> QED
    BY <2>1, <2>2 DEF LedgerGrows
<1> QED
  BY <1>1, <1>2 DEF Executed

LEMMA IncludedCalls ==
  ASSUME ChainType, NEW outcome, Include(outcome)
  PROVE  Calls' \subseteq Calls
<1>1. PICK t \in pool : /\ ledger' = Append(ledger, [call |-> t.call, outcome |-> outcome])
                        /\ pool' = pool \ {t}
  BY DEF Include
<1>2. ledger \in Seq([call : Blocks, outcome : {"success", "error"}])
  BY DEF ChainType
<1>3. ASSUME NEW i \in DOMAIN ledger' PROVE ledger'[i].call \in Calls
  <2>1. CASE i = Len(ledger) + 1
    BY <1>1, <1>2, <2>1 DEF Calls
  <2>2. CASE i # Len(ledger) + 1
    <3>1. i \in DOMAIN ledger /\ ledger'[i] = ledger[i]
      BY <1>1, <1>2, <2>2
    <3> QED
      BY <3>1 DEF Calls
  <2> QED
    BY <2>1, <2>2
<1> QED
  BY <1>1, <1>3 DEF Calls

\* Every step leaves the chain alone, lets it go on, or adds one call.
LEMMA ChainStep ==
  ASSUME Typed, [Next]_vars
  PROVE  /\ LedgerGrows
         /\ \E b : /\ Calls' \subseteq Calls \union {b}
                   /\ b.kind = "root" => pc \in Publishing /\ b = RootOfCompleted /\ ledger' = ledger
<1> DEFINE Goal == /\ LedgerGrows
                   /\ \E b : /\ Calls' \subseteq Calls \union {b}
                             /\ b.kind = "root" => pc \in Publishing /\ b = RootOfCompleted /\ ledger' = ledger
<1>1. CASE UNCHANGED accountVars
  <2>1. ForeignBlock.kind # "root" /\ Calls' \subseteq Calls \union {ForeignBlock} /\ LedgerGrows
    BY <1>1 DEF ForeignBlock, Calls, LedgerGrows
  <2> QED
    BY <2>1
<1>2. ASSUME NEW outcome \in {"success", "error"}, Include(outcome) PROVE Goal
  <2>1. ForeignBlock.kind # "root" /\ Calls' \subseteq Calls \union {ForeignBlock} /\ LedgerGrows
    BY <1>2, IncludedCalls DEF ForeignBlock, LedgerGrows, Typed
  <2> QED
    BY <2>1
<1>3. ASSUME NEW b, NEW n, NEW out, Submit(b, n, out), ledger' = ledger,
             b.kind = "root" => pc \in Publishing /\ b = RootOfCompleted
      PROVE  Goal
  <2>1. Calls' \subseteq Calls \union {b} /\ LedgerGrows
    BY <1>3 DEF Submit, Calls, LedgerGrows
  <2> QED
    BY <1>3, <2>1
<1>4. CASE SubmitRoot
  BY <1>3, <1>4 DEF SubmitRoot, Publishing
<1>5. CASE \E w \in DOMAIN waves, c \in Chunks : SubmitChunk(w, c)
  <2>1. \A c : ChunkBlock(c, version[c]).kind # "root"
    BY DEF ChunkBlock
  <2> QED
    BY <1>3, <1>5, <2>1 DEF SubmitChunk
<1>6. CASE Dropped
  <2>1. ForeignBlock.kind # "root" /\ Calls' \subseteq Calls \union {ForeignBlock} /\ LedgerGrows
    BY <1>6 DEF Dropped, Drop, ForeignBlock, Calls, LedgerGrows
  <2> QED
    BY <2>1
<1>7. CASE Foreign
  <2>1. ForeignBlock.kind # "root" /\ Calls' \subseteq Calls \union {ForeignBlock} /\ LedgerGrows
    BY <1>7 DEF Foreign, ForeignTransaction, ForeignBlock, Calls, LedgerGrows
  <2> QED
    BY <2>1
<1>8. CASE LoopStep /\ ~SubmitRoot
  BY <1>1, <1>8
     DEF LoopStep, StartAttempt, FetchStartNonce, ReadChunk, StartWave, WaveCompletes, WaveThrows,
         RequeueWave, StartRoot, RootSettles, RootGivenUp, RootThrows, RetryRoot, PersistRoot,
         DeleteManifest
<1>9. ASSUME NEW w \in DOMAIN waves, WaveStep(w), ~\E c \in Chunks : SubmitChunk(w, c)
      PROVE  Goal
  BY <1>1, <1>9 DEF WaveStep, ChunkSettles, ChunkGivenUp, RetryLater, Resubmit, AbandonedWaveEnds
<1>10. CASE Executes \/ ExecuteFails
  BY <1>2, <1>10 DEF Executes, ExecuteFails
<1>11. CASE \/ \E w \in DOMAIN waves, c \in Chunks : ChunkFails(w, c)
            \/ WaveTimeout \/ RootFails \/ Crash \/ Restart \/ EditFile \/ UNCHANGED vars
  BY <1>1, <1>11 DEF ChunkFails, WaveTimeout, RootFails, Crash, Restart, EditFile, vars
<1> QED
  BY <1>4, <1>5, <1>6, <1>7, <1>8, <1>9, <1>10, <1>11 DEF Next, Trouble, Ended

(***************************************************************************)
(* A root links every chunk once.                                          *)
(***************************************************************************)
Closed(b) ==
  b.kind = "root" => /\ \A x \in b.links : Stored(x)
                     /\ \A c \in Chunks : \E v \in 0..MaxEdits :
                            {x \in b.links : x[1] = c} = {<<c, v>>}

LEMMA RootOfCompletedIsClosed ==
  ASSUME Typed, RecordedAreStored, AttemptInv, pc \in Publishing
  PROVE  Closed(RootOfCompleted)
<1> DEFINE links == {x \in completed : x[1] \in Chunks}
<1>1. RootOfCompleted.links = links /\ completed \subseteq Pairs
  BY DEF RootOfCompleted, RootBlock, Typed, RecordType
<1>2. \A x \in links : Stored(x)
  BY DEF RecordedAreStored
<1>3. ASSUME NEW c \in Chunks
      PROVE  \E v \in 0..MaxEdits : {x \in links : x[1] = c} = {<<c, v>>}
  <2>1. PICK y \in completed : y[1] = c
    BY DEF AttemptInv, RootReady, IndicesOf
  <2>2. y[2] \in 0..MaxEdits /\ y = <<c, y[2]>>
    BY <1>1, <2>1 DEF Pairs
  <2>3. {x \in links : x[1] = c} = {y}
    BY <2>1 DEF AttemptInv, SingleRecords, Single
  <2> QED
    BY <2>2, <2>3
<1> QED
  BY <1>1, <1>2, <1>3 DEF Closed

LEMMA StepClosed ==
  ASSUME Typed, RecordedAreStored, AttemptInv, RootClosed, [Next]_vars
  PROVE  RootClosed'
<1>1. \A x : Stored(x) => Stored(x)'
  <2>1. ASSUME NEW x, Stored(x) PROVE Stored(x)'
    BY <2>1, ChainStep, ExecutedForEver DEF Stored, Typed
  <2> QED
    BY <2>1
<1>2. \A b : Closed(b) => Closed(b)'
  BY <1>1 DEF Closed
<1>3. PICK b : /\ Calls' \subseteq Calls \union {b}
               /\ b.kind = "root" => pc \in Publishing /\ b = RootOfCompleted /\ ledger' = ledger
  BY ChainStep
<1>4. Closed(b)
  BY <1>3, RootOfCompletedIsClosed DEF Closed
<1>5. \A d \in Calls : Closed(d)
  BY DEF RootClosed, Calls, Closed
<1>6. \A d \in Calls' : Closed(d)'
  BY <1>2, <1>3, <1>4, <1>5
<1> QED
  BY <1>6 DEF RootClosed, Calls, Closed

(***************************************************************************)
(* The published root is that of the file.                                 *)
(***************************************************************************)
Published == {"persist", "cleanup", "done"}

LEMMA RootIsCurrent ==
  ASSUME Typed, AttemptInv, pc \in Publishing
  PROVE  RootOfCompleted = RootBlock({Current(c) : c \in Chunks})
<1>1. nextRead > NumChunks /\ Chunks \subseteq IndicesOf(completed) /\ completed \subseteq Pairs
  BY DEF AttemptInv, RootReady, Typed, RecordType
<1>2. \A c \in Chunks : c < nextRead
  BY <1>1, SizesAssumption DEF Chunks, Typed, LoopType
<1>3. \A x \in completed : x[1] \in Chunks => x = Current(x[1])
  BY <1>2 DEF AttemptInv, CurrentOnes
<1>4. \A c \in Chunks : Current(c) \in completed /\ Current(c)[1] = c
  BY <1>1, <1>3 DEF IndicesOf, Current
<1>5. {x \in completed : x[1] \in Chunks} = {Current(c) : c \in Chunks}
  BY <1>3, <1>4
<1> QED
  BY <1>5 DEF RootOfCompleted

LEMMA SettledIsExecuted ==
  ASSUME ChainType, NEW call, NEW n \in Nat, WatchResult(call, n, "ok")
  PROVE  Executed(call)
<1>1. /\ n + 1 \in DOMAIN ledger
      /\ ledger[n + 1].call = call /\ ledger[n + 1].outcome = "success"
  BY DEF ChainType, WatchResult, Spent, Found, Succeeded
<1>2. ledger[n + 1] \in [call : Blocks, outcome : {"success", "error"}]
  BY <1>1, ElementOfSeq DEF ChainType
<1>3. ledger[n + 1] = [call |-> call, outcome |-> "success"]
  BY <1>1, <1>2
<1> QED
  BY <1>1, <1>3 DEF Executed

LEMMA PublishingStep ==
  ASSUME [Next]_vars, pc' \in Published
  PROVE  /\ version' = version
         /\ \/ pc \in Published
            \/ pc = "root" /\ WatchResult(RootOfCompleted, rootSub.nonce, "ok")
<1> DEFINE Goal == /\ version' = version
                   /\ \/ pc \in Published
                      \/ pc = "root" /\ WatchResult(RootOfCompleted, rootSub.nonce, "ok")
<1>1. \A error : ~FailAttempt(error)
  BY DEF FailAttempt, Published
<1>2. ASSUME LoopStep PROVE Goal
  BY <1>1, <1>2
     DEF LoopStep, StartAttempt, FetchStartNonce, ReadChunk, StartWave, WaveCompletes, WaveThrows,
         Stall, RequeueWave, StartRoot, SubmitRoot, RootSettles, RootGivenUp, RootThrows, RetryRoot,
         PersistRoot, DeleteManifest, Published
<1>3. ASSUME UNCHANGED <<pc, version>> PROVE Goal
  BY <1>3
<1>4. ASSUME NEW w \in DOMAIN waves, WaveStep(w) \/ \E c \in Chunks : ChunkFails(w, c) PROVE Goal
  BY <1>3, <1>4 DEF WaveStep, SubmitChunk, ChunkSettles, ChunkGivenUp, ChunkFails, RetryLater, Resubmit,
                    AbandonedWaveEnds
<1>5. ASSUME Executes \/ ExecuteFails \/ Dropped \/ Foreign \/ RootFails \/ UNCHANGED vars PROVE Goal
  BY <1>3, <1>5 DEF Executes, ExecuteFails, Dropped, Foreign, RootFails, vars
<1>6. ~WaveTimeout /\ ~Crash /\ ~Restart /\ ~EditFile
  BY DEF WaveTimeout, Stall, Crash, Restart, EditFile, Published
<1> QED
  BY <1>2, <1>4, <1>5, <1>6 DEF Next, Trouble, Ended

LEMMA StepPublishes ==
  ASSUME Typed, AttemptInv, PublishesCurrentBytes, [Next]_vars
  PROVE  PublishesCurrentBytes'
<1> SUFFICES ASSUME pc' \in Published PROVE Executed(RootBlock({Current(c) : c \in Chunks}))'
  BY DEF PublishesCurrentBytes, Published
<1> DEFINE block == RootBlock({Current(c) : c \in Chunks})
<1>1. version' = version /\ block' = block
  BY PublishingStep DEF Current
<1>2. Executed(block)
  <2>1. CASE pc \in Published
    BY <2>1 DEF PublishesCurrentBytes, Published
  <2>2. CASE pc = "root" /\ WatchResult(RootOfCompleted, rootSub.nonce, "ok")
    <3>1. rootSub.nonce \in Nat
      BY DEF Typed, RootType
    <3> QED
      BY <2>2, <3>1, RootIsCurrent, SettledIsExecuted DEF Publishing, Typed
  <2> QED
    BY <2>1, <2>2, PublishingStep
<1> HIDE DEF block
<1>3. Executed(block)'
  <2>1. ASSUME NEW b, Executed(b) PROVE Executed(b)'
    BY <2>1, ChainStep, ExecutedForEver DEF Typed
  <2> QED
    BY <1>1, <1>2, <2>1
<1> QED
  BY <1>3 DEF block

(***************************************************************************)
(* The theorems about every reachable state.                               *)
(***************************************************************************)
UploadInv ==
  Typed /\ RecordedAreStored /\ BufferInv /\ AttemptInv /\ RootClosed /\ PublishesCurrentBytes

LEMMA InitUpload == Init => UploadInv
<1> SUFFICES ASSUME Init PROVE UploadInv
  OBVIOUS
<1>1. Typed /\ AttemptInv
  BY InitTyped, InitAttempt
<1>2. RecordedAreStored /\ BufferInv
  BY FS_EmptySet, MaxWindowType DEF Init, RecordedAreStored, BufferInv, BufferBound, NoWaveOutside
<1>3. RootClosed /\ PublishesCurrentBytes
  BY DEF Init, RootClosed, PublishesCurrentBytes
<1> QED
  BY <1>1, <1>2, <1>3 DEF UploadInv

LEMMA StepUpload == UploadInv /\ [Next]_vars => UploadInv'
BY StepTyped, StepRecords, StepBuffer, StepKeepsAttempt, StepClosed, StepPublishes DEF UploadInv

\* Every reachable state satisfies the inductive invariant of the upload.
THEOREM UploadInvariance == Spec => []UploadInv
BY InitUpload, StepUpload, PTL DEF Spec

\* Whatever stalls, times out, is abandoned or requeued, a chunk the stream has
\* delivered is queued, in the wave or completed: the loop never ends with one missing.
THEOREM NothingForgotten == Spec => []NoChunkForgotten
<1>1. UploadInv => NoChunkForgotten
  BY DEF UploadInv, AttemptInv
<1> QED
  BY <1>1, UploadInvariance, PTL

\* A root that is on the chain, or can still get there, links every chunk of the file
\* exactly once and only chunks the chain holds.
THEOREM RootsAreClosed == Spec => []RootClosed
<1>1. UploadInv => RootClosed
  BY DEF UploadInv
<1> QED
  BY <1>1, UploadInvariance, PTL

\* An upload that reports success has published the bytes the file has, whatever an
\* older manifest remembered of it.
THEOREM PublishedAsIs == Spec => []PublishesCurrentBytes
<1>1. UploadInv => PublishesCurrentBytes
  BY DEF UploadInv
<1> QED
  BY <1>1, UploadInvariance, PTL

(***************************************************************************)
(* What happens to the manifest.                                           *)
(***************************************************************************)
LEMMA ManifestStep ==
  ASSUME [Next]_vars
  PROVE  \/ manifest' = manifest
         \/ pc = "start" /\ manifest' = resumed
         \/ pc \in {"wave", "persist"} /\ manifest' = completed
         \/ pc = "cleanup"
         \/ Restart
<1>1. CASE LoopStep
  BY <1>1 DEF LoopStep, StartAttempt, FetchStartNonce, ReadChunk, StartWave, WaveCompletes, WaveThrows,
              Stall, RequeueWave, StartRoot, SubmitRoot, RootSettles, RootGivenUp, RootThrows,
              RetryRoot, PersistRoot, DeleteManifest, FailAttempt
<1>2. CASE \E w \in DOMAIN waves : WaveStep(w) \/ \E c \in Chunks : ChunkFails(w, c)
  BY <1>2 DEF WaveStep, SubmitChunk, ChunkSettles, ChunkGivenUp, ChunkFails, RetryLater, Resubmit,
              AbandonedWaveEnds
<1>3. CASE \/ Executes \/ ExecuteFails \/ Dropped \/ Foreign \/ RootFails \/ WaveTimeout
           \/ Crash \/ EditFile \/ UNCHANGED vars
  BY <1>3 DEF Executes, ExecuteFails, Dropped, Foreign, RootFails, WaveTimeout, Stall, Crash, EditFile,
              vars
<1> QED
  BY <1>1, <1>2, <1>3 DEF Next, Trouble, Ended

\* No step loses recorded progress but the end of the upload, a look that finds the
\* manifest a week old or cannot read it, and a start without --resume; what an edit of
\* the file made worthless may go.  A start with --resume keeps all of it.
THEOREM ProgressIsKept == Spec => ProgressKept
<1> DEFINE Excused(x) == \/ pc = "cleanup"
                         \/ run # run' /\ load' \in {"old", "unreadable"}
                         \/ pc = "start" /\ load \in {"fresh", "unreadable"}
                         \/ x # Current(x[1])
           Kept == \A x \in manifest \ manifest' : Excused(x)
<1>1. UploadInv /\ [Next]_vars => [Kept]_vars
  <2> SUFFICES ASSUME UploadInv, [Next]_vars, NEW x \in manifest, x \notin manifest'
               PROVE  Excused(x)
    OBVIOUS
  <2>1. Saved /\ run \in Nat /\ load \in Loads
    BY DEF UploadInv, AttemptInv, Typed, ControlType
  <2>2. CASE pc = "start" /\ manifest' = resumed
    BY <2>1, <2>2 DEF Saved, Resuming, Loads
  <2>3. CASE pc \in {"wave", "persist"} /\ manifest' = completed
    BY <2>1, <2>3 DEF Saved, Attempting
  <2>4. CASE Restart
    BY <2>1, <2>4 DEF Restart, CleanupStaleManifests
  <2> QED
    BY <2>2, <2>3, <2>4, ManifestStep
<1> QED
  BY <1>1, UploadInvariance, PTL DEF Spec, ProgressKept

(***************************************************************************)
(* The upload implements AbstractUpload: a step that leaves the ledger     *)
(* alone records or stutters, and a transaction that executes stores its   *)
(* chunk, publishes its root or concerns nobody.                           *)
(***************************************************************************)
Available  == {x \in Pairs : Stored(x)}
RootsOf(l) == {l[i].call.links : i \in {j \in DOMAIN l :
                  l[j].outcome = "success" /\ l[j].call.kind = "root"}}

LEMMA LedgerOrManifest ==
  ASSUME [Next]_vars
  PROVE  \/ ledger' = ledger
         \/ manifest' = manifest /\ \E outcome \in {"success", "error"} : Include(outcome)
<1>1. CASE LoopStep
  BY <1>1 DEF LoopStep, StartAttempt, FetchStartNonce, ReadChunk, StartWave, WaveCompletes, WaveThrows,
              RequeueWave, StartRoot, SubmitRoot, RootSettles, RootGivenUp, RootThrows,
              RetryRoot, PersistRoot, DeleteManifest
<1>2. CASE \E w \in DOMAIN waves : WaveStep(w) \/ \E c \in Chunks : ChunkFails(w, c)
  BY <1>2 DEF WaveStep, SubmitChunk, ChunkSettles, ChunkGivenUp, ChunkFails, RetryLater, Resubmit,
              AbandonedWaveEnds
<1>3. CASE Executes \/ ExecuteFails
  BY <1>3 DEF Executes, ExecuteFails
<1>4. CASE \/ Dropped \/ Foreign \/ RootFails \/ WaveTimeout \/ Restart
           \/ Crash \/ EditFile \/ UNCHANGED vars
  BY <1>4 DEF Dropped, Drop, Foreign, ForeignTransaction, RootFails, WaveTimeout, Stall, Crash, EditFile,
              Restart, vars
<1> QED
  BY <1>1, <1>2, <1>3, <1>4 DEF Next, Trouble, Ended

LEMMA AbstractRecord ==
  ASSUME Typed', RecordedAreStored', ledger' = ledger
  PROVE  Abstract!Record
<1>1. \A x : Stored(x)' <=> Stored(x)
  BY DEF Stored, Executed
<1>2. manifest' \subseteq Available
  BY <1>1 DEF Typed, RecordType, RecordedAreStored, Available
<1>3. Available' = Available
  BY <1>1 DEF Available
<1> QED
  BY <1>2, <1>3 DEF Abstract!Record, Available

\* What one more entry of the ledger changes.
LEMMA LedgerEntry ==
  ASSUME ChainType, NEW t \in pool, NEW outcome \in {"success", "error"},
         ledger' = Append(ledger, [call |-> t.call, outcome |-> outcome])
  PROVE  /\ \A b : Executed(b)' <=> Executed(b) \/ (outcome = "success" /\ b = t.call)
         /\ RootsOf(ledger') = IF outcome = "success" /\ t.call.kind = "root"
                               THEN RootsOf(ledger) \union {t.call.links} ELSE RootsOf(ledger)
<1> DEFINE e == [call |-> t.call, outcome |-> outcome]
<1>1. /\ ledger \in Seq([call : Blocks, outcome : {"success", "error"}])
      /\ e.call = t.call /\ e.outcome = outcome
      /\ e \in [call : Blocks, outcome : {"success", "error"}]
  BY DEF ChainType
<1>2. /\ DOMAIN ledger' = DOMAIN ledger \union {Len(ledger) + 1}
      /\ ledger'[Len(ledger) + 1] = e
      /\ \A i \in DOMAIN ledger : ledger'[i] = ledger[i]
  BY <1>1
<1> HIDE DEF e
<1>3. ASSUME NEW b PROVE Executed(b)' <=> Executed(b) \/ (outcome = "success" /\ b = t.call)
  <2>1. e = [call |-> b, outcome |-> "success"] <=> outcome = "success" /\ b = t.call
    BY DEF e
  <2> QED
    BY <1>2, <2>1 DEF Executed
<1>4. RootsOf(ledger') = IF outcome = "success" /\ t.call.kind = "root"
                         THEN RootsOf(ledger) \union {t.call.links} ELSE RootsOf(ledger)
  BY <1>1, <1>2 DEF RootsOf
<1> QED
  BY <1>3, <1>4

LEMMA AbstractExecution ==
  ASSUME Typed, RootClosed, NEW outcome \in {"success", "error"}, Include(outcome),
         manifest' = manifest
  PROVE  [Abstract!Next]_(Abstract!vars)
<1>1. PICK t \in pool : ledger' = Append(ledger, [call |-> t.call, outcome |-> outcome])
  BY DEF Include
<1>2. ChainType /\ t.call \in Blocks /\ t.call.links \subseteq Pairs
  BY DEF Typed, ChainType, Blocks
<1>3. /\ \A b : Executed(b)' <=> Executed(b) \/ (outcome = "success" /\ b = t.call)
      /\ RootsOf(ledger') = IF outcome = "success" /\ t.call.kind = "root"
                            THEN RootsOf(ledger) \union {t.call.links} ELSE RootsOf(ledger)
  BY <1>1, <1>2, LedgerEntry
<1>4. \A x : Stored(x)' <=> Stored(x) \/ (outcome = "success" /\ ChunkBlock(x[1], x[2]) = t.call)
  BY <1>3 DEF Stored
<1>5. \A x : ChunkBlock(x[1], x[2]).kind = "chunk" /\ ChunkBlock(x[1], x[2]).links = {<<x[1], x[2]>>}
  BY DEF ChunkBlock
<1>6. CASE outcome = "success" /\ t.call.kind = "root"
  <2>1. Available' = Available
    BY <1>4, <1>5, <1>6 DEF Available
  <2>2. Closed(t.call)
    BY DEF RootClosed, Closed
  <2>3. t.call.links \in SUBSET Available
    BY <1>2, <1>6, <2>2 DEF Closed, Available
  <2>4. Abstract!Complete(t.call.links)
    BY <1>6, <2>2 DEF Closed, Abstract!Complete
  <2>5. RootsOf(ledger') = RootsOf(ledger) \union {t.call.links}
    BY <1>3, <1>6
  <2>6. Abstract!PublishRoot
    BY <2>1, <2>3, <2>4, <2>5 DEF Abstract!PublishRoot, Available, RootsOf
  <2> QED
    BY <2>6 DEF Abstract!Next
<1>7. CASE outcome = "success" /\ \E x \in Pairs : ChunkBlock(x[1], x[2]) = t.call
  <2>1. PICK x \in Pairs : ChunkBlock(x[1], x[2]) = t.call
    BY <1>7
  <2>2. \A y \in Pairs : y = <<y[1], y[2]>>
    BY DEF Pairs
  <2>3. \A y \in Pairs : ChunkBlock(y[1], y[2]) = t.call <=> y = x
    BY <1>5, <2>1, <2>2
  <2>4. Available' = Available \union {x}
    BY <1>4, <1>7, <2>3 DEF Available
  <2>5. RootsOf(ledger') = RootsOf(ledger)
    BY <1>3, <1>5, <2>1
  <2>6. x \in Chunks \X (0..MaxEdits)
    BY DEF Pairs
  <2>7. Abstract!StoreChunk
    BY <2>4, <2>5, <2>6 DEF Abstract!StoreChunk, Available, RootsOf
  <2> QED
    BY <2>7 DEF Abstract!Next
<1>8. CASE \/ outcome # "success"
           \/ t.call.kind # "root" /\ \A x \in Pairs : ChunkBlock(x[1], x[2]) # t.call
  <2>1. Available' = Available
    BY <1>4, <1>8, <1>5 DEF Available
  <2>2. RootsOf(ledger') = RootsOf(ledger)
    BY <1>3, <1>8
  <2> QED
    BY <2>1, <2>2 DEF Abstract!vars, Available, RootsOf
<1> QED
  BY <1>6, <1>7, <1>8

\* The upload keeps the promise of the abstract uploader: chunks become available one
\* by one and stay, what the manifest keeps is available, and a root is published only
\* when all it links is available and it links every chunk once.
THEOREM UploadImplementsAbstract == Spec => ImplementsAbstractUpload
<1>1. Init => Abstract!Init
  <2> SUFFICES ASSUME Init PROVE Abstract!Init
    OBVIOUS
  <2>1. \A x : ~Stored(x)
    BY DEF Init, Stored, Executed
  <2>2. RootsOf(ledger) = {}
    BY DEF Init, RootsOf
  <2> QED
    BY <2>1, <2>2 DEF Init, Abstract!Init, RootsOf
<1>2. UploadInv /\ UploadInv' /\ [Next]_vars => [Abstract!Next]_(Abstract!vars)
  <2> SUFFICES ASSUME UploadInv, UploadInv', [Next]_vars PROVE [Abstract!Next]_(Abstract!vars)
    OBVIOUS
  <2>1. CASE ledger' = ledger
    <3>1. Abstract!Record
      BY <2>1, AbstractRecord DEF UploadInv
    <3> QED
      BY <3>1 DEF Abstract!Next
  <2>2. CASE manifest' = manifest /\ \E outcome \in {"success", "error"} : Include(outcome)
    BY <2>2, AbstractExecution DEF UploadInv
  <2> QED
    BY <2>1, <2>2, LedgerOrManifest
<1> QED
  BY <1>1, <1>2, UploadInvariance, PTL DEF Spec, ImplementsAbstractUpload, Abstract!Spec
===============================================================================
