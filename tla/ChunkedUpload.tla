---------------------------- MODULE ChunkedUpload ----------------------------
(***************************************************************************)
(* storeChunkedFileToBulletin (packages/cli/src/bulletin/store.ts) under   *)
(* the retry loop of uploadChunkedBlocks (packages/cli/src/commands/       *)
(* bulletin.ts) and the upload manifest on disk (uploadManifest.ts).       *)
(*                                                                         *)
(* A file is cut into chunks.  They are stored in waves: each chunk of a   *)
(* wave is one transaction with a nonce of its own, the whole wave races a *)
(* timer, and its chunks are retried inside the wave with the SAME nonces. *)
(* A wave that loses the race is not cancelled: it goes on as an           *)
(* "abandoned" wave, sends its retries through whatever client is active   *)
(* and still marks chunks completed, while the loop stores the rest again  *)
(* under fresh nonces.  Once every chunk is completed the root node is     *)
(* stored and the manifest removed.                                        *)
(***************************************************************************)
EXTENDS BulletinChain, UploadSchedule

CONSTANTS
    NumChunks,          \* chunks of the file
    ChunkLength,        \* [0..NumChunks-1 -> bytes of the chunk]
    MaxInFlightBytes,   \* MAX_IN_FLIGHT_BYTES
    Concurrency,        \* the requested window limit
    WindowStart,        \* ADAPTIVE_WINDOW_START: the window of the first wave
    MaxRetries,         \* MAX_RETRIES_PER_CHUNK: retries of a chunk in its wave
    RootMaxRetries,     \* ROOT_MAX_RETRIES: attempts at storing the root
    MaxUploadRetries,   \* retries of the whole upload in one run of the command
    MaxRuns,            \* bound: runs of the command
    FaultErrors,        \* what a submission may fail with out of the blue
    MaxFaults,          \* bound: misfortunes of the network, the node, the account
    MaxEdits            \* bound: edits of the file between runs

Chunks    == 0..(NumChunks - 1)
MaxWindow == SanitizedWindow(Concurrency)

ASSUME SizesAssumption ==
    /\ NumChunks \in Nat
    /\ ChunkLength \in [Chunks -> Nat \ {0}]
    /\ MaxInFlightBytes \in Nat
    /\ \A c \in Chunks : ChunkLength[c] <= MaxInFlightBytes
ASSUME LimitsAssumption ==
    /\ Concurrency \in Nat
    /\ WindowStart \in Nat \ {0}
    /\ MaxRetries \in Nat
    /\ RootMaxRetries \in Nat \ {0}
    /\ MaxUploadRetries \in Nat
ASSUME FaultsAssumption == FaultErrors \subseteq {"timeout", "pool", "reconnect", "fatal"}
ASSUME BoundsAssumption == MaxRuns \in Nat /\ MaxFaults \in Nat /\ MaxEdits \in Nat

VARIABLES
    \* The disk.
    manifest,        \* completedBlocks of the saved manifest ({} when there is none)
    version,         \* [Chunks -> which bytes the chunk of the file holds]
    \* The command: uploadChunkedBlocks.
    pc,              \* where the main control flow waits
    run,             \* runs of the command so far
    attempt,         \* attempt of runWithUploadRetries, from 0
    resumed,         \* completedBlocks handed to the attempt
    load,            \* what the last look for a saved manifest came to
    \* The attempt: storeChunkedFileToBulletin.
    completed,       \* manifestState.completedBlocks, as pairs <<chunk, version>>
    completedChunks, \* the progress counter
    nextRead,        \* next chunk of the stream; NumChunks + 1 after reading its end
    queue,           \* chunks read and not yet in a wave
    window, streak,  \* the adaptive window and its run of clean waves
    nextNonce,
    waveChunks,      \* chunks of the loop's current wave
    waves,           \* abandoned waves, then the current one while pc = "wave"
    rootAttempt,
    rootSub,         \* submission of the root: [st, nonce]
    faults, edits

diskVars    == <<manifest, version>>
commandVars == <<run, attempt, resumed, load>>
windowVars  == <<window, streak>>
markVars    == <<completed, completedChunks>>
rootVars    == <<rootAttempt, rootSub>>
boundVars   == <<faults, edits>>
attemptVars == <<markVars, nextRead, queue, windowVars, nextNonce, waveChunks, waves, rootVars>>
vars == <<accountVars, diskVars, pc, commandVars, attemptVars, boundVars>>

(***************************************************************************)
(* Control points.  Each is where the code awaits, so that other callbacks *)
(* run in between.                                                         *)
(***************************************************************************)
ControlPoints ==
    { "start",     \* next: StartAttempt (persistManifest)
      "nonce",     \* next: FetchStartNonce
      "loop",      \* next: ReadChunk, StartWave or StartRoot
      "wave",      \* racing the current wave against its timer
      "refetch",   \* the catch block awaits a fresh nonce
      "root",      \* the root submission is watched
      "rootRetry", \* next: RetryRoot
      "persist",   \* next: PersistRoot
      "cleanup",   \* next: DeleteManifest
      "done", "failed", "down" }

\* The looks: the user did not ask for --resume, the manifest was read, it was last
\* saved more than a week ago, it could not be read.
Loads == {"fresh", "read", "old", "unreadable"}

Running == pc \notin {"done", "failed", "down"}

\* What an error message makes the code do.
InWaveRetryable == {"timeout", "stale", "pool"}     \* retryable, no reconnect needed
StallErrors     == {"timeout", "stale", "reconnect"} \* the wave is requeued
AllButReconnect == {"timeout", "stale", "pool"}     \* a mutant of UploadRetryable
UploadRetryable == {"timeout", "stale", "pool", "reconnect"}
Errors          == UploadRetryable \union {"fatal"}

Pending   == {"sent", "inflight", "orphan"}
SubStates == {"none", "ok"} \union Pending \union Errors

Phases == {"batch", "sleep", "ended"}
WaveFields == [phase : Phases, retry : 0..MaxRetries,
               nonce : [Chunks -> Nat], st : [Chunks -> SubStates]]
WaveRecords == {w \in WaveFields : w.phase = "sleep" => w.retry < MaxRetries}

EndedWave == [phase |-> "ended", retry |-> 0,
              nonce |-> [c \in Chunks |-> 0], st |-> [c \in Chunks |-> "none"]]

NoRoot == [st |-> "none", nonce |-> 0]

Pairs        == Chunks \X (0..MaxEdits)
Blocks       == [kind : {"chunk", "root", "foreign"}, links : SUBSET Pairs]
IndicesOf(S) == {x[1] : x \in S}
Current(c)   == <<c, version[c]>>

Misfortune == faults < MaxFaults /\ faults' = faults + 1 /\ UNCHANGED edits

\* Mutants of WatchResult: the event's ok flag is not looked at; the promise
\* resolves as soon as the transaction is broadcast.
IgnoringDispatchError(block, n, out) ==
    Spent(n) /\ out = IF Found(block, n) THEN "ok" ELSE "stale"
OnBroadcast(block, n, out) == out = "ok"

\* How storeContentOnBulletin settles on the events of a watched transaction.
WatchResult(block, n, out) ==
    /\ Spent(n)
    /\ out = IF ~Found(block, n) THEN "stale"
             ELSE IF Succeeded(n) THEN "ok" ELSE "fatal"

\* A fresh activeClient: what was watched through the old one hears nothing more.
Orphaned(st)      == IF st \in {"sent", "inflight"} THEN "orphan" ELSE st
OrphanedWave(w)   == [w EXCEPT !.st = [c \in Chunks |-> Orphaned(w.st[c])]]
OrphanAll(ws)     == [i \in DOMAIN ws |-> OrphanedWave(ws[i])]

\* Locals of an attempt that is over, or has not begun.
ClearAttempt ==
    /\ completed' = {} /\ completedChunks' = 0
    /\ nextRead' = 0
    /\ queue' = {} /\ waveChunks' = {} /\ waves' = <<>>
    /\ window' = WindowMin /\ streak' = 0 /\ nextNonce' = 0
    /\ rootAttempt' = 0 /\ rootSub' = NoRoot

Init ==
    /\ ledger = <<>> /\ pool = {}
    /\ manifest = {} /\ version = [c \in Chunks |-> 0]
    /\ pc = "start" /\ run = 1 /\ attempt = 0
    /\ resumed = {} /\ load = "fresh"
    /\ completed = {} /\ completedChunks = 0
    /\ nextRead = 0
    /\ queue = {} /\ waveChunks = {} /\ waves = <<>>
    /\ window = WindowMin /\ streak = 0 /\ nextNonce = 0
    /\ rootAttempt = 0 /\ rootSub = NoRoot
    /\ faults = 0 /\ edits = 0

(***************************************************************************)
(* The command: attempts, crashes, restarts.                               *)
(***************************************************************************)

\* Entries of the manifest win over those the attempt was given.
Merge(given, saved) == saved \union {x \in given : x[1] \notin IndicesOf(saved)}

\* loadCompletedBlocksForRetry: readManifestFile answers a failing read with null.
LoadForRetry ==
    \/ load' = "read" /\ resumed' = Merge(resumed, manifest)
    \/ load' = "unreadable" /\ UNCHANGED resumed

(***************************************************************************)
(* The attempt throws.  Its client is destroyed, so its waves send nothing *)
(* more and what they still mark is a map nobody reads.                    *)
(***************************************************************************)
FailAttempt(error) ==
    /\ IF error \in UploadRetryable /\ attempt < MaxUploadRetries
       THEN /\ pc' = "start" /\ attempt' = attempt + 1
            /\ LoadForRetry
       ELSE /\ pc' = "failed" /\ UNCHANGED <<attempt, resumed, load>>
    /\ ClearAttempt
    /\ UNCHANGED <<run, diskVars>>

\* createManifestState, then the manifest is saved with what was handed over.
StartAttempt ==
    /\ pc = "start"
    /\ pc' = "nonce"
    /\ completed' = resumed
    /\ manifest' = resumed
    /\ window' = AtMost(MaxWindow, WindowStart)
    /\ UNCHANGED <<accountVars, version, commandVars, completedChunks, nextRead, queue,
                   streak, nextNonce, waveChunks, waves, rootVars, boundVars>>

FetchNonce ==
    \E n \in Len(ledger)..(Len(ledger) + Cardinality(pool)) :
        IsNextIndex(n) /\ nextNonce' = n

FetchStartNonce ==
    /\ pc = "nonce"
    /\ \/ /\ FetchNonce
          /\ pc' = "loop"
          /\ UNCHANGED <<diskVars, commandVars, markVars, nextRead, queue, windowVars,
                         waveChunks, waves, rootVars, boundVars>>
       \/ Misfortune /\ FailAttempt("timeout")
    /\ UNCHANGED accountVars

Crash ==
    /\ Running
    /\ pc' = "down"
    /\ ClearAttempt
    /\ UNCHANGED <<accountVars, diskVars, commandVars, boundVars>>

\* cleanupStaleManifests removes what is a week old, and what it cannot read.
CleanupStaleManifests(found) ==
    manifest' \in CASE found = "old"        -> {{}}
                    [] found = "unreadable" -> {{}, manifest}
                    [] OTHER                -> {manifest}

ResumesNothing(found, saved) == {}        \* a mutant: --resume is not honoured

\* The blocks handed over: loadManifestForResume is only called with --resume.
LoadManifestForResume(found, saved) == IF found = "read" THEN saved ELSE {}

\* The user runs the command again, with --resume or without.
Restart ==
    /\ pc \in {"failed", "down"} /\ run < MaxRuns
    /\ run' = run + 1 /\ attempt' = 0
    /\ pc' = "start"
    /\ load' \in Loads
    /\ CleanupStaleManifests(load')
    /\ resumed' = LoadManifestForResume(load', manifest')
    /\ UNCHANGED <<accountVars, version, attemptVars, boundVars>>

\* The bytes of a chunk change while size and modification time, all the
\* manifest is matched by, do not.
EditFile ==
    /\ pc \in {"failed", "down"} /\ run < MaxRuns
    /\ edits < MaxEdits /\ edits' = edits + 1
    /\ \E c \in Chunks : version' = [version EXCEPT ![c] = @ + 1]
    /\ UNCHANGED <<accountVars, manifest, pc, commandVars, attemptVars, faults>>

(***************************************************************************)
(* The scheduler loop.                                                     *)
(***************************************************************************)

\* A mutant of AlreadyCompleted: the CID is not compared.
SameIndex(c) == c \in IndicesOf(completed)

\* alreadyCompleted: same CID and length as the chunk just read.
AlreadyCompleted(c) == Current(c) \in completed

QueueOverfull == Cardinality(queue) <= MaxWindow    \* a mutant: one chunk too many

endOfStream == nextRead > NumChunks     \* reachedEndOfStream

QueueHasRoom == Cardinality(queue) < MaxWindow

\* pushChunkFromStream
ReadChunk ==
    /\ pc = "loop" /\ ~endOfStream /\ QueueHasRoom
    /\ nextRead' = nextRead + 1
    /\ IF nextRead = NumChunks
       THEN UNCHANGED <<markVars, queue>>
       ELSE IF AlreadyCompleted(nextRead)
       THEN /\ completedChunks' = completedChunks + 1
            /\ UNCHANGED <<completed, queue>>
       ELSE /\ completed' = {x \in completed : x[1] # nextRead}
            /\ queue' = queue \union {nextRead}
            /\ UNCHANGED completedChunks
    /\ UNCHANGED <<accountVars, diskVars, pc, commandVars, windowVars, nextNonce,
                   waveChunks, waves, rootVars, boundVars>>

\* Consecutive nonces in chunk order.
NonceIn(W, c) == nextNonce + Cardinality({d \in W : d < c})

NewWave(W) == [phase |-> "batch", retry |-> 0,
               nonce |-> [c \in Chunks |-> IF c \in W THEN NonceIn(W, c) ELSE 0],
               st    |-> [c \in Chunks |-> IF c \in W THEN "sent" ELSE "none"]]

StartWave ==
    /\ pc = "loop" /\ (endOfStream \/ ~QueueHasRoom) /\ queue # {}
    /\ LET W == SelectWaveChunks(queue, window, ChunkLength, MaxInFlightBytes)
       IN  /\ queue' = queue \ W
           /\ waveChunks' = W
           /\ nextNonce' = nextNonce + Cardinality(W)
           /\ waves' = Append(waves, NewWave(W))
    /\ pc' = "wave"
    /\ UNCHANGED <<accountVars, diskVars, commandVars, markVars, nextRead, windowVars,
                   rootVars, boundVars>>

(***************************************************************************)
(* A wave, current or abandoned: runWaveWithRetries.                       *)
(***************************************************************************)
IsCurrent(w)  == pc = "wave" /\ w = Len(waves)
Members(w)    == {c \in Chunks : waves[w].st[c] # "none"}
Failures(w)   == {c \in Chunks : waves[w].st[c] \in Errors}
Settled(w)    == waves[w].phase = "batch" /\ \A c \in Chunks : waves[w].st[c] \notin Pending
Exhausted(w)  == waves[w].retry = MaxRetries
Throwing(w)   == {c \in Failures(w) : waves[w].st[c] \notin InWaveRetryable \/ Exhausted(w)}

SetSub(w, c, out) == waves' = [waves EXCEPT ![w].st[c] = out]

submissionFrame == <<diskVars, pc, commandVars, nextRead, queue, windowVars, nextNonce,
                     waveChunks, rootVars>>

\* The transaction reaches the node.
SubmitChunk(w, c) ==
    /\ waves[w].st[c] = "sent"
    /\ \E out \in SubStates :
          Submit(ChunkBlock(c, version[c]), waves[w].nonce[c], out) /\ SetSub(w, c, out)
    /\ UNCHANGED <<ledger, submissionFrame, markVars, boundVars>>

\* completedBlocks.set, completedChunks += 1
MarkCompleted(c) ==
    /\ completed' = {x \in completed : x[1] # c} \union {Current(c)}
    /\ completedChunks' = completedChunks + 1

\* The watched transaction is in a best block.
ChunkSettles(w, c) ==
    /\ waves[w].st[c] = "inflight"
    /\ \E out \in {"ok", "stale", "fatal"} :
          /\ WatchResult(ChunkBlock(c, version[c]), waves[w].nonce[c], out)
          /\ SetSub(w, c, out)
          /\ IF out = "ok" THEN MarkCompleted(c) ELSE UNCHANGED markVars
    /\ UNCHANGED <<accountVars, submissionFrame, boundVars>>

\* No submission under way will fill a gap below the nonce: timers take minutes.
NothingComes(n) ==
    \A w \in DOMAIN waves : \A c \in Chunks : waves[w].st[c] = "sent" => waves[w].nonce[c] >= n

\* Nothing will come of the submission any more: its timer fires, or the
\* destroyed client reports an error.
ChunkGivenUp(w, c) ==
    /\ \/ waves[w].st[c] = "orphan"
       \/ /\ waves[w].st[c] = "inflight"
          /\ Stuck(waves[w].nonce[c]) /\ NothingComes(waves[w].nonce[c])
    /\ \E out \in {"timeout", "reconnect"} :
          /\ out = "timeout" \/ waves[w].st[c] = "orphan"
          /\ SetSub(w, c, out)
    /\ UNCHANGED <<accountVars, submissionFrame, markVars, boundVars>>

\* The submission fails although its transaction may still execute.
ChunkFails(w, c) ==
    /\ waves[w].st[c] \in {"sent", "inflight"}
    /\ \E out \in FaultErrors : SetSub(w, c, out)
    /\ Misfortune
    /\ UNCHANGED <<accountVars, submissionFrame, markVars>>

\* Every failure may be retried: they all are, after a delay.
RetryLater(w) ==
    /\ Settled(w) /\ Failures(w) # {} /\ Throwing(w) = {}
    /\ waves' = [waves EXCEPT ![w].phase = "sleep"]
    /\ UNCHANGED <<accountVars, submissionFrame, markVars, boundVars>>

Resubmitted(wave) ==
    [wave EXCEPT !.phase = "batch", !.retry = @ + 1,
                 !.st = [c \in Chunks |-> IF @[c] \in Errors THEN "sent" ELSE @[c]]]

\* The retries go out with the nonces of the first attempt.
Resubmit(w) ==
    /\ waves[w].phase = "sleep"
    /\ waves' = [waves EXCEPT ![w] = Resubmitted(@)]
    /\ UNCHANGED <<accountVars, submissionFrame, markVars, boundVars>>

\* An abandoned wave ends; nobody awaits it.
AbandonedWaveEnds(w) ==
    /\ ~IsCurrent(w) /\ Settled(w)
    /\ Failures(w) = {} \/ Throwing(w) # {}
    /\ waves' = [waves EXCEPT ![w] = EndedWave]
    /\ UNCHANGED <<accountVars, submissionFrame, markVars, boundVars>>

(***************************************************************************)
(* The current wave wins or loses its race.                                *)
(***************************************************************************)
WithoutCurrent == SubSeq(waves, 1, Len(waves) - 1)

WaveCompletes ==
    /\ pc = "wave" /\ Settled(Len(waves)) /\ Failures(Len(waves)) = {}
    /\ manifest' = completed
    /\ \E duration \in Durations :
          LET next == NextAdaptiveWindow(window, MaxWindow, streak, duration,
                                         waves[Len(waves)].retry > 0)
          IN  window' = next.window /\ streak' = next.streak
    /\ waves' = WithoutCurrent
    /\ waveChunks' = {}
    /\ pc' = "loop"
    /\ UNCHANGED <<accountVars, version, commandVars, markVars, nextRead, queue, nextNonce,
                   rootVars, boundVars>>

\* A stall: a new client, then a fresh nonce before anything is requeued.
Stall(ws) ==
    /\ waves' = OrphanAll(ws)
    /\ pc' = "refetch"
    /\ UNCHANGED <<diskVars, commandVars, markVars, nextRead, queue, windowVars, nextNonce,
                   waveChunks, rootVars>>

\* runWaveWithRetries throws the first failure, in chunk order, it may not retry.
WaveThrows ==
    /\ pc = "wave" /\ Settled(Len(waves)) /\ Throwing(Len(waves)) # {}
    /\ LET error == waves[Len(waves)].st[Min(Throwing(Len(waves)))]
       IN  IF error \in StallErrors THEN Stall(WithoutCurrent) ELSE FailAttempt(error)
    /\ UNCHANGED <<accountVars, boundVars>>

\* The wave's timer wins: the wave is abandoned, not stopped.
WaveTimeout ==
    /\ pc = "wave"
    /\ Misfortune
    /\ Stall(waves)
    /\ UNCHANGED accountVars

UnconfirmedLost == {}        \* a mutant: a stalled wave is not requeued

\* Chunks of the stalled wave that are still not completed go back to the queue.
Unconfirmed == {c \in waveChunks : c \notin IndicesOf(completed)}

RequeueWave ==
    /\ pc = "refetch"
    /\ \/ /\ FetchNonce
          /\ window' = HalvedWindow(window)
          /\ streak' = 0
          /\ queue' = queue \union Unconfirmed
          /\ waveChunks' = {}
          /\ pc' = "loop"
          /\ UNCHANGED <<diskVars, commandVars, markVars, nextRead, waves, rootVars, boundVars>>
       \/ Misfortune /\ FailAttempt("timeout")
    /\ UNCHANGED accountVars

(***************************************************************************)
(* The root node.                                                          *)
(***************************************************************************)
StartRoot ==
    /\ pc = "loop" /\ endOfStream /\ queue = {}
    /\ IF Chunks \subseteq IndicesOf(completed)       \* buildOrderedStoredChunks
       THEN /\ pc' = "root"
            /\ rootAttempt' = 1
            /\ rootSub' = [st |-> "sent", nonce |-> nextNonce]
            /\ UNCHANGED <<diskVars, commandVars, markVars, nextRead, queue, windowVars,
                           nextNonce, waveChunks, waves>>
       ELSE FailAttempt("fatal")
    /\ UNCHANGED <<accountVars, boundVars>>

rootFrame == <<diskVars, commandVars, markVars, nextRead, queue, windowVars, nextNonce,
               waveChunks, waves, rootAttempt>>

\* The node links come from buildOrderedStoredChunks, one per chunk of the file.
RootOfCompleted == RootBlock({x \in completed : x[1] \in Chunks})

SubmitRoot ==
    /\ pc = "root" /\ rootSub.st = "sent"
    /\ \E out \in SubStates :
          Submit(RootOfCompleted, rootSub.nonce, out) /\ rootSub' = [rootSub EXCEPT !.st = out]
    /\ UNCHANGED <<ledger, pc, rootFrame, boundVars>>

RootSettles ==
    /\ pc = "root" /\ rootSub.st = "inflight"
    /\ \E out \in {"ok", "stale", "fatal"} :
          /\ WatchResult(RootOfCompleted, rootSub.nonce, out)
          /\ rootSub' = [rootSub EXCEPT !.st = out]
          /\ pc' = IF out = "ok" THEN "persist" ELSE "root"
    /\ UNCHANGED <<accountVars, rootFrame, boundVars>>

RootGivenUp ==
    /\ pc = "root" /\ rootSub.st = "inflight"
    /\ Stuck(rootSub.nonce) /\ NothingComes(rootSub.nonce)
    /\ rootSub' = [rootSub EXCEPT !.st = "timeout"]
    /\ UNCHANGED <<accountVars, pc, rootFrame, boundVars>>

RootFails ==
    /\ pc = "root" /\ rootSub.st \in {"sent", "inflight"}
    /\ \E out \in FaultErrors : rootSub' = [rootSub EXCEPT !.st = out]
    /\ Misfortune
    /\ UNCHANGED <<accountVars, pc, rootFrame>>

\* Any error is retried after a delay, until the attempts are used up.
RootThrows ==
    /\ pc = "root" /\ rootSub.st \in Errors
    /\ IF rootAttempt = RootMaxRetries
       THEN FailAttempt(rootSub.st)
       ELSE /\ pc' = "rootRetry"
            /\ rootAttempt' = rootAttempt + 1
            /\ UNCHANGED <<diskVars, commandVars, markVars, nextRead, queue, windowVars,
                           nextNonce, waveChunks, waves, rootSub>>
    /\ UNCHANGED <<accountVars, boundVars>>

\* A fresh nonce and a fresh client; failing to get the nonce uses up the attempt.
RetryRoot ==
    /\ pc = "rootRetry"
    /\ pc' = "root"
    /\ \/ /\ FetchNonce
          /\ waves' = OrphanAll(waves)
          /\ rootSub' = [st |-> "sent", nonce |-> nextNonce']
          /\ UNCHANGED boundVars
       \/ /\ Misfortune
          /\ rootSub' = [rootSub EXCEPT !.st = "timeout"]
          /\ UNCHANGED <<nextNonce, waves>>
    /\ UNCHANGED <<accountVars, diskVars, commandVars, markVars, nextRead, queue, windowVars,
                   waveChunks, rootAttempt>>

PersistRoot ==
    /\ pc = "persist"
    /\ manifest' = completed
    /\ pc' = "cleanup"
    /\ UNCHANGED <<accountVars, version, commandVars, attemptVars, boundVars>>

DeleteManifest ==
    /\ pc = "cleanup"
    /\ manifest' = {}
    /\ pc' = "done"
    /\ ClearAttempt
    /\ UNCHANGED <<accountVars, version, commandVars, boundVars>>

(***************************************************************************)
(* The chain and the whole system.                                         *)
(***************************************************************************)
nodeFrame == <<diskVars, pc, commandVars, attemptVars>>

Executes     == Include("success") /\ UNCHANGED <<nodeFrame, boundVars>>
ExecuteFails == "fatal" \in FaultErrors /\ Include("error") /\ Misfortune /\ UNCHANGED nodeFrame
Dropped      == Drop /\ Misfortune /\ UNCHANGED nodeFrame
Foreign      == ForeignTransaction /\ Misfortune /\ UNCHANGED nodeFrame

WaveStep(w) ==
    \/ \E c \in Chunks : SubmitChunk(w, c) \/ ChunkSettles(w, c) \/ ChunkGivenUp(w, c)
    \/ RetryLater(w) \/ Resubmit(w) \/ AbandonedWaveEnds(w)

LoopStep ==
    \/ StartAttempt \/ FetchStartNonce \/ ReadChunk \/ StartWave
    \/ WaveCompletes \/ WaveThrows \/ RequeueWave
    \/ StartRoot \/ SubmitRoot \/ RootSettles \/ RootGivenUp \/ RootThrows \/ RetryRoot
    \/ PersistRoot \/ DeleteManifest

\* Timers, network and node go wrong; a bounded number of times.
Trouble ==
    \/ \E w \in DOMAIN waves, c \in Chunks : ChunkFails(w, c)
    \/ WaveTimeout \/ RootFails \/ ExecuteFails \/ Dropped \/ Foreign

Ended == ~Running /\ UNCHANGED vars

Next ==
    \/ LoopStep
    \/ \E w \in DOMAIN waves : WaveStep(w)
    \/ Executes \/ Trouble \/ Crash \/ Restart \/ EditFile \/ Ended

Spec == Init /\ [][Next]_vars

(***************************************************************************)
(* Awaited promises settle, timers fire, and the chain executes what it    *)
(* may; nothing obliges trouble, a crash or a user to come.                *)
(***************************************************************************)
Fairness ==
    /\ WF_vars(LoopStep)
    /\ WF_vars(\E w \in DOMAIN waves : WaveStep(w))
    /\ WF_vars(Executes)

FairSpec == Spec /\ Fairness

(***************************************************************************)
(* What should be true.                                                    *)
(***************************************************************************)

ChainType ==
    /\ ledger \in Seq([call : Blocks, outcome : {"success", "error"}])
    /\ pool \subseteq [nonce : Nat, call : Blocks]

RecordType ==
    /\ manifest \subseteq Pairs /\ resumed \subseteq Pairs /\ completed \subseteq Pairs
    /\ version \in [Chunks -> 0..edits]

ControlType ==
    /\ pc \in ControlPoints
    /\ run \in Nat /\ attempt \in 0..MaxUploadRetries /\ load \in Loads
    /\ faults \in 0..MaxFaults /\ edits \in 0..MaxEdits

LoopType ==
    /\ completedChunks \in Nat
    /\ nextRead \in 0..(NumChunks + 1)
    /\ queue \subseteq Chunks /\ waveChunks \subseteq Chunks
    /\ window \in 1..MaxWindow /\ streak \in 0..1
    /\ nextNonce \in Nat

WavesType == waves \in Seq(WaveRecords)

RootType ==
    /\ rootAttempt \in 0..RootMaxRetries
    /\ rootSub \in [st : SubStates, nonce : Nat]

Typed == ChainType /\ RecordType /\ ControlType /\ LoopType /\ WavesType /\ RootType

\* Chunk bytes held by the loop, queued or in the current wave, never exceed the
\* window limit, however often waves stall and are put back.
BufferBound == Cardinality(queue \union waveChunks) <= MaxWindow

\* Every variable ranges over the values the code's variable can hold: the window
\* never leaves 1..MaxWindow, or waves would be empty, and the buffer stays within it.
QueueTypeOK == Typed /\ BufferBound

\* Whatever the upload believes to be stored is stored: the completed blocks in
\* memory, those an attempt resumes from and those the manifest keeps across a
\* crash.  A lost notification, an abandoned wave or a nonce spent by somebody
\* else must never make a chunk count that the chain does not hold.
RecordedAreStored == \A x \in manifest \union resumed \union completed : Stored(x)

\* A root node that is on the chain, or can still get there from the pool, links
\* every chunk of the file exactly once, and every chunk it links is stored.
RootClosed ==
    \A b \in {t.call : t \in pool} \union {ledger[i].call : i \in DOMAIN ledger} :
        b.kind = "root" => /\ \A x \in b.links : Stored(x)
                           /\ \A c \in Chunks : \E v \in 0..MaxEdits :
                                  {x \in b.links : x[1] = c} = {<<c, v>>}

\* The upload that reports success has published the file as it is: the bytes
\* edited between two runs are never replaced by those an old manifest remembers.
PublishesCurrentBytes ==
    pc \in {"persist", "cleanup", "done"} => Executed(RootBlock({Current(c) : c \in Chunks}))

\* No chunk the stream has delivered is ever forgotten: it is completed, queued,
\* or in the wave that will requeue it; so "Missing stored metadata" is never thrown.
NoChunkForgotten ==
    Running => \A c \in Chunks :
                  c < nextRead => c \in queue \union waveChunks \union IndicesOf(completed)

\* Nobody loses upload progress behind the user's back: a saved block leaves the
\* manifest only when the root is published, when a new command finds the manifest a
\* week old, when a look for it could not read it, when the user starts without
\* --resume, or when its bytes have changed.  A start with --resume and every retry
\* that can read the manifest keep all of it.
ProgressKept ==
    [][\A x \in manifest \ manifest' :
          \/ pc = "cleanup"
          \/ run # run' /\ load' \in {"old", "unreadable"}
          \/ pc = "start" /\ load \in {"fresh", "unreadable"}
          \/ x # Current(x[1])]_vars

\* With enough retries and only transient errors the upload heals itself: the stall
\* loop, which counts nothing, does not go round for ever, and the root is published
\* unless the process is killed.
UploadHeals == Running ~> pc \in {"done", "down"}

\* The upload implements the abstract uploader: "available" is what the chain
\* holds, "recorded" the manifest on disk, "published" the roots on the chain.
Abstract == INSTANCE AbstractUpload WITH
    Versions  <- 0..MaxEdits,
    available <- {x \in Pairs : Stored(x)},
    recorded  <- manifest,
    published <- {ledger[i].call.links : i \in {j \in DOMAIN ledger :
                      ledger[j].outcome = "success" /\ ledger[j].call.kind = "root"}}

ImplementsAbstractUpload == Abstract!Spec
===============================================================================
