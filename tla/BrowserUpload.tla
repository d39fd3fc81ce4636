---------------------------- MODULE BrowserUpload ----------------------------
(***************************************************************************)
(* Uploads of the web application (packages/ui): useBulletinStore.ts with  *)
(* its worker (bulletinUploadWorker.ts), and FileUpload.vue, the form that *)
(* starts them.  The store's flags are shared by whatever uploads run: the *)
(* form keeps a user from starting a second one, but the global timeout    *)
(* and a form that is mounted again clear the flags while one goes on.     *)
(* Progress is kept in the session storage of the tab.                     *)
(***************************************************************************)
EXTENDS HostPreimage, FiniteSets, Functions

CONSTANTS
    Files,          \* files of the user
    ChunksOf,       \* the chunks of each, as leaf CIDs; one chunk is a single block
    SaveEvery,      \* chunks between two saves of the progress: 5 in the code
    StoreRetries,   \* MAX_RETRIES
    MaxUploads,     \* bound: uploads started
    MaxFaults       \* bound: failing calls, failing workers, reloads

NoFile == "none"
NoCid  == Leaf("none")
ASSUME FilesAssumption ==
    /\ NoFile \notin Files /\ DOMAIN ChunksOf = Files
    /\ \A f \in Files : LET chunks == Range(ChunksOf[f])
                         IN  /\ ChunksOf[f] \in Seq(chunks) /\ Len(ChunksOf[f]) > 0
                             /\ \A c \in chunks : c = Leaf(c.name) /\ c # NoCid
ASSUME LimitsAssumption ==
    /\ SaveEvery \in Nat \ {0} /\ StoreRetries \in Nat
    /\ MaxUploads \in Nat /\ MaxFaults \in Nat

VARIABLES
    page,       \* the store: its flags and what it shows
    form,       \* the component FileUpload
    resume,     \* the record under RESUME_STORAGE_KEY
    uploads,    \* the runs of uploadFile started so far
    handOff,    \* the entry of previewCache.ts
    faults

uploadVars == <<page, form, resume, uploads, handOff>>

Misfortune == faults < MaxFaults /\ faults' = faults + 1
Fortune    == UNCHANGED faults

IsChunked(f)  == Len(ChunksOf[f]) > 1
RootOf(links) == Node(links, Len(links))
CidOf(f) == IF IsChunked(f) THEN RootOf(ChunksOf[f]) ELSE ChunksOf[f][1]

NoChunks == [i \in {} |-> NoCid]
NoRecord == [file |-> NoFile, done |-> NoChunks]
NoEntry  == [cid |-> NoCid, file |-> NoFile]

FreshPage == [uploading |-> FALSE, stage |-> "idle", error |-> FALSE, cid |-> NoCid,
              verified |-> FALSE]
ClosedForm == [mounted |-> FALSE, selected |-> NoFile, expected |-> NoFile,
               pending |-> NoFile, dialog |-> "closed"]

Over == {"failed", "done", "gone"}
Verifying(u) == <<"upload", u, <<>>>>

UploadInit ==
    /\ page = FreshPage /\ form = ClosedForm /\ resume = NoRecord
    /\ uploads = <<>> /\ handOff = NoEntry /\ faults = 0

(***************************************************************************)
(* The form.                                                               *)
(***************************************************************************)
\* onMounted: the flags are reset, whatever runs; a record offers to be resumed.
MountForm ==
    /\ form' = [ClosedForm EXCEPT !.mounted = TRUE, !.pending = resume.file]
    /\ page' = FreshPage

\* onBeforeUnmount.
UnmountForm ==
    /\ form' = ClosedForm
    /\ page' = IF page.uploading THEN page ELSE FreshPage

formFrame == <<hostVars, uploads, handOff, faults>>

ResumePending ==
    /\ form.pending # NoFile
    /\ form' = [form EXCEPT !.expected = form.pending, !.pending = NoFile]
    /\ UNCHANGED <<page, resume, formFrame>>

DiscardPending ==
    /\ form.pending # NoFile
    /\ form' = [form EXCEPT !.pending = NoFile] /\ resume' = NoRecord
    /\ UNCHANGED <<page, formFrame>>

SelectFile(f) ==
    /\ form.mounted /\ form.pending = NoFile /\ form.selected = NoFile
    /\ page.stage = "idle" /\ ~page.uploading
    /\ page' = FreshPage
    /\ resume' = IF form.expected \in {NoFile, f} THEN resume ELSE NoRecord
    /\ form' = [form EXCEPT !.selected = f, !.expected = NoFile]
    /\ UNCHANGED formFrame

\* The cross beside the file, or "Try again" below an error.
RemoveFile ==
    /\ form.mounted /\ form.pending = NoFile /\ ~page.uploading
    /\ form.selected # NoFile \/ page.error
    /\ form' = [form EXCEPT !.selected = NoFile] /\ page' = FreshPage
    /\ UNCHANGED <<resume, formFrame>>

\* A new stage of the store, as the form that watches it shows it in its dialog.
Stage(stage, changes) ==
    /\ page' = [changes EXCEPT !.stage = stage]
    /\ form' = IF ~form.mounted \/ page.stage = stage THEN form
               ELSE CASE stage = "caching" -> [form EXCEPT !.dialog = "waits"]
                      [] stage = "done" -> [form EXCEPT !.dialog = "over"]
                      [] stage = "error" /\ form.dialog # "closed" ->
                             [form EXCEPT !.dialog = "over"]
                      [] OTHER -> form

(***************************************************************************)
(* uploadFile.                                                             *)
(***************************************************************************)
Missing(u) == DOMAIN ChunksOf[uploads[u].file] \ DOMAIN uploads[u].done
\* The lowest chunk that was neither resumed from nor stored by this upload.
NextChunk(u) == CHOOSE i \in Missing(u) : \A j \in Missing(u) : i <= j
AllStored(u) == Missing(u) = {}
Links(u) == [i \in DOMAIN ChunksOf[uploads[u].file] |-> uploads[u].done[i]]

\* What the worker prepares: the next chunk, or the root of those that are recorded.
Block(u) == IF AllStored(u) THEN RootOf(Links(u))
            ELSE ChunksOf[uploads[u].file][NextChunk(u)]

AnyRecord(f) == resume.done         \* a mutant: the file's key is not compared
LoadResumeState(f) == IF resume.file = f THEN resume.done ELSE NoChunks

Untimed(f, done) ==                 \* a mutant of NewUpload: no global timeout
    [file |-> f, pc |-> "prepare", done |-> done, cid |-> NoCid, attempt |-> 0,
     timer |-> FALSE, worker |-> TRUE]
NewUpload(f, done) ==
    [file |-> f, pc |-> "prepare", done |-> done, cid |-> NoCid, attempt |-> 0,
     timer |-> TRUE, worker |-> TRUE]

\* The form lets nobody start while an upload is shown to run.  Everything up to the
\* first request to the worker happens at once.
StartUpload ==
    /\ form.pending = NoFile /\ form.selected # NoFile
    /\ ~page.uploading /\ page.stage # "done"
    /\ Len(uploads) < MaxUploads
    /\ LET f == form.selected
       IN  uploads' = Append(uploads,
               NewUpload(f, IF IsChunked(f) THEN LoadResumeState(f) ELSE NoChunks))
    /\ page' = [FreshPage EXCEPT !.uploading = TRUE, !.stage = "working"]
    /\ UNCHANGED <<hostVars, form, resume, handOff, faults>>

\* withUploadLifecycle: the worker is destroyed, the error shown, and the flags are
\* cleared for everyone.
Throw(u) ==
    /\ uploads' = [uploads EXCEPT ![u].pc = "failed", ![u].timer = FALSE,
                                  ![u].worker = FALSE, ![u].attempt = 0,
                                  ![u].done = NoChunks]
    /\ Stage("error", [page EXCEPT !.error = TRUE, !.uploading = FALSE])
    /\ UNCHANGED <<hostVars, resume, handOff>>

Prepared(u) ==
    /\ uploads[u].pc = "prepare" /\ uploads[u].worker
    /\ uploads' = [uploads EXCEPT ![u].pc = "store"]
    /\ Stage("working", page)
    /\ UNCHANGED <<hostVars, resume, handOff>> /\ Fortune

\* The worker answers with an error, or dies: an event then rejects what it was asked.
WorkerFails(u) ==
    /\ uploads[u].pc = "prepare" /\ uploads[u].worker /\ Misfortune /\ Throw(u)

\* submit: the host prompts its user, signs and stores.
Store(u) ==
    /\ uploads[u].pc = "store"
    /\ preimages' = preimages \union {Block(u)}
    /\ uploads' = [uploads EXCEPT ![u].pc = "stored", ![u].attempt = 0]
    /\ UNCHANGED <<lookups, page, form, resume, handOff>> /\ Fortune

\* storeWithRetries: an error that can be retried, after which the block may be stored.
StoreErrs(u) ==
    /\ uploads[u].pc = "store" /\ Misfortune
    /\ uploads[u].attempt < StoreRetries
    /\ preimages' \in {preimages, preimages \union {Block(u)}}
    /\ uploads' = [uploads EXCEPT ![u].pc = "backoff"]
    /\ UNCHANGED <<lookups, page, form, resume, handOff>>
RetryStore(u) ==
    /\ uploads[u].pc = "backoff"
    /\ uploads' = [uploads EXCEPT ![u].pc = "store", ![u].attempt = @ + 1]
    /\ UNCHANGED <<hostVars, page, form, resume, handOff>> /\ Fortune

\* Any other error, or the last attempt: the user refused the prompt, for one.
StoreRefused(u) == uploads[u].pc = "store" /\ Misfortune /\ Throw(u)

(***************************************************************************)
(* After yieldToBrowser: a chunk is recorded, and the progress saved with  *)
(* every fifth and the last.  The root, or a single block, ends the        *)
(* storing: the record is cleared and the host asked for what was stored.  *)
(***************************************************************************)
Recorded(u) ==
    LET f == uploads[u].file
        i == NextChunk(u)
    IN  [j \in DOMAIN uploads[u].done \union {i} |->
            IF j = i THEN ChunksOf[f][i] ELSE uploads[u].done[j]]

SaveAhead(u, done) ==               \* a mutant of SaveProgress: the next chunk, too
    IF Cardinality(DOMAIN done) + 1 = Len(ChunksOf[uploads[u].file])
    THEN [file |-> uploads[u].file, done |-> ChunksOf[uploads[u].file]] ELSE resume
SaveProgress(u, done) ==
    LET n == Cardinality(DOMAIN done)
    IN  IF n % SaveEvery = 0 \/ n = Len(ChunksOf[uploads[u].file])
        THEN [file |-> uploads[u].file, done |-> done] ELSE resume

Verify(u, cid) ==
    /\ uploads' = [uploads EXCEPT ![u].pc = "verify", ![u].cid = cid,
                                  ![u].worker = FALSE, ![u].done = NoChunks]
    /\ Stage("working", [page EXCEPT !.cid = cid])
    /\ lookups' = MoreLookups(lookups, OneLookup(Verifying(u), cid))

Record(u) ==
    /\ uploads[u].pc = "stored"
    /\ LET chunked == IsChunked(uploads[u].file)
       IN  IF AllStored(u) \/ ~chunked
           THEN /\ Verify(u, Block(u))
                /\ resume' = IF chunked THEN NoRecord ELSE resume
           ELSE /\ uploads' = [uploads EXCEPT ![u].done = Recorded(u), ![u].pc = "prepare"]
                /\ resume' = SaveProgress(u, Recorded(u))
                /\ Stage("working", page)
                /\ UNCHANGED lookups
    /\ UNCHANGED <<preimages, handOff>> /\ Fortune

\* What is handed to the preview was read before the upload began.
HandedOver(u) == uploads[u].file

\* "done", the flags cleared, and executeUpload's last step: the preview gets the file.
Finish1(u, verified) ==
    /\ uploads' = [uploads EXCEPT ![u].pc = "done", ![u].timer = FALSE]
    /\ Stage("done", [page EXCEPT !.uploading = FALSE, !.verified = verified])
    /\ handOff' = [cid |-> uploads[u].cid, file |-> HandedOver(u)]

\* verifyUploadedCid: an error of the lookup counts as not found.  With a Store of
\* their own the user is asked to save a CID that was found.
Verified(u) ==
    /\ uploads[u].pc = "verify" /\ Settled(lookups[Verifying(u)])
    /\ lookups' = Restrict(lookups, DOMAIN lookups \ {Verifying(u)})
    /\ \/ Finish1(u, lookups[Verifying(u)].value = "block")
       \/ /\ lookups[Verifying(u)].value = "block"
          /\ uploads' = [uploads EXCEPT ![u].pc = "cache"]
          /\ Stage("caching", [page EXCEPT !.verified = TRUE])
          /\ UNCHANGED handOff
    /\ UNCHANGED <<preimages, resume>> /\ Fortune

\* writeCidToStore came to an end; an error is a warning.
Cached(u) ==
    /\ uploads[u].pc = "cache"
    /\ Finish1(u, page.verified)
    /\ UNCHANGED <<hostVars, resume>> /\ Fortune

\* The flags are those of whichever upload set them last.
GlobalTimeout(u) ==
    /\ uploads[u].timer
    /\ uploads' = [uploads EXCEPT ![u].timer = FALSE]
    /\ IF page.uploading
       THEN Stage("error", [page EXCEPT !.error = TRUE, !.uploading = FALSE])
       ELSE UNCHANGED <<page, form>>
    /\ UNCHANGED <<hostVars, resume, handOff>> /\ Fortune

\* handleTransactionClose, once the dialog is no longer pending: whatever was stored
\* last is previewed when the last verification found its block.
Previewed == form.dialog = "over" /\ page.cid # NoCid /\ page.verified
CloseDialog ==
    /\ form.dialog = "over" /\ ~Previewed
    /\ form' = [form EXCEPT !.dialog = "closed"]
    /\ UNCHANGED <<page, resume, formFrame>>

\* A reload of the tab: only the session storage and the host are left.
ReloadUploads ==
    /\ uploads' = [u \in DOMAIN uploads |->
                      IF uploads[u].pc \in Over THEN uploads[u]
                      ELSE [uploads[u] EXCEPT !.pc = "gone", !.timer = FALSE, !.worker = FALSE,
                                             !.attempt = 0, !.done = NoChunks]]
    /\ handOff' = NoEntry
    /\ UNCHANGED <<preimages, resume>>

Worker(u)  == Prepared(u)
Tab(u)     == RetryStore(u) \/ Record(u) \/ Verified(u) \/ GlobalTimeout(u)
Host(u)    == Store(u) \/ Cached(u)
Failure(u) == WorkerFails(u) \/ StoreErrs(u) \/ StoreRefused(u)
FormStep ==
    \/ ResumePending \/ DiscardPending \/ RemoveFile \/ StartUpload \/ CloseDialog
    \/ \E f \in Files : SelectFile(f)
UploadStep(u) == Worker(u) \/ Tab(u) \/ Host(u) \/ Failure(u)

UploadTypeOK ==
    /\ page.uploading \in BOOLEAN /\ page.error \in BOOLEAN /\ page.verified \in BOOLEAN
    /\ page.stage \in {"idle", "working", "caching", "done", "error"}
    /\ form.mounted \in BOOLEAN /\ form.dialog \in {"closed", "waits", "over"}
    /\ {form.selected, form.expected, form.pending, resume.file, handOff.file}
         \subseteq Files \union {NoFile}
    /\ DOMAIN resume.done \subseteq Nat
    /\ \A u \in DOMAIN uploads :
          /\ uploads[u].file \in Files
          /\ uploads[u].pc \in {"prepare", "store", "backoff", "stored", "verify", "cache"}
                               \union Over
          /\ DOMAIN uploads[u].done \subseteq DOMAIN ChunksOf[uploads[u].file]
          /\ uploads[u].attempt \in 0..StoreRetries
    /\ faults \in 0..MaxFaults

(***************************************************************************)
(* Whatever was resumed and however many uploads ran at once: a CID that   *)
(* an upload verifies or announces names its own file, and the host was    *)
(* given every block below it.                                             *)
(***************************************************************************)
PublishedIsFile ==
    \A u \in DOMAIN uploads :
        uploads[u].cid # NoCid =>
            /\ uploads[u].cid = CidOf(uploads[u].file)
            /\ uploads[u].cid \in preimages
            /\ \A i \in DOMAIN uploads[u].cid.links : uploads[u].cid.links[i] \in preimages

(***************************************************************************)
(* A record, which outlives the uploads and reloads that wrote it, lists   *)
(* only chunks of its file, and only such as the host has stored.          *)
(***************************************************************************)
ResumedAreStored ==
    \A i \in DOMAIN resume.done :
        /\ i \in DOMAIN ChunksOf[resume.file] /\ resume.done[i] = ChunksOf[resume.file][i]
        /\ resume.done[i] \in preimages

(***************************************************************************)
(* The page never shows an upload for ever, even if the host or the user   *)
(* never answers a prompt.                                                 *)
(***************************************************************************)
PageFreed == page.uploading ~> ~page.uploading
=============================================================================
