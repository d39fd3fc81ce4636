# Verification of dotns-sdk

TLA+ models of the stateful parts of this repository, the TLC configurations
that check them on small instances, and TLAPS proofs of the properties that
matter most. All paths below are relative to `src/packages/`.

## 1. The system

`cli/` is a command line tool and SDK, `ui/` a web application. Both let one
account register names on the DotNS contracts (commit, wait, reveal) and store
files on the Bulletin chain as content-addressed blocks.

| Component | Code | State | Operations | What makes it hard |
|---|---|---|---|---|
| Chunked upload | `cli/src/bulletin/store.ts`, `uploadRetry.ts`, `uploadManifest.ts` | queue, adaptive window, nonce, completed blocks, waves in flight, manifest file | read, start a wave, retry inside the wave, requeue a stalled wave, store the root, retry the upload, resume | waves that lose a race against a timer go on; nonces are reused; the client is replaced under way; crash and resume |
| Directory upload | `cli/src/commands/bulletin.ts` (`merkleizeAndUploadDirectory`) | block cache, pending wave, promise chain, set of uploaded CIDs | collect, flush, chained waves | a CID counts as uploaded before it is stored |
| Bulletin authorization | `cli/src/commands/bulletin.ts` | quota of an account | check, authorize, refresh | read, then act |
| Transaction submission | `cli/src/client/polkadotClient.ts`, `cli/src/utils/contractInteractions.ts`, `formatting.ts` | nonce, watched transaction, timer | dry run, sign, watch, abort on timeout, map the account | late answers; two processes and one nonce |
| Name registration | `cli/src/commands/register.ts`, `cli/src/cli/commands/register.ts` | commitment, secret, price, ownership | commit, wait, price, reveal, verify, transfer, resume, clear | crash between chain and disk, expiry, price movement, other registrants |
| Registration record | `cli/src/commands/registrationManifest.ts` | one file per name | save, find, load, delete | shared by processes |
| Name transfer | `cli/src/cli/transfer.ts` | registrar label, owner | sync, transfer | two transactions, either may fail |
| Escrow | `cli/src/commands/escrow.ts`, `cli/src/cli/commands/escrow.ts`, `ui/src/store/useEscrowStore.ts`, `ui/src/components/profile/EscrowTab.vue` | `busyId`, loaded rows; deposits and refunds on the chain | release, withdraw, claim, drain, claim refunds | a claim is two calls; tabs and terminals act on one account |
| Account mapping, label stores | `cli/src/client/polkadotClient.ts`, `cli/src/commands/storeManagement.ts` | the account's mapping and User Store | map, claim, write a CID | look, then act, in two processes |
| Delegation, records, lookup | `cli/src/commands/*.ts` | none of their own | one call each | rules are in contracts outside the repository |
| Upload history | `cli/src/bulletin/cidHistory.ts` | a JSON file | add, list, remove | unlocked read-modify-write; a file that cannot be read counts as empty |
| Keystore and signers | `cli/src/cli/commands/auth.ts`, `cli/keystore/`, `qrSigner.ts`, `commands/auth.ts` | one file per account, the pointer `.default` | set, use, remove, clear; finding a command's account | two commands write the pointer at once, or between another one's look and its signature; failing reads and removals go unnoticed |
| Browser upload | `ui/src/store/useBulletinStore.ts`, `ui/src/components/preview/FileUpload.vue`, `ui/src/lib/bulletinUpload*.ts`, `ui/src/workers/` | lifecycle flags, form, resume record, pending worker requests | select, upload, resume, cancel by timeout | a timeout that does not stop the work; reloads |
| Browser preview | `ui/src/lib/hostPreimage.ts`, `ui/src/views/PreviewView.vue`, `ui/src/lib/previewCache.ts` | the lookups of a walk, what is shown, a hand-off | look up, walk a tree of nodes, show, retry, leave | callbacks early, null or late; routes that change meanwhile; sizes that lie |
| Wallet session | `ui/src/store/useWalletStore.ts` | account, cached permission, one in-flight promise | connect, ensure ready, disconnect | events during an await |
| Browser registration | `ui/src/store/useDomainStore.ts`, `ui/src/components/domain/SearchInput.vue`, `RegisterModal.vue`, `WaitingPeriod.vue`, `ui/src/composables/useAddressResolver.ts` | search, dialog, countdown, pending registration | search, type an owner, commit, count down, reveal | answers out of order; one pending registration for the whole page; sessions that end |
| Views, docs, tooling, ABIs | `ui/src/views/`, `scripts/`, `.github/` | none | | not modelled |

Interaction: the commands own the control flow and its retries; they call the
submission layer, which watches a transaction through a client that may be
replaced under it; the chain executes the account's transactions in nonce order;
a manifest file carries progress from one process to the next.

What makes each component correct, and so what its module is for:

* *Upload*: what is believed stored is stored; no chunk is forgotten; the root
  links exactly the chunks of the file as it is now; progress is never lost
  behind the user's back; memory stays bounded; it ends, and it heals.
* *Directory upload*: a root is published only if every block it reaches is
  stored; each block is sent once unless an attempt failed.
* *Registration*: the saved record can always be resumed; it goes only when the
  name is registered, the user discards it, or a newer executed commitment takes its
  place; a failure leaves a record or says why not; success means the intended owner
  got the name; a command ends.
* *Transaction submission*: a reported success was executed; a reported failure
  is not silently repeated into a second effect.
* *Upload command*: what the history and the User Store list was uploaded; an
  entry is lost only where two commands overlap, or a read, a write or the process
  fails; terminals fail each other only by taking a nonce.
* *Escrow*: what is reported as paid was paid; no claim leaves a deposit where the
  tab cannot reach it.
* *Browser upload*: the CID a user is given is the file's; a resumed upload skips
  only what is stored; the page does not stay busy.
* *Browser preview*: what is shown belongs to the address, is no larger than the
  limit, and appears or fails in the end.
* *Browser registration*: the name goes to the owner that was shown when the
  button was pressed; every dialog can be left.

## 2. Modules

| Module | Role |
|---|---|
| `SigningAccount` | external: a chain as one signing account sees it: `ledger`, `pool`, nonce order, submission, execution, eviction |
| `BulletinChain` | external: the store calls of the uploader on top of it, and a foreign transaction of the same account |
| `DotnsContracts` | external: the contracts on top of it: one name, its commitments, price and owner |
| `UploadSchedule` | pure: `NextAdaptiveWindow` and `SelectWaveChunks` |
| `ChunkedUpload` | the upload: disk, command, loop, waves, root, environment, properties |
| `AbstractUpload` | what an uploader promises; `ChunkedUpload` implements it |
| `DirectoryUpload` | the upload of a directory: importer, chained waves, block retries, upload retries |
| `AbstractDirectory` | what an uploader of a directory promises; `DirectoryUpload` implements it |
| `Keystore` | the accounts on disk, their default, and how a command finds its signer; the failures that nobody notices |
| `UploadCommand` | the commands around an upload, and those of the keystore, in several terminals: authorization, nonces, mapping, User Store, history file |
| `Registration` | `register domain`, `register retry` and `register clear` in several terminals |
| `Escrow` | the escrow tab and the escrow commands on one account |
| `HostPreimage` | the host's blocks and one lookup with its callbacks, timer and abort |
| `BrowserUpload` | upload form, store, worker, resume record |
| `BrowserPreview` | the walk through a document and the view that shows it |
| `BrowserContent` | the router: uploads and previews together in one tab |
| `WalletSession` | connection, permission, readiness of the signer |
| `BrowserRegistration` | search, dialog, countdown and their calls, on a wallet session |
| `MCChunkedUpload`, `MCDirectoryUpload`, `MCUploadCommand`, `MCRegistration`, `MCEscrow`, `MCBrowserContent`, `MCBrowserRegistration` | values for TLC |
| `ChunkedUploadProofs`, `ChunkedUploadRootProofs` | theorems about `ChunkedUpload`; the second extends the first |
| `DirectoryUploadProofs`, `UploadCommandProofs`, `RegistrationProofs`, `EscrowProofs`, `BrowserContentProofs`, `BrowserRegistrationProofs` | theorems about the module each is named after, and those it extends |

`ChunkedUpload` extends `BulletinChain` and `UploadSchedule`; `DirectoryUpload`
extends `BulletinChain`; `Registration` extends `DotnsContracts`; both chains
extend `SigningAccount`. `BrowserContent` extends `BrowserPreview`, that
`BrowserUpload`, that `HostPreimage`; `BrowserRegistration` extends
`WalletSession`; `UploadCommand` extends `Keystore`. `Escrow` stands alone.

### SigningAccount

The ledger is the sequence of the account's executed transactions, so entry
`n + 1` used nonce `n`. A submission is refused because its nonce is spent
(`stale`), or because the pool holds a transaction for it (`pool`), or it joins
the pool; the very same call under the same nonce may do either. A watched
transaction can be dropped, which leaves a gap that those behind it cannot pass
(`Stuck`). The uploader asks for the next index including the pool
(`IsNextIndex`); a contract call asks for the number of executed transactions
only (`Sign`), which is why two terminals collide.

### ChunkedUpload and the code

A control point (`pc`) is an `await`; an action is the synchronous code up to
the next one. Chunks are numbers, in stream order. A chunk's CID is its index
and the version of its bytes, so equal CIDs mean equal bytes. The queue is
always ascending, hence a set.

| Actions | Code |
|---|---|
| `StartAttempt`, `FetchStartNonce` | `createManifestState`, first save, nonce query |
| `ReadChunk` | `pushChunkFromStream`, with the skip of completed chunks |
| `StartWave` | `selectWaveChunks`, nonces, `runWaveWithRetries` raced against a timer |
| `SubmitChunk`, `ChunkSettles`, `ChunkGivenUp`, `ChunkFails` | `storeContentOnBulletin`: submission, best-block event, timer or lost subscription, error |
| `RetryLater`, `Resubmit`, `AbandonedWaveEnds` | the retry loop of one wave, also after nobody awaits it |
| `WaveCompletes`, `WaveThrows`, `WaveTimeout`, `RequeueWave` | end of the race; the stall branch with a new client, a fresh nonce, a halved window |
| `StartRoot` ... `RetryRoot`, `PersistRoot`, `DeleteManifest` | the root node and the end |
| `FailAttempt`, `Crash`, `Restart`, `EditFile` | `runWithUploadRetries`, `loadCompletedBlocksForRetry`, process death, the next command with `cleanupStaleManifests` and `loadManifestForResume`, the user's edits |
| `Executes`, `ExecuteFails`, `Dropped`, `Foreign` | the chain |

Each look for a saved manifest is recorded in `load`: the command came without
`--resume` (`fresh`), the manifest was `read`, it was more than a week `old` and was
removed, or it was `unreadable`, which `readManifestFile` answers like a missing one,
so that the next save replaces it (`LoadForRetry`, `LoadManifestForResume`).

Errors are kept as far as the code tells them apart: `timeout`, `stale` (nonce
spent), `pool` (another transaction holds the nonce), `reconnect` (the client is
gone), `fatal`.

A timer that fires early, while its transaction may still execute, is a
misfortune (`ChunkFails`, `WaveTimeout`) and counted. A timer that fires because
nothing can come any more is not counted (`ChunkGivenUp`): its transaction is
dropped or stands behind a gap, and no submission already under way is about to
fill that gap (`NothingComes`). The wave hands all its submissions to the node
at once and the timers take minutes.

### DirectoryUpload and the code

The tree is a set of occurrences (`Nodes`), each with the CID of its block and
the nodes it links; two occurrences may share a CID. The importer puts nodes
concurrently, a node after what it links.

| Actions | Code |
|---|---|
| `Put`, `Return`, `ImporterEnds`, `FinalFlush` | `put` of the collecting blockstore: a CID is marked as uploaded when it is collected, the put that fills the buffer flushes it and waits for its wave |
| `StartWave`, `EnsureClient`, `FetchNonce` | `flushWave` on the promise chain, the shared client made when first needed |
| `SubmitBlock`, `BlockSettles`, `BlockGivenUp`, `BlockFails` | the submissions of one wave and their timers |
| `WaveCompletes`, `RetryWave`, `RefetchNonce`, `WaveThrows` | blocks that failed are sent again under a fresh nonce; a rejected wave stops those chained behind it |
| `ImportFails`, `FailAttempt` | an error of the importer; `runWithUploadRetries`, whose next attempt builds the tree again from nothing |

`pc` ends as `done`, `failed` (retries used up) or `refused` (an error that is
not worth a retry). After `ImportFails` the chained waves go on with the client
that the attempt destroyed and the next one replaces. Where two submissions of a
block execute, the second is a no-op of the chain; `DagBlock` names the call.

### UploadCommand and the code

A terminal runs `bulletin authorize`, `refresh`, `upload`, `history:remove`,
`history:clear` or `store claim`. How a file gets to the chain is one step here
(`Upload`). Beside these run `auth set`, `use`, `remove` and `clear`, which are the
actions of `Keystore`. A command resolves its account once, at its beginning, and
keeps it (`Account`), whatever becomes of the keystore meanwhile; authorization,
mapping, User Store and its entries are per account.

| Actions | Code |
|---|---|
| `Start`, `SessionEnds` | the command is given: options and context; an `auth` command ends, or no account was found |
| `ReadPointer`, `OpenAccount` | `resolveAuthSource`: the directory, the pointer, then the account's file |
| `MakeDirectory`, `StoreAccount`, `UseAccount`, `FindAccount`, `DeleteAccount` | `auth set`, `use`, `remove` up to the pointer |
| `ReadDefault`, `TakeSuccessor`, `ListAccounts`, `DeleteListed` | the rest of `auth remove`; `auth clear` |
| `Unpoint`, `TruncatePointer`, `FillPointer` | `clearDefaultAccountName`, `writeDefaultAccountName`: truncate, write |
| `PointerUnread`, `AccountOverlooked`, `DefaultUnread`, `AccountsUnlisted`, `PointerStays` | what `pathExists`, `readDefaultAccountName`, `listAccountFiles` and `clearDefaultAccountName` make of an error: nothing |
| `CheckForUpload`, `CheckForAuthorize`, `CheckForRefresh` | `checkAuthorization` and what each command makes of it; a failing read counts as not authorized |
| `Authorize`, `Refresh`, `SubmitRejected`, `VerifyAuthorization` | the extrinsic and the read afterwards |
| `RequireStore`, `LookForStore`, `LookUpMapping`, `ConfirmMapping`, `DryRun`, `AfterCache` | `--cache` and `store claim`: User Store, `ensureAccountMapped`, the estimate of the call; an error of the entry is a warning |
| `TakeNonce`, `Submit`, `Execute`, `Lose` | the mapping, the entry or the claim as a transaction: `fetchNextNonce`, `signAndSubmitExtrinsic`, its execution, an answer that is lost or late |
| `ReadHistory`, `OpenHistory`, `FillHistory`, `HistoryDenied` | `addUploadRecord`, `removeUploadRecord`, `clearHistory`: read, truncate, write; a write that fails |
| `Crash`, `Expires` | a killed terminal, an authorization that expires |

`authorize_account` adds to an authorization that has not expired, a refresh only
moves its expiry (external). The transactions of an account share its nonces: a
nonce is the number of those executed, so one waits in `pool` at a time, and a
terminal that read the same number is refused, be it before that one is executed or
after (`spent`). The watched outcome is that of the block; the pool may drop a
transaction, and one whose terminal went away may still be executed. A history that cannot be
read or parsed, or is read between truncation and write, counts as empty, and the
empty list is written back. Likewise a `.default` that was emptied or cannot be read
counts as none. `store claim` maps the account before it looks for the
store, since its context does. An account stands for its name: what `auth set`
overwrites under a name is not told apart.

### Registration and the code

A terminal is a process of the same account on the same machine: all share the
record file (one per name) and the account's nonces, and nothing else. Its state
is one record: control point, command, the job in hand, whether it resumes, the
retries left, the contract call under way. A job is the content of a
`CommitmentRecord`; the record on disk is a job or `NoJob`.

| Actions | Code |
|---|---|
| `Start` | `executeRegistration`, `executeRetry`, `executeClear` |
| `Check` | `ensureDomainNotRegistered`, eligibility, `generateCommitment`: a fresh secret |
| `DryRun`, `Sign`, `Send`, `Watch`, `TimesOut` | any contract call: `submitTransaction` and `signAndSubmitExtrinsic` under `withTimeout` |
| `AfterCall`, `AfterCommit`, `AfterReveal`, `AfterForget`, `AfterVerify`, `AfterClaims` | the order of the calls, which differs between a fresh and a resumed registration |
| `Save`, `Fill`, `Forget` | `persistCommitment`: the file is opened, and thereby emptied, then written; `forgetCommitment`; all only warn when they fail |
| `Wait`, `Poll` | `waitForMinimumCommitmentAge`: the read, the sleep, the poll of the chain's clock, its deadline |
| `Quote` | the price and `bufferedPaymentWei` |
| `Verify`, `LabelStore`, `Transfer`, `Moved` | `verifyDomainOwnership`, `ensureLabelStoreReady` with its retries, `transferName`, `replayTransfer` |
| `Owned`, `Status` | `resumeRegistration` |
| `Clear`, `Choose` | `executeClear` |
| `Fail`, `Thrown`, `Retried` | `registerWithRetries`: resume the record on disk, or start afresh |
| `Crash`, `ReadFails`, `Trouble` | process death, failing reads, the node and other registrants |

Chain time is not counted: a commitment is `new`, `ripe` or `expired`, since the
code and the contracts compare it only with the minimum and the maximum age. A
failing owner read returns nobody, as `readDomainOwner` does. Whether a reveal
clears its commitment is the contract's affair: both happen. What became of a
terminal's own record is its field `file`: none yet, the file opened, saved, warned of,
or gone because another terminal wrote or removed the file since. Two terminals that
have the file open at once may leave either record, or none that can be read
(`Written`).

### Escrow and the code

An actor is a mounted `EscrowTab` or a terminal; `job[a]` is the action or
command it runs, as the sequence of contract calls it makes (`Calls`). A tab that
is left keeps its action running, so two tabs stand for two windows as well as
for a page that was left and entered again.

| Actions | Code |
|---|---|
| `OnRelease`, `OnClaim`, `OnClaimRefunds` | the buttons, through `runAction`, which does nothing while `busyId` is set |
| `ReleaseName`, `WithdrawName`, `ClaimRefunds`, `ClaimWithdrawalCommand`, `GetPendingWithdrawal` | `escrow release`, `withdraw`, `refunds claim` and `claim-batch`, `claim-withdrawal` with its read of the balance |
| `Executes`, `Answered` | `submitWrite`, `submitContractTransaction`: the contract accepts or reverts; the caller goes on, refreshes, or throws |
| `Refreshed` | `refresh` after a success; its errors go no further |
| `CallFails`, `Gone`, `CooldownEnds` | a call that fails for no rule of the contract, a closed page or killed process, time |

What a row shows is abstracted to any state its name has been in (`Shows`): loads
are not numbered, a failing read drops a name, nobody announces what others do.
The account owns the names and paid their deposits. The rules of the contract
are the errors that its ABI lists.

### The tab's content: HostPreimage, BrowserUpload, BrowserPreview, BrowserContent

A block is a value that stands for its CID: a leaf by name, a node by its links
and by the total its links declare, which may be wrong. A lookup is a record
whose subscription and timer are closed by whatever settles it first (`Finish`).

| Actions | Code |
|---|---|
| `OpenLookup`, `Deliver`, `LookupTimesOut`, `LookupFails`, `Aborted` | `lookupPreimage`: subscription, callback (also during `subscribe`), timer, error, abort |
| `MountForm`, `SelectFile`, `ResumePending`, `DiscardPending`, `StartUpload`, `CloseDialog` | `FileUpload.vue` |
| `Prepared`, `WorkerFails` | the worker client and the worker: chunks and CIDs, an error event |
| `Store`, `StoreErrs`, `RetryStore`, `StoreRefused`, `Record`, `SaveProgress` | one chunk or the root with its retries, and the resume record in the session storage |
| `Verify`, `Verified`, `Cached`, `Throw`, `GlobalTimeout` | the end of an upload; the timer that clears the flags while the upload goes on |
| `FetchContent`, `Watch`, `Retry`, `HidePage`, `Unmount` | `PreviewView.vue`: request number and abort signal |
| `Expand`, `NodeFails`, `TooLarge`, `FetchEnds`, `Settle` | the walk: all links at once, depth and size limits, the last request wins |
| `Navigate`, `OpenPreview`, `Reload` | the router; a reload loses everything but the session storage |

The form assumes a connected wallet. Equal file keys (name, size, modification
time) mean equal contents. After a rejection of `Promise.all` the other branches
of a walk go on. A block that was verified but is not in the cache of the tab
shows as not yet resolvable. Tabs "file" and "folder" of the form are a new mount.

### WalletSession, BrowserRegistration and the code

| Actions | Code |
|---|---|
| `Connect`, `Connected`, `ConnectFails`, `Disconnect`, `TierRead` | `connectWallet`, `handleDisconnect`; the tier is read once, when the application starts |
| `PromptAnswered`, `EnsureSignerReady`, `SignerReady` | `ensureChainSubmit`, shared by the session, also after a denial; `ensureSignerReady`, shared by the writes that wait |
| `Type`, `Classified`, `Checked` | the search: classification, then availability; a failing read counts as free |
| `OpenModal`, `TypeOwner`, `Resolved`, `OwnerTierRead`, `ToggleOther`, `ToggleGovernance` | the dialog and its resolution of owners |
| `StartRegistration`, `CommitmentMade`, `CommitFinalized`, `CommitFails`, `AgeRead` | the commitment, with the values of the form at the click |
| `OpenWaiting`, `CountdownEnds`, `RevealFinalized`, `RevealFails`, `CancelWaiting` | the countdown and the reveal |
| `Hangs` | a write without the permission, which the host rejects or never answers (`useWalletStore.ts:112`); `contractWrite.ts` has no timer |
| `Leave`, `WalletChanges`, `ConnectsAgain` | the page is left, the host ends or starts a session |

Checks, resolutions and reads under way are sets: their answers come in any
order. A page that is left keeps its calls running but hears nothing of them. The
keyboard reaches the page below a dialog, as none of them traps the focus.
Displayed prices, the reverse-record toggle and the transaction status are left
out. The contract's rules are external, as in `DotnsContracts`.

## 3. What TLC checks

| Run | Question | States |
|---|---|---|
| `upload_waves` | three chunks, waves of two, two misfortunes: `QueueTypeOK`, `RecordedAreStored`, `RootClosed`, `NoChunkForgotten` | about 1 060 000 |
| `upload_resume` | two runs of the command, a crash or a transient misfortune, five upload retries, with or without `--resume`, an edit that keeps size and time, a manifest that is a week old or cannot be read: `PublishesCurrentBytes`, `ProgressKept`, `UploadHeals`, `ImplementsAbstractUpload` | about 422 000 |
| `directory` | a tree in which a block occurs twice, waves of two, two misfortunes: `TypeOK`, `MarkedNotForgotten`, `LinksTravelFirst`, `NothingPaidTwice`, `DirectoryEnds`, `ImplementsAbstractDirectory` | about 78 000 |
| `upload_command` | three commands in two terminals, one misfortune, with one account or a keystore that changes: `TypeOK`, `ListedWereStored`, `LossesHaveCauses`, `FailuresAreOutrun` | about 966 000 |
| `register_shared` | two terminals, one misfortune: any failing call, read or write, a timeout, a crash or a rival: `TypeOK`, `RecordIsCommitted`, `FailedIsResumable`, `DoneMeansHeld`, `RecordKept`, `CommandEnds` | about 648 000 |
| `register_alone` | two commands in one terminal, governance, cross-payer and transfer registrations, two retries, two misfortunes, among them the death of the process and an unusable disk: `TransferMade`, `CrashKeepsSecret`, `RegistrationHeals` | about 720 000 |
| `escrow` | two tabs and a terminal, two deposits, two refunds, four actions, one misfortune: `TypeOK`, `SuccessMeansPaid`, `NoDepositStranded` | about 910 000 |
| `browser_content` | two uploads or fetches, several addresses, one misfortune or reload: `TabTypeOK`, `PublishedIsFile`, `ResumedAreStored`, `ShownIsRouted`, `PreviewIsBounded`, `PageFreed`, `PreviewSettles` | about 473 000 |
| `browser_registration` | two texts typed, two registrations, two sessions, one misfortune, writes that hang: `TypeOK`, `RegisteredAsChosen`, `DialogsEnd` | about 413 000 |
| `register_transfer`, `register_owner`, `browser_owner` | violated: `TransferReplayed`, `OwnerReceives`, `OwnerAsTyped` | |

**Bounds of the upload.** Three chunks and a window of two give a wave followed
by a shorter one, and leave a chunk in the queue while two are in flight; one
in-wave retry distinguishes the first from the last try; two misfortunes let a
wave stall and its replacement be hit as well, which is what every known
interaction of abandoned and current waves needs. Two runs and the upload
retries of `upload_resume` cover a hand-over by memory and one by disk; that the
manifest is old or unreadable is no misfortune and may happen at every look.
`MaxFaults`, `MaxRuns` and `MaxEdits` bound the counters; no other bound is put
on behaviour. In `directory` a wave of two leaves a last, shorter one, the block
that occurs twice is linked from two nodes, and two misfortunes exceed the one
retry of a wave, so that upload retries happen too.

**Bounds of the commands.** Two terminals suffice for an overlap of history
writers, for both mapping the account, and for one's mapping taking the nonce of
the other's entry; three commands let one of them act on what the other two left.
One misfortune is a failing read, write or removal, noticed or not, a lost answer, an
expiry or a death; those of the keystore and the history also meet two commands that
overlap in the file. The scenarios of `MCUploadCommand` divide the commands:
`Files` gives one account every command around an upload, authorizations of two
sizes, and uploads with and without an entry in the User Store and the history,
and starts with every combination of an authorization, a mapping and a User
Store; `Keys` starts with every keystore of two accounts and changes it while
others sign with the default, a named account, or a secret of their own.

**Bounds of the registration.** Two terminals suffice for a collision of nonces,
records and commitments, since a terminal only ever meets "another one". One
retry distinguishes resuming from giving up; two commands in a row let the second
find the first one's record. `MaxCommands` and `MaxFaults` bound the counters;
`Troubles` selects the misfortunes a run is about; there are as many secrets as
attempts, so that drawing one never fails. `register_shared` has every kind.
`register_alone` leaves out timeouts for the sake of `RegistrationHeals`: a
transaction that was given up and is executed later takes the nonce of the retry too,
so that one timeout costs two retries. A process may die in both:
`FailedIsResumable` speaks of commands that fail without dying, `CrashKeepsSecret`
says of each death what it takes along (and is proved with timeouts as well), and
`RegistrationHeals` holds of the behaviours without one. Prices are 100
and 105, and the transfer floor 150 lies above both: it is what another owner's
registration pays.

**Bounds of the escrow.** Two deposits let one tab's claim empty the ledger that
another tab has just withdrawn to; the terminal adds a withdraw without a claim
and a drain. Four actions cover releasing and claiming with one interference
each. Tabs, names and entries are interchangeable (symmetry; no liveness is
checked there).

**Bounds of the browser.** `Scope` names the combinations of uploads, fetches and
addresses that `browser_content` tries together (single and chunked files, a node
that lies about its size, nesting at the depth limit, a malformed link). One
misfortune is a failing call, a failing worker or a reload. `SaveEvery` is 1 in
the run: the code saves every fifth chunk, and with the size limit of the form
and the chunk size a file has at most three. `browser_registration` types two
texts and starts two registrations, the least for answers out of order and for
two registrations that share the one pending one.

**Where a run may stop.** The browser runs and nothing else turn deadlock checking
off: a page waits for its user, and a host or chain need not answer.

**Fairness.** `FairSpec` assumes weak fairness of the programs' own steps (a
JavaScript promise chain whose awaited promise has settled runs; timers fire and
the client reports what it knows), each terminal and the waves apart, and of
block production and chain time. In `browser_content` only the browser's steps
are fair: neither host nor user need ever act, which is what the timers are for;
one weak fairness condition for all of them suffices because each has finitely
many steps. `browser_registration` also relies on answers of host and chain, as
its code has no timeouts, with one exception that the code itself names: a write for
which the host has not granted the permission may be left without an answer
(`Hangs`), and then the button or the countdown stays. `DialogsEnd` excuses a dialog
or countdown exactly while the write it waits for hangs, and no other. Nothing obliges a fault, a crash, a restart, an edit or
a command to happen. The liveness properties need that misfortunes are finitely
many; the bound on them is that assumption.

**Findings.**

* The record's transfer destination is documented as replayed on resume. When
  the reveal was executed but the process stopped before seeing so, resuming
  finds the name owned and ends without the transfer (`register_transfer`).
* A retry resumes whatever record of the name is on disk, also an earlier
  command's for another owner: the name then goes to that owner, and the command
  reports the owner it was given (`register_owner`).
* The answer for an owner that was typed earlier overwrites the one typed since:
  the dialog shows one text and registers for another address (`browser_owner`).

**Met while modelling, without a run.**

* "If the terminal closes after the commit but before the reveal, the CLI stores a
  local encrypted commitment record" (`ui/src/views/docs/tools/CliPage.vue:143`). It
  does not if the terminal closes between the submission of the commitment and the end
  of `persistCommitment`, if the call times out and its transaction is executed later
  (`utils/contractInteractions.ts:133`), or if the file cannot be written, which is
  only warned about. The file is written in place (`registrationManifest.ts:128`): a
  record that was there is gone from the moment it is opened, and a newer registration
  of the same name replaces the live secret of an older one without a word.
  `CrashKeepsSecret`, `FailedIsResumable` and `RecordKept` say that nothing else
  loses a secret.
* `cli/src/commands/register.ts:46` says the payment carries ten percent over
  the price; the constant beside it (line 48) adds nothing, and a price that rises
  before execution reverts the reveal. `Registration` includes it: the
  misfortune `price` makes the reveal fail as `underpaid`.
* `completedChunks` is documented as the number of chunks stored so far
  (`cli/src/types/types.ts:842`). A chunk stored by an abandoned wave and again by
  its replacement counts twice (`bulletin/store.ts:787`).
* `bulletin refresh` calls `expirationToISOString` and `formatExpirationDisplay`
  (`cli/src/cli/commands/bulletin.ts:643`, `:650`) with the block and the
  expiration exchanged (`commands/bulletin.ts:188`).
* The escrow tab offers nothing that empties the pull-payment ledger. When the
  claim's second call fails, or a terminal withdrew, the row says "Claimed"
  though the deposit is still on the ledger; only `escrow claim-withdrawal` pays
  it out.
* Claiming all refunds of the second page leaves that page selected: "No pending
  refunds" is shown, the pager is hidden, and the first page's entries cannot be
  reached until the tab is mounted again. A late answer for another page may be
  shown under the selected one.
* "The CLI refuses to sign transactions with the shared public dev account"
  (`cli/README.md:40`): without a keystore directory or another source it warns
  and signs (`cli/context.ts:77`, `commands/auth.ts:197`); in the model a plain
  command then has the signer `Dev`.
* `--account default` signs with whatever account `.default` names, not with the
  one stored as "default" (`commands/auth.ts:99`). A first `auth set` that is
  abandoned at a prompt leaves an empty keystore directory, after which plain
  commands fail for want of an account instead of signing with the development
  account. Two commands that write the pointer at once, or a death between its
  truncation and its write, may leave it empty or on a deleted account. So may a
  failure that is swallowed: a pointer or directory that cannot be read counts as
  empty (`cli/commands/auth.ts:68`, `:93`), a pointer that cannot be removed stays
  (`:83`). `LossesHaveCauses` says that nothing else does, and that the next `auth
  set`, `use` or `clear` that has the keystore to itself puts it right.
* A history that cannot be read counts as empty, and the next command writes it back
  so (`bulletin/cidHistory.ts:53`): all its entries are lost though nobody overlapped.
  `LossesHaveCauses` names this cause among others.
* The nonce of a contract call ignores the pool (`client/polkadotClient.ts:303`), so a
  terminal that maps the account, claims the store or writes an entry makes another's
  call fail. A rejected mapping is looked up once more; an entry or a claim is not
  repeated, and the upload ends with a warning. `FailuresAreOutrun` says that without
  misfortune this is the only way in which terminals fail each other.
* Browser uploads save progress every fifth chunk, while three is the most a
  file has: "completed chunks are saved" (`useBulletinStore.ts:49`, `:406`) is not
  so after a refusal before the last chunk. The form says that files over 8 MB
  are chunked; the limit is `MAX_TX_SIZE`, 2 MiB.
* Browser registration keeps one pending registration and one countdown: a second
  registration during a countdown replaces what will be revealed, and a 400 ms
  timer may reveal a registration a second time. `RegisteredAsChosen` still
  holds, since each reveal carries the values of its own click.
* A failed conversion of an SS58 address gives the zero address as owner without
  an error (`useWalletStore.ts:289`, `:300`); failing availability reads count as
  free; a failing price read pays nothing; a denied permission is kept until the
  session ends and `ensureSignerReady` goes on without it, unlike its comments
  say (`useWalletStore.ts:194`, `:270`); the tier is read only once
  (`AppInitializer.ts:37`).

Every passing property also has a mutation of a modelled definition that breaks
it (the operators marked "a mutant" beside the definitions they replace), so
that none of them holds for want of behaviour.

## 4. What is proved

Every safety invariant of the passing runs, the three action properties and the
refinements of `AbstractUpload` and `AbstractDirectory` are theorems. TLC checks each
on a small instance, the proofs for every value of the constants that satisfies
the named assumptions of the modules. The proofs follow one pattern: an inductive
invariant that says of each control point what the code relies on there, one lemma
per handler that it is kept, and the properties as consequences.

### The chunked upload

`ChunkedUploadProofs` (assumptions: every chunk fits the byte budget, at least one
root attempt, errors are among the four kinds):

* `TypeCorrect`: `Spec => []QueueTypeOK`. It is inductive because a sleeping
  wave has a retry left (`WaveRecords`); the window bounds need `HalvedWindow`
  and `NextAdaptiveWindow` to stay in `1..MaxWindow` (lemmas). Its last part,
  `BufferBound`, is not inductive by itself: a stalled wave's chunks are put back, so
  the invariant adds `NoWaveOutside`, that the loop holds no wave except while it
  races or is about to be requeued.
* `RecordsCorrect`: `Spec => []RecordedAreStored`. Inductive on top of `QueueTypeOK`:
  the ledger only grows (`Stored` is stable), and the only step that adds a
  record does so on an executed, successful transaction of that very block.

`ChunkedUploadRootProofs`, under the same assumptions:

* `UploadInvariance`: `Spec => []UploadInv`, which adds `AttemptInv` to the above.
  `NoChunkForgotten` alone is not inductive: that the chunks of an abandoned wave
  are found again needs that they are those of the last wave (`CurrentWave`), that
  a wave sent nothing the stream had not delivered and that what it sent well is
  completed (`WavesFit`, `Delivered`). That a root has every chunk once, with the
  bytes of now, needs that a map of blocks holds a chunk once (`SingleRecords`),
  that what the stream has passed is recorded as it is now (`CurrentOnes`), and that
  the root is built only behind a complete stream (`RootReady`).
* `NothingForgotten`, `RootsAreClosed`, `PublishedAsIs`: the invariants of the runs.
* `ProgressIsKept`: the action property `ProgressKept`. `Saved` (an attempt that may
  take over what the manifest keeps, and could read it, has done so) is why a save that
  replaces the manifest takes nothing away: with `--resume`, and on every retry that
  can read it, all of it is kept.
* `UploadImplementsAbstract`: `Spec => ImplementsAbstractUpload`. Each action is
  mapped to a step or a stutter of `AbstractUpload`: an executed block is
  `StoreChunk`, an executed root is `PublishRoot` (by `RootsAreClosed` its links are
  available and complete), a save is `Record` (by `RecordsCorrect`).

### The directory upload

`DirectoryUploadProofs`, for any tree in which blocks may be shared, any size of
waves and any number of retries and misfortunes (assumptions: a CID determines the
CIDs its block links, which is what a hash does; a wave holds at least one block):

* `BooksAreKept`: `Core`, the part of the invariant that holds whatever fails. A CID
  that is marked is held or waits (`Marked`); what waits is ordered, buffer behind
  queue behind running wave, so that what a block links is held or ahead of it
  (`Ordered`); nothing waits twice (`Once`); the counter is the number of marked CIDs
  that no longer wait (`Counted`); and the importer is through only when the waves are
  (`Phased`).
* `TypeCorrect`, `NothingMarkedIsForgotten`, `LinksFirst`:
  consequences of it. A retry resends a part of a wave: lemmas about subsequences
  (`Ranked` and those behind it) show that the part keeps the order and loses no block.
* `Invariance` adds `Faultless`: without a misfortune each wave starts at the nonce
  the chain expects and what is in flight is what the chain executes next (`InStep`,
  `Smooth`). `NothingIsPaidTwice` follows.
* `DirectoryImplementsAbstract`: `Spec => ImplementsAbstractDirectory`. An executed
  block is `StoreBlock`: while nothing has gone wrong the block whose turn it is
  belongs to the running wave (`InStep`), what it links is held or before it in the
  wave (`Ordered`), and what is before it has been executed. The importer's return
  is `Publish`: every block is stored (`Marked`, with nothing waiting), and the
  number it announces is that of the distinct blocks (`Counted`); a misfortune is `Strike`, or
  `GiveUp` if it ends the upload; a wave
  throws only behind one (`FailuresAreTroubled`).

### The upload command

`UploadCommandProofs`, for any terminals, accounts, contents, scenarios and any
number of commands and misfortunes:

* `Invariance`: which command gets to which point (`PointFits`), that from its first
  transaction on it signs with an account it no longer changes (`SignedFits`), and
  that an entry is written only behind an upload of that account (`UploadFits`).
  `PoolInv` says that at most one transaction of an account waits and who watches it,
  and that what waits is well founded: an entry of something stored, a call of a mapped
  account.
* `TypeCorrect`, `ListedStored`: consequences of these.
* `FilesComplete`: `Spec => []LossesHaveCauses`. `HistoryInv` follows each entry apart:
  outside `doubtful` the file agrees with what was promised, and outside `unseen` what
  a command has read does, whatever the others do. `KeystoreInv` says how far pointer
  and accounts are apart in the midst of a command, as long as nothing has come in
  between since a command put both right.
* `OutrunOnly`: `Spec => []FailuresAreOutrun`. `RaceInv`: until something goes wrong, a
  terminal whose nonce is spent or whose mapping was refused finds the account mapped,
  or the mapping in the pool.

### The registration

`RegistrationProofs`, for any set of terminals, owners, prices and intents and
any number of commands, retries and misfortunes (assumptions: the account and
the rival are two owners and nobody is none; an intent never names the rival; at
least one claim attempt):

* `Invariance`: `Spec => []Inv`. `Inv` says of each control point what its
  terminal may rely on there (`Good`): a job at hand, a call that fits the job
  (`CallFits`), an executed commitment before it is saved, an executed reveal
  before the record is forgotten, a name that was held before it is transferred.
  Beside it stand `OwnerInv` (the owner is a rival or somebody an executed call
  gave the name to, and a name once given has an owner), `RecordInv` and
  `PoolInv` (one transaction per nonce, without which an execution could not be
  told from another). A terminal's step keeps the others' part because it leaves
  ledger and owner alone; a step of the chain keeps all of it because a ledger
  only grows (`Grows`) and an owned name stays owned (`ChainKeepsTerminals`).
* `TypeCorrect`, `RecordsCommitted`, `SuccessMeansHeld`, `TransfersMade`: the
  invariants of the runs, as consequences.
* `RecordsKept`: the action property `RecordKept`, by cases of the steps that open,
  write or remove a record.
* `FailuresResumable`: `Spec => []FailedIsResumable`, for any number of terminals and
  any misfortunes, timeouts and disk errors among them. The invariant `KeptInv` follows
  a secret that is nowhere but in its terminal (`Own`): its commitment is neither on
  the chain nor in the pool (`Unsent`), or under the watched nonce only (`Sent`), and
  until a record is written the terminal does nothing but commit (`Unwritten`). For
  that it needs that a drawn secret is new (`SecretsInv`) and no other terminal's
  (`Distinct`), and that the pool is ahead of the chain (`PoolAhead`): so a call that
  failed because its nonce was spent, or will never be executed, has left no commitment
  behind. What counts as an excuse is what the user was told (`warned`) and what
  another terminal did to the file (`gone`), and nothing else.
* `CrashesKeepSecrets`: the action property `CrashKeepsSecret`, from the same
  invariant and as general.

### The escrow

`EscrowProofs`, for any names, entries, tabs and terminals and any number of
actions and misfortunes (assumptions: an actor is a tab or a terminal, not both;
a name is no entry; the bounds are numbers):

* `Invariance`: `Spec => []Inv`. The properties are about the end of a job, so
  `Inv` says at each of its steps what its accepted calls have brought about
  (`Reached`): after the withdraw the deposit is on the ledger or paid, after the
  claim it is paid, and a drain's deposits are never lost from sight. Other actors
  keep it because what counts only grows (`Grows`, `OthersKeep`): whoever empties
  the ledger pays this account. `Explained` names the claim that a deposit on the
  ledger belongs to: one that stands between its two calls (`Between`), which by
  `ClaimsByTabs` is a tab's.
* `TypeCorrect`, `SuccessPaid`, `NothingStranded`: the three properties of the run,
  as consequences.

### The browser

`BrowserContentProofs`, for any files, shared documents and addresses, any number of
uploads, fetches and misfortunes (assumptions: a file is a nonempty sequence of
leaves; a document is a block with a sequence of links; the limit on the depth is positive; what
can be uploaded is within the limit of what is previewed):

* `Invariance`: a lookup that answers with a block answers with one the host has
  (`LookupInv`); what an upload or a resume record counts as done are chunks of its own
  file that the host has (`Sound`), so that its root, once it has a CID, is complete
  (`Published`); and a fetch that may still come back is the one of the route
  (`ViewInv`: a fetch of an earlier route is aborted, or over).
* `TypeCorrect`, `WhatIsPublished`, `WhatIsResumed`, `WhatIsShown`: the invariants of
  `BrowserUpload` and `BrowserPreview`, with both running in one tab.
* `WhatIsShownIsBounded`: `Spec => []PreviewIsBounded`, by a second invariant,
  `WalkInv`. The property speaks of the tree below a CID (`Tree`, by paths of links),
  the code of lookups that come and go; `WalkInv` says that the lookups of a fetch
  are a part of that tree that is closed under siblings (`Placed`, `Children`): an
  expanded node has all its children looked up, under the CIDs that its links name.
  A walk whose nodes have all come and are all expanded is then the whole tree, path
  by path (`LeadsAreLookedUp`, by the shortest path that is missing, and its converse
  `LookedUpAreLeads`), so that what was assembled is what the property adds up
  (`CompleteIsTree`). Contents handed over by an upload are shown without a walk;
  that they are within the limit is the assumption `UploadsAreSmall`:
  `MAX_BROWSER_UPLOAD_SIZE` (`lib/bulletinUpload.ts`) is 5 MB,
  `MAX_INLINE_PREVIEW_BYTES` (`lib/ipfs.ts`) is 25 MB.

`BrowserRegistrationProofs`, for any names, people and inputs and any number of
clicks, connections and misfortunes (assumptions: an address denotes itself; the
user connects at least once):

* `Invariance`: the dialog, the pending registration, the countdown and the reveal
  point to clicks that exist (`Pointers`), and a registration is what was chosen
  (`Chosen`): needed because the dialog may be closed and used again while the
  calls of an earlier click are under way, which keep what they were called with.
* `TypeCorrect`, `ChosenIsRegistered`: the invariants of the run.

### Only model-checked

* Liveness under fairness (`UploadHeals`, `CommandEnds`, `RegistrationHeals`,
  `DirectoryEnds`, `PageFreed`, `PreviewSettles`, `DialogsEnd`): outside the proof
  system, which has neither fairness nor `ENABLED`.
* The properties of the violation runs, which do not hold.

## 5. Plan

Done: the uploads of files and directories, the commands around them, the
registration in the terminal and in the browser, the escrow, uploads and
previews in the browser; theorems for all their safety properties.

Next: an abstract registration (committed, revealed, transferred), which
`Registration` implements for each terminal's job.

## 6. Not modelled

* Console output, encodings (CID, UnixFS, SCALE), encryption, prompts, the QR signer, option parsing,
  the upload profiler and reporter, benchmarks: no property here depends on them.
* Pages that only read and print, and documentation pages, which are a large part
  of `ui/`. The profile pages load lists and make one contract call per button;
  overlapping loads are not told apart, and nothing says which should win.
* Commands that are one read or one contract call (delegation, records, reverse
  records, lookup, most of `store`): their rules are those of contracts that are
  not in the repository.
* Generated code: contract ABIs and chain descriptors.
* Chain reorganisation: a transaction in a best block counts for the code, and
  the model's blocks are final. Contracts: only the rules the callers rely on.
* Of the registration: mapping the account before the first call (modelled in
  `UploadCommand`), the parent of a subname, listing records, a record that
  another password encrypted (resuming it throws, and it stays), and the fee of
  a transfer. A name the account may not register is a failing read: both end
  the attempt.
* Of the escrow tab: loading, paging and totals (see `Shows`).
