---------------------------- MODULE UploadCommand ----------------------------
(***************************************************************************)
(* The commands around an upload (packages/cli/src/cli/commands/bulletin.ts*)
(* and commands/bulletin.ts): bulletin authorize, refresh, upload,         *)
(* history:remove, history:clear, and store claim, run in several          *)
(* terminals of one user, and auth set, use, remove, clear, which change   *)
(* what account the others sign with (Keystore).  The terminals share each *)
(* account's Bulletin authorization, its nonces, mapping and User Store on *)
(* the Asset Hub, and the history file (bulletin/cidHistory.ts), which each*)
(* reads, changes and writes back without a lock.  How a file gets to the  *)
(* chain is the business of ChunkedUpload and DirectoryUpload; here it is  *)
(* one step.                                                               *)
(***************************************************************************)
EXTENDS Integers, Keystore

CONSTANTS
    Cids,           \* contents a user uploads
    Scenarios,      \* commands a user may give, and what he starts with
    MaxCommands,    \* bound: commands in all
    MaxFaults       \* bound: failing reads and writes, lost answers, crashes, expiries

SigningCommands == {"authorize", "refresh", "upload", "claim"}
HistoryCommands == {"remove", "clear"}
AuthCommands    == {"authSet", "authUse", "authRemove", "authClear"}
CommandNames    == SigningCommands \union HistoryCommands \union AuthCommands

Request == [name : CommandNames, account : Names \union {NoName, Secret}, cid : Cids,
            grant : Nat, force : BOOLEAN, cache : BOOLEAN, keep : BOOLEAN]

\* What is there at first: the accounts in the keystore, and those that are authorized,
\* mapped, and hold a User Store.
ASSUME ScenariosAssumption ==
    \A s \in Scenarios : /\ s.requests \subseteq Request /\ s.keystore \subseteq Names
                         /\ s.granted \subseteq Signers /\ s.mapped \subseteq Signers
                         /\ s.claimed \subseteq s.mapped
                         /\ \A req \in s.requests :
                              req.name \in AuthCommands => req.account \in Names
\* What a file that was not written whole seems to list.
Torn == "torn"
ASSUME CidsAssumption == Torn \notin Cids
ASSUME BoundsAssumption == MaxCommands \in Nat /\ MaxFaults \in Nat

VARIABLES
    \* The chains.
    authorization,  \* of each account: [granted, allowance, expired]
    stored,         \* contents the Bulletin chain holds, with who stored them
    mapped,         \* accounts that are mapped to an EVM address
    userStore,      \* accounts that have a User Store
    cached,         \* contents the User Stores list, with the account
    pool,           \* of each account: its Asset Hub transaction that waits, if any
    spent,          \* terminals whose nonce another transaction has used up
    \* The disk.
    history,        \* contents of uploads.json; it cannot be parsed if it is torn
    \* The terminals.
    proc,
    \* Bookkeeping.
    scenario,
    commands,       \* commands given so far
    promised,       \* contents added and not removed since
    doubtful,       \* contents the history may list although removed, or not list
    unseen,         \* of each terminal: contents it may have read wrong
    faults

nonceVars == <<pool, spent>>
chainVars == <<authorization, stored, mapped, userStore, cached, nonceVars>>
ghostVars == <<promised, doubtful, unseen>>
setting   == <<scenario, commands>>
vars == <<chainVars, history, keystoreVars, proc, setting, ghostVars, faults>>

NoRequest == [name |-> "none"]
Idle == [pc |-> "idle", req |-> NoRequest, seen |-> {}, outcome |-> "none",
         entry |-> "none"]

ControlPoints ==
    { "idle",
      "auth",        \* an auth command, whose way is in its session
      "check",       \* next: the authorization is read
      "submit",      \* next: authorize_account or refresh_account_authorization
      "verify",      \* next: the authorization is read again
      "store",       \* next: the upload itself
      "find",        \* next: the User Store is looked up
      "map",         \* next: the mapping is looked up
      "mapNonce",    \* next: map_account takes a nonce
      "mapSend",     \* next: it is submitted
      "mapWatch",    \* it waits to be executed
      "mapConfirm",  \* next: the mapping is looked up after a rejection
      "write",       \* next: the dry run of the contract call
      "nonce",       \* next: the call takes a nonce
      "send",        \* next: it is submitted
      "watch",       \* it waits to be executed
      "read",        \* next: the history is read
      "open",        \* next: the history file is opened and truncated
      "fill",        \* next: its new content is written
      "ended" }

\* "outrun": failed because another transaction has taken the nonce.
Outcomes == {"none", "ok", "failed", "outrun", "notApplied"}
EntryOutcomes == {"none", "made", "noStore", "failed", "outrun"}   \* of the User Store's entry

NoCall == [name |-> "none"]
Calls  == [name : {"map_account", "claimUserStore", "setValue"}, cid : Cids]

Init ==
    /\ scenario \in Scenarios
    /\ KeystoreInit(scenario.keystore)
    /\ authorization = [a \in Signers |->
           [granted   |-> a \in scenario.granted, expired |-> FALSE,
            allowance |-> IF a \in scenario.granted THEN 1 ELSE 0]]
    /\ mapped = scenario.mapped /\ userStore = scenario.claimed
    /\ stored = {} /\ cached = {} /\ history = {}
    /\ pool = [a \in Signers |-> NoCall] /\ spent = {}
    /\ proc = [p \in Procs |-> Idle]
    /\ commands = 0 /\ faults = 0
    /\ promised = {} /\ doubtful = {} /\ unseen = [p \in Procs |-> {}]

Misfortune == faults < MaxFaults /\ faults' = faults + 1
Fortune    == UNCHANGED faults

At(p, pc)   == proc[p].pc = pc
Asks(p, S)  == proc[p].req.name \in S
GoTo(p, pc) == proc' = [proc EXCEPT ![p].pc = pc]
End(p, outcome) == proc' = [proc EXCEPT ![p].pc = "ended", ![p].seen = {}, ![p].outcome = outcome]
Free(p)     == proc[p].pc \in {"idle", "ended"}

\* The account of the command: its context is made once, at its beginning.
Account(p)  == session[p].signer
Entry(p)    == <<Account(p), proc[p].req.cid>>

\* Where a command begins.  The context of store claim maps the account.
First(name) ==
    CASE name \in HistoryCommands -> "read"
      [] name \in AuthCommands -> "auth"
      [] name = "claim" -> "map"
      [] OTHER -> "check"

\* Its way through the keystore.
Session(req) ==
    CASE req.name \in HistoryCommands -> NoSession
      [] req.name \in SigningCommands -> Wanted(req.account)
      [] OTHER -> [NoSession EXCEPT
             !.name = req.account,
             !.pc = CASE req.name = "authSet" -> "mkdir" [] req.name = "authUse" -> "find"
                      [] req.name = "authRemove" -> "look" [] OTHER -> "list"]

Start(p) ==
    /\ Free(p) /\ commands < MaxCommands
    /\ commands' = commands + 1
    /\ \E req \in scenario.requests :
          /\ proc' = [proc EXCEPT ![p] = [Idle EXCEPT !.req = req, !.pc = First(req.name)]]
          /\ session' = [session EXCEPT ![p] = Session(req)]
    /\ UNCHANGED <<chainVars, history, directory, accounts, pointer, raced, scenario,
                   ghostVars, faults>>

KeystoreMoves(p) ==
    /\ KeystoreStep(p)
    /\ UNCHANGED <<chainVars, history, proc, setting, ghostVars, faults>>

KeystoreSlips(p) ==
    /\ KeystoreFails(p) /\ Misfortune
    /\ UNCHANGED <<chainVars, history, proc, setting, ghostVars>>

\* An auth command has ended, or a command has found no account.
SessionEnds(p) ==
    /\ ~Free(p)
    /\ \/ session[p].pc = "changed" /\ End(p, "ok")
       \/ session[p].pc = "refused" /\ End(p, "failed")
    /\ UNCHANGED <<chainVars, history, keystoreVars, setting, ghostVars, faults>>

Ready(p) == session[p].pc \in {"none", "resolved"}

(***************************************************************************)
(* Authorization.                                                          *)
(***************************************************************************)
\* checkAuthorization: a read that fails is an account that is not authorized.  The
\* account an authorize or refresh is about is the caller's own.
NotAuthorized == [granted |-> FALSE, allowance |-> 0, expired |-> FALSE]
ReadAuthorization(p, seen) ==
    \/ seen = authorization[Account(p)] /\ Fortune
    \/ seen = NotAuthorized /\ Misfortune

Valid(a)      == a.granted /\ ~a.expired
Sufficient(a, grant) == Valid(a) /\ a.allowance >= grant

authFrame == <<chainVars, history, keystoreVars, setting, ghostVars>>

\* checkAuthorization finds an account that may be uploaded for, one that needs no
\* more, or one whose authorization can be refreshed.
CheckForUpload(p) ==
    /\ At(p, "check") /\ Asks(p, {"upload"})
    /\ \E seen \in {authorization[Account(p)], NotAuthorized} :
          /\ ReadAuthorization(p, seen)
          /\ IF Valid(seen) THEN GoTo(p, "store") ELSE End(p, "failed")
    /\ UNCHANGED authFrame

CheckForAuthorize(p) ==
    /\ At(p, "check") /\ Asks(p, {"authorize"})
    /\ \E seen \in {authorization[Account(p)], NotAuthorized} :
          /\ ReadAuthorization(p, seen)
          /\ IF Sufficient(seen, proc[p].req.grant) /\ ~proc[p].req.force
             THEN End(p, "ok") ELSE GoTo(p, "submit")
    /\ UNCHANGED authFrame

CheckForRefresh(p) ==
    /\ At(p, "check") /\ Asks(p, {"refresh"})
    /\ \E seen \in {authorization[Account(p)], NotAuthorized} :
          /\ ReadAuthorization(p, seen)
          /\ IF seen.granted THEN GoTo(p, "submit") ELSE End(p, "failed")
    /\ UNCHANGED authFrame

\* authorize_account adds to an authorization that has not expired, whose expiry
\* stays, and replaces one that has.
Granted(a, grant) ==
    IF Valid(a) THEN [a EXCEPT !.allowance = @ + grant]
    ELSE [granted |-> TRUE, allowance |-> grant, expired |-> FALSE]

submitFrame == <<stored, mapped, userStore, cached, nonceVars, history, keystoreVars, setting, ghostVars>>

\* Either transaction may be applied although its answer is lost.
Authorize(p) ==
    /\ At(p, "submit") /\ Asks(p, {"authorize"})
    /\ authorization' = [authorization EXCEPT ![Account(p)] = Granted(@, proc[p].req.grant)]
    /\ \/ GoTo(p, "verify") /\ Fortune
       \/ End(p, "failed") /\ Misfortune
    /\ UNCHANGED submitFrame

Refresh(p) ==
    /\ At(p, "submit") /\ Asks(p, {"refresh"})
    /\ authorization' = [authorization EXCEPT ![Account(p)].expired = FALSE]
    /\ \/ End(p, "ok") /\ Fortune
       \/ End(p, "failed") /\ Misfortune
    /\ UNCHANGED submitFrame

\* The signer may not authorize, or the transaction never gets to the chain.
SubmitRejected(p) ==
    /\ At(p, "submit") /\ End(p, "failed") /\ Misfortune
    /\ UNCHANGED authFrame

VerifyAuthorization(p) ==
    /\ At(p, "verify")
    /\ \E seen \in {authorization[Account(p)], NotAuthorized} :
          /\ ReadAuthorization(p, seen)
          /\ End(p, IF Sufficient(seen, proc[p].req.grant) THEN "ok" ELSE "notApplied")
    /\ UNCHANGED authFrame

Expires ==
    /\ \E a \in Signers :
          /\ Valid(authorization[a]) /\ Misfortune
          /\ authorization' = [authorization EXCEPT ![a].expired = TRUE]
    /\ UNCHANGED <<submitFrame, proc>>

(***************************************************************************)
(* The upload, and the entry of its CID in the User Store.                 *)
(***************************************************************************)
Warned(p) == GoTo(p, "read")        \* a mutant: a failed upload is only reported
UploadFails(p) == End(p, "failed")

\* The upload stores its content if the account is still authorized, and throws if
\* not; or it throws although the content is, or is not, stored.
Upload(p) ==
    /\ At(p, "store")
    /\ LET req == proc[p].req
           after == IF req.cache THEN "find" ELSE IF req.keep THEN "read" ELSE "ended"
       IN  \/ /\ Valid(authorization[Account(p)]) /\ Fortune
              /\ stored' = stored \union {Entry(p)}
              /\ IF after = "ended" THEN End(p, "ok") ELSE GoTo(p, after)
           \/ /\ Valid(authorization[Account(p)]) /\ Misfortune
              /\ \E made \in SUBSET {Entry(p)} : stored' = stored \union made
              /\ UploadFails(p)
           \/ /\ ~Valid(authorization[Account(p)]) /\ Fortune
              /\ UploadFails(p) /\ UNCHANGED stored
    /\ UNCHANGED <<authorization, mapped, userStore, cached, nonceVars, history, keystoreVars,
                   setting, ghostVars>>

CountedAsWarning(p, entry) ==       \* a mutant: the warning is the command's outcome
    proc' = [proc EXCEPT ![p].entry = entry, ![p].pc = "ended", ![p].outcome = entry]

\* After the entry in the User Store: whether it was made, skipped or failed, the
\* upload goes on; an error is only a warning.
AfterCache(p, entry) ==
    IF proc[p].req.keep
    THEN proc' = [proc EXCEPT ![p].entry = entry, ![p].pc = "read"]
    ELSE proc' = [proc EXCEPT ![p].entry = entry, ![p].pc = "ended", ![p].outcome = "ok"]

\* The code reports the node's answer; what took the nonce is only known here.
Blame(p) == IF p \in spent \/ pool[Account(p)] # NoCall THEN "outrun" ELSE "failed"
ContractFails(p) ==
    IF Asks(p, {"claim"}) THEN End(p, Blame(p)) ELSE AfterCache(p, Blame(p))

contractFrame == <<authorization, stored, mapped, userStore, cached, history, keystoreVars,
                   setting, ghostVars>>

\* An entry needs the store; a claim needs that there is none.
RequireStore(p) ==
    /\ At(p, "find") /\ Asks(p, {"upload"})
    /\ \/ Fortune /\ IF Account(p) \in userStore THEN GoTo(p, "map") ELSE AfterCache(p, "noStore")
       \/ ContractFails(p) /\ Misfortune
    /\ UNCHANGED <<contractFrame, nonceVars>>

LookForStore(p) ==
    /\ At(p, "find") /\ Asks(p, {"claim"})
    /\ \/ Fortune /\ IF Account(p) \in userStore THEN End(p, "ok") ELSE GoTo(p, "write")
       \/ ContractFails(p) /\ Misfortune
    /\ UNCHANGED <<contractFrame, nonceVars>>

\* ensureAccountMapped.  A look that fails finds no mapping.
IsMapped(p) == Account(p) \in mapped
Mapped(p)   == GoTo(p, IF Asks(p, {"claim"}) THEN "find" ELSE "write")

LookUpMapping(p) ==
    /\ At(p, "map")
    /\ \/ IsMapped(p) /\ Mapped(p) /\ Fortune
       \/ ~IsMapped(p) /\ GoTo(p, "mapNonce") /\ Fortune
       \/ GoTo(p, "mapNonce") /\ Misfortune
    /\ UNCHANGED <<contractFrame, nonceVars>>

GiveUp(p) == ContractFails(p)       \* a mutant: a rejection is final

\* The rejected mapping is looked up once more before the error counts.
Confirm(p) == IF IsMapped(p) THEN Mapped(p) ELSE ContractFails(p)

ConfirmMapping(p) ==
    /\ At(p, "mapConfirm")
    /\ \/ Confirm(p) /\ Fortune
       \/ ContractFails(p) /\ Misfortune
    /\ UNCHANGED <<contractFrame, nonceVars>>

\* claimUserStore reverts if the store exists by now.
DryRun(p) ==
    /\ At(p, "write")
    /\ \/ /\ Fortune
          /\ IF Asks(p, {"claim"}) /\ Account(p) \in userStore
             THEN End(p, "failed") ELSE GoTo(p, "nonce")
       \/ ContractFails(p) /\ Misfortune
    /\ UNCHANGED <<contractFrame, nonceVars>>

(***************************************************************************)
(* A transaction of the account.  Its nonce is the number of those executed*)
(* (fetchNextNonce), so that of two terminals which read the same number   *)
(* one is refused: the other's transaction waits under that nonce, or has  *)
(* used it up.                                                             *)
(***************************************************************************)
Rejected(p) == IF At(p, "mapSend") THEN GoTo(p, "mapConfirm") ELSE ContractFails(p)

TakeNonce(p) ==
    /\ \/ At(p, "mapNonce") /\ GoTo(p, "mapSend") /\ Fortune
       \/ At(p, "mapNonce") /\ GoTo(p, "mapConfirm") /\ Misfortune
       \/ At(p, "nonce") /\ GoTo(p, "send") /\ Fortune
       \/ At(p, "nonce") /\ ContractFails(p) /\ Misfortune
    /\ UNCHANGED <<contractFrame, nonceVars>>

CallOf(p) ==
    [name |-> IF At(p, "mapSend") THEN "map_account"
              ELSE IF Asks(p, {"claim"}) THEN "claimUserStore" ELSE "setValue",
     cid  |-> proc[p].req.cid]

Sending(p)  == proc[p].pc \in {"mapSend", "send"}
Watching(p) == proc[p].pc \in {"mapWatch", "watch"}

Submit(p) ==
    /\ Sending(p)
    /\ \/ /\ p \notin spent /\ pool[Account(p)] = NoCall /\ Fortune
          /\ pool' = [pool EXCEPT ![Account(p)] = CallOf(p)]
          /\ GoTo(p, IF At(p, "mapSend") THEN "mapWatch" ELSE "watch")
       \/ /\ p \in spent \/ pool[Account(p)] # NoCall
          /\ Rejected(p) /\ Fortune /\ UNCHANGED pool
       \/ Rejected(p) /\ Misfortune /\ UNCHANGED pool
    /\ spent' = spent \ {p}
    /\ UNCHANGED contractFrame

\* What the terminal that watches the transaction learns.  A mapping that fails with
\* AccountAlreadyMapped is made.
Answer(p) ==
    IF At(p, "mapWatch") THEN Mapped(p)
    ELSE IF Asks(p, {"claim"}) THEN End(p, IF Account(p) \in userStore THEN "failed" ELSE "ok")
    ELSE AfterCache(p, "made")

Apply(a, call) ==
    /\ mapped'    = mapped    \union {x \in {a} : call.name = "map_account"}
    /\ userStore' = userStore \union {x \in {a} : call.name = "claimUserStore"}
    /\ cached'    = cached    \union {x \in {<<a, call.cid>>} : call.name = "setValue"}

\* The chain executes what waits, whether a terminal still watches it or not.
Execute(a) ==
    /\ pool[a] # NoCall /\ Apply(a, pool[a])
    /\ pool' = [pool EXCEPT ![a] = NoCall]
    /\ spent' = spent \union {p \in Procs : Sending(p) /\ Account(p) = a}
    /\ \/ \E p \in Procs : Watching(p) /\ Account(p) = a /\ Answer(p)
       \/ (\A p \in Procs : ~(Watching(p) /\ Account(p) = a)) /\ UNCHANGED proc
    /\ Fortune
    /\ UNCHANGED <<authorization, stored, history, keystoreVars, setting, ghostVars>>

\* The transaction is dropped; or its answer, or the read after it, is lost or late.
Lose(p) ==
    /\ Watching(p) /\ Misfortune
    /\ \E waits \in {NoCall, pool[Account(p)]} : pool' = [pool EXCEPT ![Account(p)] = waits]
    /\ IF At(p, "mapWatch") THEN GoTo(p, "mapConfirm") ELSE ContractFails(p)
    /\ UNCHANGED <<contractFrame, spent>>

(***************************************************************************)
(* The history file.                                                       *)
(***************************************************************************)
Changing(q) == proc[q].pc \in {"open", "fill"}
Filling(p)  == \E q \in Procs \ {p} : At(q, "fill")

Unread(p) == {}             \* a mutant: the file is not read before it is rewritten
ReadContent(p) == history \ {Torn}

Changed(p, entries) ==
    CASE Asks(p, {"upload"}) -> entries \union {proc[p].req.cid}
      [] Asks(p, {"remove"}) -> entries \ {proc[p].req.cid}
      [] OTHER -> {}

\* The entries a command settles, whatever it has read.
Touched(p) == IF Asks(p, {"clear"}) THEN Cids ELSE {proc[p].req.cid}

historyFrame == <<chainVars, keystoreVars, setting>>

\* A removal that finds nothing to remove writes nothing.
Reads(p, entries, wrong) ==
    /\ IF Asks(p, {"remove"}) /\ proc[p].req.cid \notin entries THEN End(p, "ok")
       ELSE proc' = [proc EXCEPT ![p].seen = entries, ![p].pc = "open"]
    /\ unseen' = [unseen EXCEPT ![p] = wrong]

\* A file that cannot be read, or be parsed because it is torn or just being written,
\* counts as empty.
ReadHistory(p) ==
    /\ At(p, "read")
    /\ \/ Reads(p, ReadContent(p), IF Filling(p) THEN Cids ELSE doubtful) /\ Fortune
       \/ Reads(p, {}, Cids) /\ Misfortune
    /\ UNCHANGED <<historyFrame, history, promised, doubtful>>

\* The file is opened and truncated.
OpenHistory(p) ==
    /\ At(p, "open")
    /\ history' = {}
    /\ GoTo(p, "fill") /\ Fortune
    /\ UNCHANGED <<historyFrame, ghostVars>>

\* The file cannot be opened, or not be written any more: the command fails although
\* its upload was stored.
HistoryDenied(p) ==
    /\ End(p, "failed") /\ Misfortune
    /\ \/ At(p, "open") /\ UNCHANGED <<history, doubtful>>
       \/ At(p, "fill") /\ history' = {Torn} /\ doubtful' = Cids
    /\ UNCHANGED <<historyFrame, promised, unseen>>

\* If another has filled the file since it was opened, the end of what that one wrote may
\* be left behind.  What is promised changes for those who have read the file before.
FillHistory(p) ==
    /\ At(p, "fill")
    /\ promised' = Changed(p, promised)
    /\ \/ history' = Changed(p, proc[p].seen) /\ doubtful' = unseen[p] \ Touched(p)
       \/ history # {} /\ history' = {Torn} /\ doubtful' = Cids
    /\ unseen' = [q \in Procs |-> unseen[q] \union (promised \ promised') \union (promised' \ promised)]
    /\ End(p, "ok") /\ Fortune
    /\ UNCHANGED historyFrame

Crash(p) ==
    /\ ~Free(p) /\ Misfortune
    /\ End(p, "failed")
    /\ IF InKeystore(p) THEN Interrupted(p) ELSE UNCHANGED keystoreVars
    /\ doubtful' = IF At(p, "fill") THEN Cids ELSE doubtful
    /\ spent' = spent \ {p}
    /\ UNCHANGED <<authorization, stored, mapped, userStore, cached, pool, history, setting,
                   promised, unseen>>

(***************************************************************************)
(* The whole system.                                                       *)
(***************************************************************************)
Work(p) ==
    \/ CheckForUpload(p) \/ CheckForAuthorize(p) \/ CheckForRefresh(p)
    \/ Authorize(p) \/ Refresh(p) \/ VerifyAuthorization(p) \/ Upload(p)
    \/ RequireStore(p) \/ LookForStore(p) \/ LookUpMapping(p) \/ ConfirmMapping(p)
    \/ DryRun(p) \/ TakeNonce(p) \/ Submit(p)
    \/ ReadHistory(p) \/ OpenHistory(p) \/ FillHistory(p)

Step(p) == KeystoreMoves(p) \/ SessionEnds(p) \/ (Ready(p) /\ Work(p))

Trouble ==
    \/ Expires
    \/ \E p \in Procs : \/ KeystoreSlips(p) \/ (Ready(p) /\ SubmitRejected(p))
                        \/ Lose(p) \/ HistoryDenied(p) \/ Crash(p)

AllEnded ==
    /\ \A p \in Procs : Free(p)
    /\ commands = MaxCommands /\ UNCHANGED vars

Next ==
    \/ \E p \in Procs : Start(p) \/ Step(p)
    \/ \E a \in Signers : Execute(a)
    \/ Trouble \/ AllEnded

Spec == Init /\ [][Next]_vars

(***************************************************************************)
(* What should be true.                                                    *)
(***************************************************************************)
\* Every variable ranges over the values the code's variable can hold.
TypeOK ==
    /\ authorization \in [Signers -> [granted : BOOLEAN, allowance : Nat, expired : BOOLEAN]]
    /\ stored \subseteq Signers \X Cids /\ cached \subseteq Signers \X Cids
    /\ mapped \subseteq Signers /\ userStore \subseteq mapped
    /\ pool \in [Signers -> Calls \union {NoCall}] /\ spent \subseteq Procs
    /\ history \subseteq Cids \union {Torn}
    /\ KeystoreTypeOK
    /\ proc \in [Procs -> [pc : ControlPoints, req : scenario.requests \union {NoRequest},
                           seen : SUBSET Cids, outcome : Outcomes,
                           entry : EntryOutcomes]]
    /\ scenario \in Scenarios
    /\ commands \in 0..MaxCommands /\ faults \in 0..MaxFaults
    /\ promised \subseteq Cids /\ doubtful \subseteq Cids /\ unseen \in [Procs -> SUBSET Cids]

\* What the history lists, what a command is about to write to it, and what a User
\* Store lists was uploaded, that one by the very account of the store: an upload that
\* threw, or whose authorization ran out between the check and the transaction, leaves
\* no entry anywhere, nor does another default account make an upload change hands.
ListedWereStored ==
    /\ \A cid \in (history \ {Torn}) \union UNION {proc[p].seen : p \in Procs} :
          \E a \in Signers : <<a, cid>> \in stored
    /\ cached \subseteq stored
    /\ \A p \in Procs : Asks(p, {"upload"}) /\ proc[p].outcome = "ok" => Entry(p) \in stored

\* Neither file loses anything without a cause.  Once nobody is writing the history, it
\* lists what was added and not removed, but for the entries that were changed between
\* another command's read and its write: those two commands put only these in doubt,
\* and a read that fails, or finds the file half written, or a death or a failing write
\* in it, puts all of them.  An entry added or removed later is beyond doubt again.  And
\* whoever keeps accounts has a default among them (DefaultIsKept).
LossesHaveCauses ==
    /\ (\A p \in Procs : ~At(p, "fill")) =>
          \A cid \in Cids \ doubtful : cid \in history <=> cid \in promised
    /\ DefaultIsKept

\* Terminals fail each other's entries and claims only by taking a nonce.  Without
\* misfortune no terminal fails because another has mapped the account: the dispatch
\* error AccountAlreadyMapped and a nonce a mapping has used up are overcome.  Whoever is
\* outrun has the account mapped, or the mapping waits in the pool, and so can repeat
\* the command.
FailuresAreOutrun ==
    faults = 0 => \A p \in Procs :
        /\ proc[p].entry # "failed"
        /\ Asks(p, {"claim"}) /\ proc[p].outcome = "failed" =>
              Account(p) \in userStore \union {NoName}
        /\ "outrun" \in {proc[p].entry, proc[p].outcome} =>
              Account(p) \in mapped \/ pool[Account(p)].name = "map_account"
===============================================================================
