-------------------------- MODULE UploadCommandProofs --------------------------
(***************************************************************************)
(* Proofs about UploadCommand and the Keystore it extends, for any number  *)
(* of terminals, any accounts and contents, any scenarios, and any number  *)
(* of commands and misfortunes.                                            *)
(***************************************************************************)
EXTENDS UploadCommand, TLAPS

(***************************************************************************)
(* The inductive invariant.                                                *)
(***************************************************************************)
SessionRecord == [pc : SessionPoints, name : Names \union {NoName}, named : BOOLEAN,
                  listed : SUBSET Names, signer : Signers \union {NoName}]
ProcRecord == [pc : ControlPoints, req : scenario.requests \union {NoRequest},
               seen : SUBSET Cids, outcome : Outcomes, entry : EntryOutcomes]

\* A session on its way names an account; it has a signer once it is resolved.
SessionFits(s) ==
    /\ s.pc \in Resolving \union AuthPoints => s.name \in Names
    /\ s.pc = "resolved" <=> s.signer # NoName

\* Where the signing of a command stands while the command runs.
SessionOf(p) ==
    /\ Free(p) => ~InKeystore(p)
    /\ ~Free(p) /\ Asks(p, SigningCommands) =>
          session[p].pc \in Resolving \union {"resolved", "refused"}
    /\ ~Free(p) /\ Asks(p, HistoryCommands) => session[p].pc = "none"
    /\ ~Free(p) /\ Asks(p, AuthCommands) => session[p].pc \in AuthPoints \union {"changed", "refused"}

\* Which commands get to which point, and what they have by then.
Calling  == {"write", "nonce", "send", "watch"}
Contract == {"find", "map", "mapNonce", "mapSend", "mapWatch", "mapConfirm"} \union Calling
File     == {"read", "open", "fill"}
PointFits(p) ==
    /\ ~At(p, "idle") => proc[p].req \in scenario.requests
    /\ At(p, "auth") => Asks(p, AuthCommands)
    /\ At(p, "check") => Asks(p, {"upload", "authorize", "refresh"})
    /\ At(p, "submit") => Asks(p, {"authorize", "refresh"})
    /\ At(p, "verify") => Asks(p, {"authorize"})
    /\ At(p, "store") => Asks(p, {"upload"})
    /\ proc[p].pc \in Contract => Asks(p, {"upload", "claim"})
    /\ proc[p].pc \in File => Asks(p, {"upload"} \union HistoryCommands)
    /\ proc[p].seen # {} => proc[p].pc \in {"open", "fill"}
    /\ ~Free(p) /\ ~At(p, "auth") => ~Asks(p, AuthCommands)
    /\ proc[p].outcome # "none" => At(p, "ended")

\* The command signs with an account that it no longer changes.
Signed(p) == session[p].pc = "resolved"
SignedFits(p) ==
    proc[p].pc \in Contract \union {"store", "submit", "verify"}
        /\ ~(At(p, "map") /\ Asks(p, {"claim"})) => Signed(p)

UploadMade(p) == Signed(p) /\ Entry(p) \in stored
UploadFits(p) ==
    Asks(p, {"upload"}) =>
        /\ proc[p].pc \in Contract \union File => UploadMade(p)
        /\ proc[p].outcome = "ok" => UploadMade(p)

MappedFits(p) ==
    proc[p].pc \in Calling \/ (At(p, "find") /\ Asks(p, {"claim"})) => Account(p) \in mapped

\* Of an account's transactions one waits at a time, and one terminal at most watches it.
PoolInv ==
    /\ \A a \in Signers :
          /\ pool[a].name = "setValue" => <<a, pool[a].cid>> \in stored
          /\ pool[a].name \in {"claimUserStore", "setValue"} => a \in mapped
    /\ \A p \in Procs : /\ Watching(p) => pool[Account(p)].name # "none"
                        /\ At(p, "mapWatch") => pool[Account(p)].name = "map_account"
    /\ \A p, q \in Procs : Watching(p) /\ Watching(q) /\ Account(p) = Account(q) => p = q
    /\ \A p \in spent : Sending(p)

Listed ==
    /\ \A cid \in history \ {Torn} : \E a \in Signers : <<a, cid>> \in stored
    /\ \A p \in Procs : \A cid \in proc[p].seen : \E a \in Signers : <<a, cid>> \in stored
    /\ cached \subseteq stored

\* What is beyond doubt in the history, and in what a command has read of it.
HistoryInv ==
    /\ (\A p \in Procs : ~At(p, "fill")) =>
          \A cid \in Cids \ doubtful : cid \in history <=> cid \in promised
    /\ \A p \in Procs : Changing(p) =>
          \A cid \in Cids \ unseen[p] : cid \in proc[p].seen <=> cid \in promised

\* While no commands have met in the keystore, the command that has taken its first step
\* there knows how far the pointer and the accounts are apart.
Begun(p) == Changes(p) /\ session[p].pc \notin {"mkdir", "store", "find", "look", "list"}
Consistent == IF accounts = {} THEN pointer = NoName ELSE pointer \in accounts
Apart(p) ==
    /\ In(p, "delete") => Consistent /\ session[p].name \in accounts
    /\ In(p, "repoint") => pointer \in accounts \union {session[p].name}
    /\ In(p, "deleteAll") => accounts = session[p].listed
    /\ In(p, "unpoint") => accounts = {}
    /\ session[p].pc \in {"truncate", "fill"} => session[p].name \in accounts
KeystoreInv == ~raced =>
    /\ (\A p \in Procs : ~Begun(p)) => Consistent
    /\ \A p \in Procs : Begun(p) => Apart(p)
    /\ \A p, q \in Procs : Begun(p) /\ Begun(q) => p = q

\* Without misfortune whoever loses a nonce finds the account mapped, or soon will.
MapTaken(a) == a \in mapped \/ (a \in Signers /\ pool[a].name = "map_account")
Raced(p) ==
    /\ At(p, "mapConfirm") \/ p \in spent => MapTaken(Account(p))
    /\ proc[p].entry # "failed"
    /\ Asks(p, {"claim"}) /\ proc[p].outcome = "failed" => Account(p) \in userStore \union {NoName}
    /\ "outrun" \in {proc[p].entry, proc[p].outcome} => Signed(p) /\ MapTaken(Account(p))
RaceInv == faults = 0 => \A p \in Procs : Raced(p)

ProcType    == proc \in [Procs -> ProcRecord]
SessionType == session \in [Procs -> SessionRecord]

Fits(p) == /\ SessionFits(session[p]) /\ SessionOf(p) /\ PointFits(p)
           /\ SignedFits(p) /\ UploadFits(p) /\ MappedFits(p)

IInv ==
    /\ TypeOK
    /\ \A p \in Procs : Fits(p)
    /\ PoolInv /\ Listed /\ HistoryInv /\ KeystoreInv /\ RaceInv

(***************************************************************************)
(* What a step leaves alone.                                               *)
(***************************************************************************)

\* A terminal that does nothing keeps what it relies on.
LEMMA OthersFit ==
    ASSUME NEW q \in Procs, Fits(q), proc'[q] = proc[q], session'[q] = session[q],
           stored \subseteq stored', mapped \subseteq mapped', scenario' = scenario
    PROVE  Fits(q)'
BY DEF Fits, SessionFits, SessionOf, PointFits, SignedFits, UploadFits, MappedFits, UploadMade,
       Signed, Free, At, Asks, InKeystore, Entry, Account

OthersStay(p) == \A q \in Procs \ {p} : proc'[q] = proc[q]

LEMMA GoToEffect ==
    ASSUME NEW p \in Procs, NEW pc \in ControlPoints, ProcType, GoTo(p, pc)
    PROVE  /\ proc' \in [Procs -> ProcRecord] /\ OthersStay(p)
           /\ proc'[p].pc = pc /\ proc'[p].req = proc[p].req /\ proc'[p].seen = proc[p].seen
           /\ proc'[p].outcome = proc[p].outcome /\ proc'[p].entry = proc[p].entry
BY DEF ProcType, ProcRecord, GoTo, OthersStay

LEMMA EndEffect ==
    ASSUME NEW p \in Procs, NEW outcome \in Outcomes, ProcType, End(p, outcome)
    PROVE  /\ proc' \in [Procs -> ProcRecord] /\ OthersStay(p)
           /\ proc'[p].pc = "ended" /\ proc'[p].req = proc[p].req /\ proc'[p].seen = {}
           /\ proc'[p].outcome = outcome /\ proc'[p].entry = proc[p].entry
<1>1. "ended" \in ControlPoints
  BY DEF ControlPoints
<1> QED
  BY <1>1 DEF ProcType, ProcRecord, End, OthersStay

LEMMA AfterCacheEffect ==
    ASSUME NEW p \in Procs, NEW entry \in EntryOutcomes, ProcType, AfterCache(p, entry)
    PROVE  /\ proc' \in [Procs -> ProcRecord] /\ OthersStay(p)
           /\ proc'[p].req = proc[p].req /\ proc'[p].seen = proc[p].seen
           /\ proc'[p].entry = entry
           /\ \/ proc'[p].pc = "read" /\ proc'[p].outcome = proc[p].outcome
              \/ proc'[p].pc = "ended" /\ proc'[p].outcome = "ok"
<1>1. CASE proc[p].req.keep
  BY <1>1 DEF AfterCache, ProcType, ProcRecord, ControlPoints, OthersStay
<1>2. CASE ~proc[p].req.keep
  BY <1>2 DEF AfterCache, ProcType, ProcRecord, ControlPoints, Outcomes, OthersStay
<1> QED
  BY <1>1, <1>2

\* A command ends where it is, and claims an upload only if it made it.
LEMMA FitsEnded ==
    ASSUME NEW p \in Procs, Fits(p), ~InKeystore(p), session'[p] = session[p],
           scenario' = scenario, stored \subseteq stored', ~At(p, "idle"),
           proc'[p].pc = "ended", proc'[p].req = proc[p].req, proc'[p].seen = {},
           Asks(p, {"upload"}) /\ proc'[p].outcome = "ok" => UploadMade(p)'
    PROVE  Fits(p)'
<1>1. SessionFits(session[p])' /\ SessionOf(p)'
  BY DEF Fits, SessionFits, SessionOf, Free, InKeystore
<1>2. PointFits(p)'
  BY DEF Fits, PointFits, At, Asks, Contract, Calling, File, Free
<1>3. SignedFits(p)' /\ MappedFits(p)'
  BY DEF SignedFits, MappedFits, At, Contract, Calling
<1>4. UploadFits(p)'
  BY DEF UploadFits, Asks, Contract, Calling, File
<1> QED
  BY <1>1, <1>2, <1>3, <1>4 DEF Fits

\* A command goes on.
LEMMA FitsMoved ==
    ASSUME NEW p \in Procs, Fits(p), Ready(p), ~Free(p), ~At(p, "auth"),
           NEW pc \in ControlPoints \ {"idle", "auth", "check", "ended"},
           session'[p] = session[p], scenario' = scenario, stored \subseteq stored',
           proc'[p].pc = pc, proc'[p].req = proc[p].req, proc'[p].outcome = proc[p].outcome,
           proc'[p].seen # {} => pc \in {"open", "fill"},
           pc = "submit" => Asks(p, {"authorize", "refresh"}),
           pc = "verify" => Asks(p, {"authorize"}),
           pc = "store" => Asks(p, {"upload"}),
           pc \in Contract => Asks(p, {"upload", "claim"}),
           pc \in File => Asks(p, {"upload"} \union HistoryCommands),
           Asks(p, {"upload"}) /\ pc \in Contract \union File => Entry(p) \in stored',
           pc \in Calling \/ (pc = "find" /\ Asks(p, {"claim"})) => Account(p) \in mapped'
    PROVE  Fits(p)'
<1> DEFINE signing == pc \in Contract \union {"store", "submit", "verify"}
                        \/ (pc \in File /\ Asks(p, {"upload"}))
<1>1. signing => Asks(p, SigningCommands)
  BY DEF Asks, SigningCommands, Contract, File
<1>2. signing => Signed(p)
  BY <1>1 DEF Fits, SessionOf, Ready, Signed, Resolving
<1>3. SessionFits(session[p])' /\ SessionOf(p)'
  BY DEF Fits, SessionFits, SessionOf, Free, InKeystore, Asks
<1>4. PointFits(p)'
  BY DEF Fits, PointFits, At, Asks, Contract, File, Free, ControlPoints
<1>5. SignedFits(p)'
  BY <1>2 DEF SignedFits, Signed
<1>6. MappedFits(p)'
  BY DEF MappedFits, At, Asks, Account
<1>7. UploadFits(p)'
  <2>1. Asks(p, {"upload"}) /\ proc[p].outcome = "ok" => UploadMade(p)'
    BY DEF Fits, UploadFits, UploadMade, Signed, Entry, Account
  <2>2. Asks(p, {"upload"}) /\ pc \in Contract \union File => UploadMade(p)'
    BY <1>2 DEF UploadMade, Signed, Entry, Account
  <2> QED
    BY <2>1, <2>2 DEF UploadFits, Asks
<1> QED
  BY <1>3, <1>4, <1>5, <1>6, <1>7 DEF Fits

\* What a command does besides its own terminal and the keystore.
Doing(p) == Work(p) \/ SubmitRejected(p) \/ Lose(p) \/ HistoryDenied(p)

LEMMA DoingFrame ==
    ASSUME NEW p \in Procs, Doing(p)
    PROVE  /\ UNCHANGED <<keystoreVars, setting>> /\ faults' \in {faults, faults + 1}
           /\ session' = session /\ scenario' = scenario
           /\ stored \subseteq stored' /\ UNCHANGED <<mapped, userStore, cached>>
<1>1. CASE CheckForUpload(p)
  BY <1>1 DEF CheckForUpload, chainVars, keystoreVars, setting, Fortune, Misfortune, authFrame, ReadAuthorization
<1>2. CASE CheckForAuthorize(p)
  BY <1>2 DEF CheckForAuthorize, chainVars, keystoreVars, setting, Fortune, Misfortune, authFrame, ReadAuthorization
<1>3. CASE CheckForRefresh(p)
  BY <1>3 DEF CheckForRefresh, chainVars, keystoreVars, setting, Fortune, Misfortune, authFrame, ReadAuthorization
<1>4. CASE Authorize(p)
  BY <1>4 DEF Authorize, chainVars, keystoreVars, setting, Fortune, Misfortune, submitFrame
<1>5. CASE Refresh(p)
  BY <1>5 DEF Refresh, chainVars, keystoreVars, setting, Fortune, Misfortune, submitFrame
<1>6. CASE SubmitRejected(p)
  BY <1>6 DEF SubmitRejected, chainVars, keystoreVars, setting, Fortune, Misfortune, authFrame
<1>7. CASE VerifyAuthorization(p)
  BY <1>7 DEF VerifyAuthorization, chainVars, keystoreVars, setting, Fortune, Misfortune, authFrame, ReadAuthorization
<1>8. CASE Upload(p)
  BY <1>8 DEF Upload, chainVars, keystoreVars, setting, Fortune, Misfortune
<1>9. CASE RequireStore(p)
  BY <1>9 DEF RequireStore, chainVars, keystoreVars, setting, Fortune, Misfortune, contractFrame
<1>10. CASE LookForStore(p)
  BY <1>10 DEF LookForStore, chainVars, keystoreVars, setting, Fortune, Misfortune, contractFrame
<1>11. CASE LookUpMapping(p)
  BY <1>11 DEF LookUpMapping, chainVars, keystoreVars, setting, Fortune, Misfortune, contractFrame
<1>12. CASE ConfirmMapping(p)
  BY <1>12 DEF ConfirmMapping, chainVars, keystoreVars, setting, Fortune, Misfortune, contractFrame
<1>13. CASE DryRun(p)
  BY <1>13 DEF DryRun, chainVars, keystoreVars, setting, Fortune, Misfortune, contractFrame
<1>14. CASE TakeNonce(p)
  BY <1>14 DEF TakeNonce, chainVars, keystoreVars, setting, Fortune, Misfortune, contractFrame
<1>15. CASE Submit(p)
  BY <1>15 DEF Submit, chainVars, keystoreVars, setting, Fortune, Misfortune, contractFrame
<1>16. CASE Lose(p)
  BY <1>16 DEF Lose, chainVars, keystoreVars, setting, Fortune, Misfortune, contractFrame
<1>17. CASE ReadHistory(p)
  BY <1>17 DEF ReadHistory, chainVars, keystoreVars, setting, Fortune, Misfortune, historyFrame
<1>18. CASE OpenHistory(p)
  BY <1>18 DEF OpenHistory, chainVars, keystoreVars, setting, Fortune, Misfortune, historyFrame
<1>19. CASE FillHistory(p)
  BY <1>19 DEF FillHistory, chainVars, keystoreVars, setting, Fortune, Misfortune, historyFrame
<1>20. CASE HistoryDenied(p)
  BY <1>20 DEF HistoryDenied, chainVars, keystoreVars, setting, Fortune, Misfortune, historyFrame
<1> QED
  BY <1>1, <1>2, <1>3, <1>4, <1>5, <1>6, <1>7, <1>8, <1>9, <1>10, <1>11, <1>12, <1>13, <1>14,
     <1>15, <1>16, <1>17, <1>18, <1>19, <1>20
     DEF Doing, Work

(***************************************************************************)
(* Each step of a command keeps its own terminal in order.                 *)
(***************************************************************************)
Kept(p) == proc' \in [Procs -> ProcRecord] /\ OthersStay(p) /\ Fits(p)'

\* A command that ends before it has made an upload, or without success.
LEMMA KeptByEnd ==
    ASSUME NEW p \in Procs, ProcType, Fits(p), Ready(p), ~Free(p), NEW outcome \in Outcomes,
           End(p, outcome), session' = session, scenario' = scenario, stored \subseteq stored',
           Asks(p, {"upload"}) /\ outcome = "ok" => proc[p].pc \in Contract \union File
    PROVE  Kept(p)
<1>1. ~InKeystore(p) /\ ~At(p, "idle")
  BY DEF Ready, InKeystore, Resolving, AuthPoints, Free, At
<1>2. Asks(p, {"upload"}) /\ outcome = "ok" => UploadMade(p)'
  BY EndEffect DEF Fits, UploadFits, UploadMade, Signed, Entry, Account
<1> QED
  BY <1>1, <1>2, EndEffect, FitsEnded DEF Kept

LEMMA KeptByGoTo ==
    ASSUME NEW p \in Procs, ProcType, Fits(p), Ready(p), ~Free(p), ~At(p, "auth"),
           NEW pc \in ControlPoints \ {"idle", "auth", "check", "ended"}, GoTo(p, pc),
           session' = session, scenario' = scenario, stored \subseteq stored',
           proc[p].seen # {} => pc \in {"open", "fill"},
           pc = "submit" => Asks(p, {"authorize", "refresh"}),
           pc = "verify" => Asks(p, {"authorize"}),
           pc = "store" => Asks(p, {"upload"}),
           pc \in Contract => Asks(p, {"upload", "claim"}),
           pc \in File => Asks(p, {"upload"} \union HistoryCommands),
           Asks(p, {"upload"}) /\ pc \in Contract \union File => Entry(p) \in stored',
           pc \in Calling \/ (pc = "find" /\ Asks(p, {"claim"})) => Account(p) \in mapped'
    PROVE  Kept(p)
BY GoToEffect, FitsMoved DEF Kept

LEMMA KeptByAfterCache ==
    ASSUME NEW p \in Procs, ProcType, Fits(p), Ready(p), NEW entry \in EntryOutcomes,
           AfterCache(p, entry), Asks(p, {"upload"}), proc[p].pc \in Contract,
           session' = session, scenario' = scenario, stored \subseteq stored'
    PROVE  Kept(p)
<1>1. ~InKeystore(p) /\ ~Free(p) /\ ~At(p, "idle") /\ ~At(p, "auth") /\ proc[p].seen = {}
  BY DEF Ready, InKeystore, Resolving, AuthPoints, Free, At, Contract, Calling, Fits, PointFits
<1>2. Entry(p) \in stored'
  BY DEF Fits, UploadFits, UploadMade
<1>3. UploadMade(p)'
  BY <1>2, AfterCacheEffect DEF Fits, UploadFits, UploadMade, Signed, Entry, Account
<1>4. Asks(p, {"upload"} \union HistoryCommands) /\ ~Asks(p, {"claim"})
  BY DEF Asks
<1>5. CASE proc'[p].pc = "read" /\ proc'[p].outcome = proc[p].outcome
  BY <1>1, <1>2, <1>4, <1>5, AfterCacheEffect, FitsMoved DEF Kept, ControlPoints, Contract, Calling, File
<1>6. CASE proc'[p].pc = "ended" /\ proc'[p].outcome = "ok"
  BY <1>1, <1>3, <1>6, AfterCacheEffect, FitsEnded DEF Kept
<1> QED
  BY <1>5, <1>6, AfterCacheEffect

LEMMA CheckKeeps ==
    ASSUME NEW p \in Procs, ProcType, Fits(p), Ready(p), session' = session,
           scenario' = scenario, stored \subseteq stored',
           CheckForUpload(p) \/ CheckForAuthorize(p) \/ CheckForRefresh(p)
    PROVE  Kept(p)
<1>1. At(p, "check") /\ ~Free(p) /\ ~At(p, "auth") /\ proc[p].seen = {} /\ "failed" \in Outcomes
      /\ "ok" \in Outcomes
  BY DEF CheckForUpload, CheckForAuthorize, CheckForRefresh, At, Free, Fits, PointFits, Outcomes
<1>2. CASE CheckForUpload(p)
  <2>1. Asks(p, {"upload"})
    BY <1>2 DEF CheckForUpload
  <2>2. CASE GoTo(p, "store")
    BY <1>1, <2>1, <2>2, KeptByGoTo DEF ControlPoints, Contract, Calling, File
  <2>3. CASE End(p, "failed")
    BY <1>1, <2>3, KeptByEnd
  <2> QED
    BY <1>2, <2>2, <2>3 DEF CheckForUpload
<1>3. CASE CheckForAuthorize(p)
  <2>1. Asks(p, {"authorize", "refresh"}) /\ ~Asks(p, {"upload"})
    BY <1>3 DEF CheckForAuthorize, Asks
  <2>2. CASE GoTo(p, "submit")
    BY <1>1, <2>1, <2>2, KeptByGoTo DEF ControlPoints, Contract, Calling, File
  <2>3. CASE End(p, "ok")
    BY <1>1, <2>1, <2>3, KeptByEnd
  <2> QED
    BY <1>3, <2>2, <2>3 DEF CheckForAuthorize
<1>4. CASE CheckForRefresh(p)
  <2>1. Asks(p, {"authorize", "refresh"})
    BY <1>4 DEF CheckForRefresh, Asks
  <2>2. CASE GoTo(p, "submit")
    BY <1>1, <2>1, <2>2, KeptByGoTo DEF ControlPoints, Contract, Calling, File
  <2>3. CASE End(p, "failed")
    BY <1>1, <2>3, KeptByEnd
  <2> QED
    BY <1>4, <2>2, <2>3 DEF CheckForRefresh
<1> QED
  BY <1>2, <1>3, <1>4

LEMMA SubmitKeeps ==
    ASSUME NEW p \in Procs, ProcType, Fits(p), Ready(p), session' = session,
           scenario' = scenario, stored \subseteq stored',
           Authorize(p) \/ Refresh(p) \/ SubmitRejected(p) \/ VerifyAuthorization(p)
    PROVE  Kept(p)
<1>1. /\ ~Free(p) /\ ~At(p, "auth") /\ proc[p].seen = {} /\ Asks(p, {"authorize", "refresh"})
      /\ ~Asks(p, {"upload"})
  BY DEF Authorize, Refresh, SubmitRejected, VerifyAuthorization, At, Free, Fits, PointFits, Asks
<1>2. CASE \E outcome \in Outcomes : End(p, outcome)
  BY <1>1, <1>2, KeptByEnd
<1>3. CASE Authorize(p) /\ GoTo(p, "verify")
  <2>1. Asks(p, {"authorize"})
    BY <1>3 DEF Authorize
  <2> QED
    BY <1>1, <1>3, <2>1, KeptByGoTo DEF ControlPoints, Contract, Calling, File
<1> QED
  BY <1>2, <1>3 DEF Authorize, Refresh, SubmitRejected, VerifyAuthorization, Outcomes

LEMMA UploadKeeps ==
    ASSUME NEW p \in Procs, ProcType, Fits(p), Ready(p), session' = session,
           scenario' = scenario, stored \subseteq stored', Upload(p)
    PROVE  Kept(p)
<1>1. At(p, "store") /\ ~Free(p) /\ ~At(p, "auth") /\ proc[p].seen = {} /\ Asks(p, {"upload"})
  BY DEF Upload, At, Free, Fits, PointFits
<1>2. /\ ~Asks(p, {"claim"}) /\ Asks(p, {"upload"} \union HistoryCommands)
      /\ Asks(p, {"upload", "claim"})
  BY <1>1 DEF Asks
<1>3. CASE End(p, "failed")
  BY <1>1, <1>3, KeptByEnd DEF Outcomes
<1>4. CASE stored' = stored \union {Entry(p)} /\ End(p, "ok")
  <2>1. ~InKeystore(p) /\ ~At(p, "idle") /\ Signed(p)
    BY <1>1 DEF Ready, InKeystore, Resolving, AuthPoints, At, Fits, SignedFits
  <2>2. UploadMade(p)'
    BY <1>4, <2>1, EndEffect DEF UploadMade, Signed, Entry, Account, Outcomes
  <2> QED
    BY <1>4, <2>1, <2>2, EndEffect, FitsEnded DEF Kept, Outcomes
<1>5. CASE stored' = stored \union {Entry(p)} /\ GoTo(p, "find")
  BY <1>1, <1>2, <1>5, KeptByGoTo DEF ControlPoints, Contract, Calling, File
<1>6. CASE stored' = stored \union {Entry(p)} /\ GoTo(p, "read")
  BY <1>1, <1>2, <1>6, KeptByGoTo DEF ControlPoints, Contract, Calling, File
<1> QED
  BY <1>3, <1>4, <1>5, <1>6 DEF Upload, UploadFails

LEMMA ContractFailsKeeps ==
    ASSUME NEW p \in Procs, ProcType, Fits(p), Ready(p), session' = session,
           scenario' = scenario, stored \subseteq stored', proc[p].pc \in Contract, ContractFails(p)
    PROVE  Kept(p)
<1>1. ~Free(p) /\ Blame(p) \in Outcomes /\ Blame(p) \in EntryOutcomes
  BY DEF Contract, Calling, Free, Blame, Outcomes, EntryOutcomes
<1>2. CASE Asks(p, {"claim"})
  BY <1>1, <1>2, KeptByEnd DEF ContractFails
<1>3. CASE ~Asks(p, {"claim"})
  <2>1. Asks(p, {"upload"})
    BY <1>3 DEF Fits, PointFits, Asks
  <2> QED
    BY <1>1, <1>3, <2>1, KeptByAfterCache DEF ContractFails
<1> QED
  BY <1>2, <1>3

LEMMA ContractKeeps ==
    ASSUME NEW p \in Procs, ProcType, Fits(p), Ready(p), session' = session,
           scenario' = scenario, stored \subseteq stored', mapped' = mapped,
           \/ RequireStore(p) \/ LookForStore(p) \/ LookUpMapping(p) \/ ConfirmMapping(p)
           \/ DryRun(p) \/ TakeNonce(p) \/ Submit(p) \/ Lose(p)
    PROVE  Kept(p)
<1>1. proc[p].pc \in Contract
  BY DEF RequireStore, LookForStore, LookUpMapping, ConfirmMapping, DryRun, TakeNonce, Submit,
         Lose, Sending, Watching, At, Contract, Calling
<1>2. /\ ~Free(p) /\ ~At(p, "auth") /\ proc[p].seen = {} /\ Asks(p, {"upload", "claim"})
      /\ {"ok", "failed"} \subseteq Outcomes /\ "noStore" \in EntryOutcomes
  BY <1>1 DEF Contract, Calling, Free, At, Fits, PointFits, Outcomes, EntryOutcomes
<1>3. Asks(p, {"upload"}) => Entry(p) \in stored'
  BY <1>1 DEF Fits, UploadFits, UploadMade
<1>4. proc[p].pc \in Calling => Account(p) \in mapped'
  BY DEF Fits, MappedFits
<1>5. CASE ContractFails(p)
  BY <1>1, <1>5, ContractFailsKeeps
<1>6. CASE \E outcome \in {"ok", "failed"} : End(p, outcome)
  BY <1>1, <1>2, <1>6, KeptByEnd
<1>7. CASE Asks(p, {"upload"}) /\ AfterCache(p, "noStore")
  BY <1>1, <1>2, <1>7, KeptByAfterCache
<1>8. CASE \E pc \in {"mapNonce", "mapSend", "mapWatch", "mapConfirm"} : GoTo(p, pc)
  BY <1>2, <1>3, <1>8, KeptByGoTo DEF ControlPoints, Contract, Calling, File
<1>9. CASE Asks(p, {"upload"}) /\ GoTo(p, "map")
  BY <1>2, <1>3, <1>9, KeptByGoTo DEF ControlPoints, Contract, Calling, File
<1>10. CASE Account(p) \in mapped' /\ \E pc \in {"find", "write", "nonce", "send", "watch"} : GoTo(p, pc)
  BY <1>2, <1>3, <1>10, KeptByGoTo DEF ControlPoints, Contract, Calling, File
<1>11. CASE RequireStore(p)
  BY <1>11, <1>5, <1>7, <1>9 DEF RequireStore
<1>12. CASE LookForStore(p)
  <2>1. Account(p) \in mapped'
    BY <1>12 DEF LookForStore, Fits, MappedFits
  <2> QED
    BY <2>1, <1>12, <1>5, <1>6, <1>10 DEF LookForStore
<1>13. CASE LookUpMapping(p)
  BY <1>13, <1>8, <1>10 DEF LookUpMapping, Mapped, IsMapped
<1>14. CASE ConfirmMapping(p)
  BY <1>14, <1>5, <1>10 DEF ConfirmMapping, Confirm, Mapped, IsMapped
<1>15. CASE DryRun(p)
  BY <1>15, <1>4, <1>5, <1>6, <1>10 DEF DryRun, At, Calling
<1>16. CASE TakeNonce(p)
  BY <1>16, <1>4, <1>5, <1>8, <1>10 DEF TakeNonce, At, Calling
<1>17. CASE Submit(p)
  BY <1>17, <1>4, <1>5, <1>8, <1>10 DEF Submit, Rejected, Sending, At, Calling
<1>18. CASE Lose(p)
  BY <1>18, <1>5, <1>8 DEF Lose
<1> QED
  BY <1>11, <1>12, <1>13, <1>14, <1>15, <1>16, <1>17, <1>18

LEMMA FileKeeps ==
    ASSUME NEW p \in Procs, ProcType, Fits(p), Ready(p), session' = session,
           scenario' = scenario, stored \subseteq stored', mapped \subseteq mapped',
           history \subseteq Cids \union {Torn},
           ReadHistory(p) \/ OpenHistory(p) \/ FillHistory(p) \/ HistoryDenied(p)
    PROVE  Kept(p)
<1>1. /\ proc[p].pc \in File /\ ~Free(p) /\ ~At(p, "auth") /\ {"ok", "failed"} \subseteq Outcomes
      /\ Asks(p, {"upload"} \union HistoryCommands)
  BY DEF ReadHistory, OpenHistory, FillHistory, HistoryDenied, At, File, Free, Fits, PointFits,
         Outcomes
<1>2. Asks(p, {"upload"}) => Entry(p) \in stored'
  BY <1>1 DEF Fits, UploadFits, UploadMade
<1>3. CASE \E outcome \in {"ok", "failed"} : End(p, outcome)
  BY <1>1, <1>3, KeptByEnd
<1>4. CASE GoTo(p, "fill")
  BY <1>1, <1>2, <1>4, KeptByGoTo DEF ControlPoints, Contract, Calling, File
<1>5. ASSUME NEW entries \in SUBSET Cids, proc' = [proc EXCEPT ![p].seen = entries, ![p].pc = "open"]
      PROVE  Kept(p)
  <2>1. /\ proc' \in [Procs -> ProcRecord] /\ OthersStay(p)
        /\ proc'[p].pc = "open" /\ proc'[p].req = proc[p].req
        /\ proc'[p].outcome = proc[p].outcome
    <3>1. "open" \in ControlPoints
      BY DEF ControlPoints
    <3> QED
      BY <1>5, <3>1 DEF ProcType, ProcRecord, OthersStay
  <2> QED
    BY <1>1, <1>2, <2>1, FitsMoved DEF Kept, ControlPoints, Contract, Calling, File
<1> QED
  <2>1. ReadContent(p) \in SUBSET Cids /\ {} \in SUBSET Cids
    BY DEF ReadContent
  <2> QED
    BY <1>3, <1>4, <1>5, <2>1 DEF ReadHistory, OpenHistory, FillHistory, HistoryDenied, Reads

\* So does every step.
LEMMA DoingKeeps ==
    ASSUME NEW p \in Procs, ProcType, Fits(p), Ready(p), history \subseteq Cids \union {Torn}, Doing(p)
    PROVE  Kept(p)
BY DoingFrame, CheckKeeps, SubmitKeeps, UploadKeeps, ContractKeeps, FileKeeps DEF Doing, Work

(***************************************************************************)
(* The keystore.                                                           *)
(***************************************************************************)
SessionsStay(p) == \A q \in Procs \ {p} : session'[q] = session[q]

LEMMA GoesEffect ==
    ASSUME NEW p \in Procs, NEW pc \in SessionPoints, SessionType, Goes(p, pc)
    PROVE  /\ SessionType' /\ SessionsStay(p)
           /\ session'[p].pc = pc /\ session'[p].name = session[p].name
           /\ session'[p].named = session[p].named
           /\ session'[p].listed = session[p].listed /\ session'[p].signer = session[p].signer
BY DEF SessionType, SessionRecord, Goes, SessionsStay

LEMMA StopsEffect ==
    ASSUME NEW p \in Procs, NEW pc \in SessionPoints, SessionType, Stops(p, pc)
    PROVE  /\ SessionType' /\ SessionsStay(p)
           /\ session'[p].pc = pc /\ session'[p].signer = NoName
BY DEF SessionType, SessionRecord, Stops, SessionsStay, NoSession

\* A step of the keystore stays in its part of the session, and resolves at its end.
LEMMA KeystoreStepEffect ==
    ASSUME NEW p \in Procs, KeystoreTypeOK, SessionFits(session[p]),
           KeystoreStep(p) \/ KeystoreFails(p)
    PROVE  /\ KeystoreTypeOK' /\ SessionsStay(p) /\ SessionFits(session[p])' /\ InKeystore(p)
           /\ session[p].pc \in Resolving =>
                session'[p].pc \in {"account", "resolved", "refused"}
           /\ session[p].pc \in AuthPoints =>
                session'[p].pc \in AuthPoints \union {"changed", "refused"}
<1> SessionType
  BY DEF KeystoreTypeOK, SessionType, SessionRecord
<1> DEFINE Goal == /\ SessionType' /\ SessionsStay(p) /\ SessionFits(session[p])'
                   /\ session[p].pc \in Resolving =>
                        session'[p].pc \in {"account", "resolved", "refused"}
                   /\ session[p].pc \in AuthPoints =>
                        session'[p].pc \in AuthPoints \union {"changed", "refused"}
<1>1. session[p].signer # NoName <=> session[p].pc = "resolved"
  BY DEF SessionFits
<1>2. InKeystore(p) => session[p].name \in Names /\ session[p].signer = NoName
  BY DEF SessionFits, InKeystore, Resolving, AuthPoints
<1>3. ASSUME NEW pc \in {"refused", "changed"}, session[p].pc \in AuthPoints, Stops(p, pc) PROVE Goal
  BY <1>3, StopsEffect DEF SessionPoints, SessionFits, Resolving, AuthPoints
<1>4. ASSUME NEW pc \in AuthPoints, session[p].pc \in AuthPoints, Goes(p, pc) PROVE Goal
  BY <1>2, <1>4, GoesEffect DEF SessionPoints, SessionFits, Resolving, AuthPoints, InKeystore
<1> DEFINE Disk == /\ directory' \in BOOLEAN /\ accounts' \subseteq Names
                   /\ pointer' \in Names \union {NoName} /\ (accounts' # {} => directory')
                   /\ raced' \in BOOLEAN
<1> HIDE DEF Goal
<1> SUFFICES Goal /\ Disk /\ InKeystore(p)
  BY DEF Goal, KeystoreTypeOK, SessionType, SessionRecord
<1>5. ASSUME ReadPointer(p) PROVE Goal /\ Disk /\ InKeystore(p)
  <2>1. In(p, "pointer") /\ InKeystore(p)
    BY <1>5 DEF ReadPointer, In, InKeystore, Resolving
  <2>2. Chosen(p) \in Names
    BY <1>2, <2>1 DEF Chosen, KeystoreTypeOK
  <2>3. /\ SessionType' /\ SessionsStay(p) /\ session'[p].pc \in {"account", "resolved", "refused"}
        /\ session'[p].pc = "account" => /\ session'[p].name \in Names
                                         /\ session'[p].signer = session[p].signer
        /\ session'[p].pc = "resolved" => session'[p].signer = Dev
        /\ session'[p].pc = "refused" => session'[p].signer = NoName
    <3>1. CASE directory
      BY <1>5, <2>2, <3>1 DEF ReadPointer, SessionType, SessionRecord, SessionsStay, SessionPoints,
                              Resolving
    <3>2. CASE ~directory /\ session[p].named
      BY <1>5, <3>2 DEF ReadPointer, SessionType, SessionRecord, SessionsStay, SessionPoints, NoSession
    <3>3. CASE ~directory /\ ~session[p].named
      BY <1>5, <3>3 DEF ReadPointer, SessionType, SessionRecord, SessionsStay, SessionPoints, NoSession,
                        Signers
    <3> QED
      BY <3>1, <3>2, <3>3
  <2> QED
    BY <1>2, <1>5, <2>1, <2>3 DEF ReadPointer, KeystoreTypeOK, Goal, In, InKeystore, SessionFits,
                                  AuthPoints, Resolving, NoName, Dev
<1>6. ASSUME OpenAccount(p) PROVE Goal /\ Disk /\ InKeystore(p)
  <2>1. In(p, "account") /\ InKeystore(p)
    BY <1>6 DEF OpenAccount, In, InKeystore, Resolving
  <2>2. /\ SessionType' /\ SessionsStay(p) /\ session'[p].pc \in {"resolved", "refused"}
        /\ session'[p].pc = "resolved" => session'[p].signer \in Names
        /\ session'[p].pc = "refused" => session'[p].signer = NoName
    BY <1>2, <1>6, <2>1 DEF OpenAccount, SessionType, SessionRecord, SessionsStay, SessionPoints,
                            NoSession, Signers
  <2> QED
    BY <1>6, <2>1, <2>2, NamesAssumption
       DEF OpenAccount, KeystoreTypeOK, Goal, In, InKeystore, SessionFits, AuthPoints, Resolving
<1>7. ASSUME MakeDirectory(p) PROVE Goal /\ Disk /\ InKeystore(p)
  BY <1>4, <1>7 DEF MakeDirectory, In, InKeystore, AuthPoints, KeystoreTypeOK, Meets, Settles, Alone
<1>8. ASSUME StoreAccount(p) PROVE Goal /\ Disk /\ InKeystore(p)
  BY <1>2, <1>4, <1>8 DEF StoreAccount, In, InKeystore, AuthPoints, KeystoreTypeOK, Meets, Settles, Alone
<1>9. ASSUME UseAccount(p) \/ FindAccount(p) PROVE Goal /\ Disk /\ InKeystore(p)
  BY <1>3, <1>4, <1>9 DEF UseAccount, FindAccount, In, InKeystore, AuthPoints, KeystoreTypeOK, Meets, Settles, Alone
<1>10. ASSUME DeleteAccount(p) PROVE Goal /\ Disk /\ InKeystore(p)
  BY <1>3, <1>4, <1>10 DEF DeleteAccount, In, InKeystore, AuthPoints, KeystoreTypeOK, Meets, Settles, Alone
<1>11. ASSUME ReadDefault(p) PROVE Goal /\ Disk /\ InKeystore(p)
  BY <1>3, <1>4, <1>11 DEF ReadDefault, In, InKeystore, AuthPoints, KeystoreTypeOK, Meets, Settles, Alone
<1>12. ASSUME TakeSuccessor(p) PROVE Goal /\ Disk /\ InKeystore(p)
  <2>1. In(p, "successor") /\ InKeystore(p)
    BY <1>12 DEF TakeSuccessor, In, InKeystore, AuthPoints
  <2>2. ASSUME NEW next \in accounts, Points(p, next) PROVE Goal
    <3>1. /\ SessionType' /\ SessionsStay(p) /\ session'[p].pc = "truncate"
          /\ session'[p].name \in Names /\ session'[p].signer = session[p].signer
      <4>1. "truncate" \in SessionPoints
        BY DEF SessionPoints, AuthPoints
      <4> QED
        BY <2>2, <4>1 DEF Points, SessionType, SessionRecord, SessionsStay, KeystoreTypeOK
    <3> QED
      BY <1>2, <2>1, <3>1 DEF Goal, In, SessionFits, Resolving, AuthPoints
  <2>3. Goal
    BY <1>4, <1>12, <2>1, <2>2 DEF TakeSuccessor, In, AuthPoints
  <2> QED
    BY <1>12, <2>1, <2>3 DEF TakeSuccessor, KeystoreTypeOK, Meets, Settles, Alone
<1>13. ASSUME ListAccounts(p) PROVE Goal /\ Disk /\ InKeystore(p)
  <2>1. In(p, "list") /\ InKeystore(p)
    BY <1>13 DEF ListAccounts, In, InKeystore, AuthPoints
  <2>2. CASE session' = [session EXCEPT ![p].listed = accounts, ![p].pc = "deleteAll"]
    <3>1. /\ SessionType' /\ SessionsStay(p) /\ session'[p].pc = "deleteAll"
          /\ session'[p].name = session[p].name /\ session'[p].signer = session[p].signer
      <4>1. "deleteAll" \in SessionPoints
        BY DEF SessionPoints, AuthPoints
      <4> QED
        BY <2>2, <4>1 DEF SessionType, SessionRecord, SessionsStay, KeystoreTypeOK
    <3>2. Goal
      BY <1>2, <2>1, <3>1 DEF Goal, In, SessionFits, Resolving, AuthPoints
    <3> QED
      BY <1>13, <2>1, <3>2 DEF ListAccounts, KeystoreTypeOK, Meets, Settles, Alone
  <2> QED
    BY <1>3, <1>13, <2>1, <2>2 DEF ListAccounts, KeystoreTypeOK, Meets, In, AuthPoints
<1>14. ASSUME DeleteListed(p) PROVE Goal /\ Disk /\ InKeystore(p)
  <2>1. In(p, "deleteAll") /\ InKeystore(p)
    BY <1>14 DEF DeleteListed, In, InKeystore, AuthPoints
  <2>2. ASSUME NEW name, session' = [session EXCEPT ![p].listed = @ \ {name}] PROVE Goal
    <3>1. /\ SessionType' /\ SessionsStay(p) /\ session'[p].pc = session[p].pc
          /\ session'[p].name = session[p].name /\ session'[p].signer = session[p].signer
      BY <2>2 DEF SessionType, SessionRecord, SessionsStay
    <3> QED
      BY <1>2, <2>1, <3>1 DEF Goal, In, SessionFits, Resolving, AuthPoints
  <2>3. Goal
    BY <1>3, <1>4, <1>14, <2>1, <2>2 DEF DeleteListed, In, AuthPoints
  <2> QED
    BY <1>14, <2>1, <2>3 DEF DeleteListed, KeystoreTypeOK, Meets, Settles, Alone
<1>15. ASSUME Unpoint(p) \/ TruncatePointer(p) \/ FillPointer(p)
       PROVE  Goal /\ Disk /\ InKeystore(p)
  BY <1>2, <1>3, <1>4, <1>15 DEF Unpoint, TruncatePointer, FillPointer, In, InKeystore, AuthPoints,
                                 KeystoreTypeOK, Meets, Settles, Alone
<1>16. ASSUME PointerUnread(p) PROVE Goal /\ Disk /\ InKeystore(p)
  <2>1. In(p, "pointer") /\ InKeystore(p)
    BY <1>16 DEF PointerUnread, In, InKeystore, Resolving
  <2>2. CASE Goes(p, "account")
    <3>1. Goal
      BY <1>2, <2>1, <2>2, GoesEffect DEF Goal, In, SessionPoints, SessionFits, Resolving, AuthPoints
    <3> QED
      BY <1>16, <2>1, <3>1 DEF PointerUnread, KeystoreTypeOK
  <2>3. CASE session' = [session EXCEPT ![p] = [NoSession EXCEPT !.pc = "resolved", !.signer = Dev]]
    <3>1. /\ SessionType' /\ SessionsStay(p) /\ session'[p].pc = "resolved"
          /\ session'[p].signer = Dev
      BY <2>3 DEF SessionType, SessionRecord, SessionsStay, SessionPoints, NoSession, Signers
    <3>2. Goal
      BY <2>1, <3>1 DEF Goal, In, SessionFits, Resolving, AuthPoints, NoName, Dev
    <3> QED
      BY <1>16, <2>1, <3>2 DEF PointerUnread, KeystoreTypeOK
  <2> QED
    BY <1>16, <2>2, <2>3 DEF PointerUnread
<1>17. ASSUME AccountOverlooked(p) PROVE Goal /\ Disk /\ InKeystore(p)
  <2>1. session[p].pc \in {"delete", "deleteAll"} /\ InKeystore(p) /\ session[p].pc \in AuthPoints
    BY <1>17 DEF AccountOverlooked, In, InKeystore, AuthPoints
  <2>2. ASSUME NEW name, session' = [session EXCEPT ![p].listed = @ \ {name}] PROVE Goal
    <3>1. /\ SessionType' /\ SessionsStay(p) /\ session'[p].pc = session[p].pc
          /\ session'[p].name = session[p].name /\ session'[p].signer = session[p].signer
      BY <2>2 DEF SessionType, SessionRecord, SessionsStay
    <3> QED
      BY <1>2, <2>1, <3>1 DEF Goal, In, SessionFits, Resolving, AuthPoints
  <2>3. Goal
    BY <1>4, <1>17, <2>1, <2>2 DEF AccountOverlooked, AuthPoints
  <2> QED
    BY <1>17, <2>1, <2>3 DEF AccountOverlooked, KeystoreTypeOK
<1>18. ASSUME DefaultUnread(p) \/ AccountsUnlisted(p) \/ PointerStays(p)
       PROVE  Goal /\ Disk /\ InKeystore(p)
  BY <1>3, <1>4, <1>18 DEF DefaultUnread, AccountsUnlisted, PointerStays, In, InKeystore, AuthPoints,
                           KeystoreTypeOK
<1> QED
  BY <1>5, <1>6, <1>7, <1>8, <1>9, <1>10, <1>11, <1>12, <1>13, <1>14, <1>15, <1>16, <1>17, <1>18
     DEF KeystoreStep, KeystoreFails

Turns(p) == KeystoreMoves(p) \/ KeystoreSlips(p)

LEMMA KeystoreKeeps ==
    ASSUME NEW p \in Procs, KeystoreTypeOK, Fits(p), Turns(p)
    PROVE  Fits(p)'
<1>1. /\ KeystoreTypeOK' /\ SessionsStay(p) /\ SessionFits(session[p])' /\ InKeystore(p)
      /\ session[p].pc \in Resolving =>
           session'[p].pc \in {"account", "resolved", "refused"}
      /\ session[p].pc \in AuthPoints =>
           session'[p].pc \in AuthPoints \union {"changed", "refused"}
  BY KeystoreStepEffect DEF Turns, KeystoreMoves, KeystoreSlips, Fits
<1>2. proc' = proc /\ scenario' = scenario
  BY DEF Turns, KeystoreMoves, KeystoreSlips, setting
<1>3. ~Free(p) /\ ~Signed(p)
  BY <1>1 DEF Fits, SessionOf, Signed, InKeystore, Resolving, AuthPoints
<1>4. SessionOf(p)'
  BY <1>1, <1>2, <1>3 DEF Fits, SessionOf, Free, InKeystore, Asks, Resolving, AuthPoints
<1>5. PointFits(p)'
  BY <1>2 DEF Fits, PointFits, At, Asks, Free
<1>6. SignedFits(p)'
  BY <1>2, <1>3 DEF Fits, SignedFits, At, Asks, Signed
<1>7. UploadFits(p)'
  BY <1>2, <1>3 DEF Fits, UploadFits, Asks, UploadMade
<1>8. MappedFits(p)'
  BY <1>2, <1>3 DEF Fits, MappedFits, SignedFits, Contract, Calling, At, Asks
<1> QED
  BY <1>1, <1>4, <1>5, <1>6, <1>7, <1>8 DEF Fits

(***************************************************************************)
(* The remaining steps of a terminal.                                      *)
(***************************************************************************)
LEMMA RequestsAre ==
    ASSUME scenario \in Scenarios, NEW req \in scenario.requests
    PROVE  /\ req \in Request /\ req.name \in CommandNames
           /\ req.account \in Names \union {NoName, Secret} /\ req.cid \in Cids
           /\ req.grant \in Nat /\ (req.name \in AuthCommands => req.account \in Names)
BY ScenariosAssumption DEF Request

LEMMA StartEffect ==
    ASSUME NEW p \in Procs, TypeOK, Start(p)
    PROVE  /\ Kept(p) /\ SessionType' /\ SessionsStay(p)
           /\ proc'[p].pc \in {"read", "auth", "map", "check"}
           /\ proc'[p].outcome = "none" /\ proc'[p].entry = "none" /\ proc'[p].seen = {}
           /\ ~Begun(p)'
<1>1. PICK req \in scenario.requests :
          /\ proc' = [proc EXCEPT ![p] = [Idle EXCEPT !.req = req, !.pc = First(req.name)]]
          /\ session' = [session EXCEPT ![p] = Session(req)]
  BY DEF Start
<1>2. /\ req.name \in CommandNames /\ req.account \in Names \union {NoName, Secret}
      /\ (req.name \in AuthCommands => req.account \in Names)
  BY RequestsAre DEF TypeOK
<1>3. ProcType /\ SessionType /\ scenario' = scenario
  BY DEF TypeOK, KeystoreTypeOK, ProcType, ProcRecord, SessionType, SessionRecord, Start
<1>4. /\ First(req.name) \in {"read", "auth", "map", "check"}
      /\ First(req.name) = "read" <=> req.name \in HistoryCommands
      /\ First(req.name) = "auth" <=> req.name \in AuthCommands
      /\ First(req.name) = "map" <=> req.name = "claim"
  BY <1>2 DEF First, CommandNames, SigningCommands, HistoryCommands, AuthCommands
<1>5. /\ proc' \in [Procs -> ProcRecord] /\ OthersStay(p) /\ proc'[p].pc = First(req.name) /\ proc'[p].req = req
      /\ proc'[p].outcome = "none" /\ proc'[p].entry = "none" /\ proc'[p].seen = {}
  BY <1>1, <1>3, <1>4 DEF ProcType, ProcRecord, Idle, ControlPoints, OthersStay, Outcomes, EntryOutcomes
<1> DEFINE way == Session(req)
<1>6. /\ way \in SessionRecord /\ SessionFits(way)
      /\ req.name \in HistoryCommands => way.pc = "none"
      /\ req.name \in SigningCommands => way.pc \in {"resolved", "pointer"}
      /\ req.name \in AuthCommands => way.pc \in {"mkdir", "find", "look", "list"}
  <2>1. CASE req.name \in HistoryCommands
    <3>1. way = NoSession /\ req.name \notin SigningCommands \union AuthCommands
      BY <2>1 DEF Session, HistoryCommands, SigningCommands, AuthCommands
    <3> QED
      BY <3>1 DEF NoSession, SessionRecord, SessionFits, SessionPoints, Resolving, AuthPoints
  <2>2. CASE req.name \in SigningCommands
    <3>1. way = Wanted(req.account) /\ req.name \notin HistoryCommands \union AuthCommands
      BY <2>2 DEF Session, HistoryCommands, SigningCommands, AuthCommands
    <3>2. CASE req.account = Secret
      BY <2>2, <3>1, <3>2
         DEF Wanted, NoSession, SessionRecord, SessionFits, SessionPoints, Resolving, AuthPoints,
             Signers, NoName, Secret
    <3>3. CASE req.account # Secret
      BY <1>2, <2>2, <3>1, <3>3, NamesAssumption
         DEF Wanted, NoSession, SessionRecord, SessionFits, SessionPoints, Resolving, AuthPoints,
             NoName
    <3> QED
      BY <3>2, <3>3
  <2>3. CASE req.name \in AuthCommands
    <3>1. req.name \notin HistoryCommands \union SigningCommands /\ req.account \in Names
      BY <1>2, <2>3 DEF HistoryCommands, SigningCommands, AuthCommands
    <3>2. PICK pc \in {"mkdir", "find", "look", "list"} :
             way = [NoSession EXCEPT !.name = req.account, !.pc = pc]
      <4>1. way = [NoSession EXCEPT !.name = req.account,
                     !.pc = CASE req.name = "authSet" -> "mkdir" [] req.name = "authUse" -> "find"
                              [] req.name = "authRemove" -> "look" [] OTHER -> "list"]
        BY <3>1 DEF Session
      <4>2. (CASE req.name = "authSet" -> "mkdir" [] req.name = "authUse" -> "find"
               [] req.name = "authRemove" -> "look" [] OTHER -> "list")
               \in {"mkdir", "find", "look", "list"}
        OBVIOUS
      <4> HIDE DEF way
      <4> QED
        BY <4>1, <4>2
    <3> HIDE DEF way
    <3> QED
      BY <3>1, <3>2 DEF NoSession, SessionRecord, SessionFits, SessionPoints, Resolving, AuthPoints,
                        NoName
  <2> QED
    BY <1>2, <2>1, <2>2, <2>3 DEF CommandNames
<1> HIDE DEF way
<1>7. SessionType' /\ SessionsStay(p) /\ session'[p] = way
  BY <1>1, <1>3, <1>6 DEF SessionType, SessionsStay, way
<1>8. Fits(p)'
  <2>1. SessionOf(p)'
    BY <1>2, <1>4, <1>5, <1>6, <1>7
       DEF SessionOf, Free, InKeystore, Asks, CommandNames, Resolving, AuthPoints
  <2>2. PointFits(p)'
    BY <1>2, <1>3, <1>4, <1>5
       DEF PointFits, At, Asks, Free, Contract, Calling, File, CommandNames, SigningCommands, HistoryCommands
  <2>3. SignedFits(p)' /\ MappedFits(p)'
    BY <1>4, <1>5 DEF SignedFits, MappedFits, At, Asks, Contract, Calling
  <2>4. UploadFits(p)'
    BY <1>4, <1>5 DEF UploadFits, Asks, Contract, Calling, File, HistoryCommands
  <2> QED
    BY <1>6, <1>7, <2>1, <2>2, <2>3, <2>4 DEF Fits
<1> QED
  BY <1>2, <1>4, <1>5, <1>6, <1>7, <1>8
     DEF Kept, Begun, Changes, AuthPoints, CommandNames

LEMMA SessionEndsKeeps ==
    ASSUME NEW p \in Procs, ProcType, scenario \in Scenarios, Fits(p), SessionEnds(p)
    PROVE  Kept(p)
<1>1. /\ ~InKeystore(p) /\ ~Signed(p) /\ ~Free(p) /\ ~At(p, "idle")
      /\ session' = session /\ scenario' = scenario /\ stored' = stored
  BY DEF SessionEnds, InKeystore, Signed, Free, At, Resolving, AuthPoints, keystoreVars, setting,
         chainVars
<1>2. PICK outcome \in Outcomes : End(p, outcome) /\ (outcome = "ok" => session[p].pc = "changed")
  BY DEF SessionEnds, Outcomes
<1>3. outcome = "ok" => ~Asks(p, {"upload"})
  <2>1. proc[p].req.name \in CommandNames
    BY <1>1, RequestsAre DEF Fits, PointFits, SessionEnds
  <2> QED
    BY <1>1, <1>2 DEF Fits, SessionOf, Asks, SigningCommands, Resolving
<1> QED
  BY <1>1, <1>2, <1>3, EndEffect, FitsEnded DEF Kept

LEMMA CrashKeeps ==
    ASSUME NEW p \in Procs, ProcType, KeystoreTypeOK, Fits(p), Crash(p)
    PROVE  Kept(p) /\ KeystoreTypeOK' /\ SessionsStay(p) /\ ~Begun(p)'
<1>1. ~Free(p) /\ ~At(p, "idle") /\ scenario' = scenario /\ stored' = stored /\ mapped' = mapped
  BY DEF Crash, Free, At, setting, chainVars
<1>2. /\ proc' \in [Procs -> ProcRecord] /\ OthersStay(p) /\ proc'[p].pc = "ended"
      /\ proc'[p].req = proc[p].req /\ proc'[p].seen = {} /\ proc'[p].outcome = "failed"
  BY EndEffect DEF Crash, Outcomes
<1>3. CASE ~InKeystore(p)
  <2>1. UNCHANGED keystoreVars
    BY <1>3 DEF Crash
  <2> QED
    BY <1>1, <1>2, <1>3, <2>1, FitsEnded
       DEF Kept, keystoreVars, KeystoreTypeOK, SessionsStay, Begun, Changes, InKeystore
<1>4. CASE InKeystore(p)
  <2>1. Interrupted(p)
    BY <1>4 DEF Crash
  <2>2. SessionType /\ "refused" \in SessionPoints
    BY DEF KeystoreTypeOK, SessionType, SessionRecord, SessionPoints
  <2>3. SessionType' /\ SessionsStay(p) /\ session'[p].pc = "refused" /\ session'[p].signer = NoName
    BY <2>1, <2>2, StopsEffect DEF Interrupted
  <2>4. KeystoreTypeOK'
    BY <2>1, <2>3 DEF Interrupted, KeystoreTypeOK, SessionType, SessionRecord
  <2>5. SessionFits(session[p])' /\ SessionOf(p)'
    BY <1>2, <2>3 DEF SessionFits, SessionOf, Free, InKeystore, Resolving, AuthPoints
  <2>6. PointFits(p)'
    BY <1>1, <1>2 DEF Fits, PointFits, At, Asks, Contract, Calling, File, Free
  <2>7. SignedFits(p)' /\ MappedFits(p)' /\ UploadFits(p)'
    BY <1>2 DEF SignedFits, MappedFits, UploadFits, At, Contract, Calling, File
  <2> QED
    BY <1>2, <2>3, <2>4, <2>5, <2>6, <2>7 DEF Fits, Kept, Begun, Changes, AuthPoints
<1> QED
  BY <1>3, <1>4


(***************************************************************************)
(* Every variable keeps its type, and every terminal its order.            *)
(***************************************************************************)
RestType ==
    /\ authorization \in [Signers -> [granted : BOOLEAN, allowance : Nat, expired : BOOLEAN]]
    /\ stored \subseteq Signers \X Cids /\ cached \subseteq Signers \X Cids
    /\ mapped \subseteq Signers /\ userStore \subseteq mapped
    /\ pool \in [Signers -> Calls \union {NoCall}] /\ spent \subseteq Procs
    /\ history \subseteq Cids \union {Torn}
    /\ scenario \in Scenarios /\ commands \in 0..MaxCommands /\ faults \in 0..MaxFaults
    /\ promised \subseteq Cids /\ doubtful \subseteq Cids /\ unseen \in [Procs -> SUBSET Cids]

LEMMA TypeParts ==
    /\ TypeOK <=> ProcType /\ KeystoreTypeOK /\ RestType
    /\ TypeOK' <=> ProcType' /\ KeystoreTypeOK' /\ RestType'
BY DEF TypeOK, ProcType, ProcRecord, RestType

\* A signed command has an account, and a running one a content.
LEMMA EntryType ==
    ASSUME NEW p \in Procs, TypeOK, Fits(p), ~Free(p)
    PROVE  /\ proc[p].req \in Request /\ proc[p].req.cid \in Cids /\ proc[p].req.grant \in Nat
           /\ Account(p) \in Signers \union {NoName}
           /\ Signed(p) => Account(p) \in Signers /\ Entry(p) \in Signers \X Cids
<1>1. proc[p].req \in scenario.requests
  BY DEF Fits, PointFits, At, Free
<1>2. session[p].signer \in Signers \union {NoName}
  BY DEF TypeOK, KeystoreTypeOK
<1> QED
  BY <1>1, <1>2, RequestsAre DEF TypeOK, Fits, SessionFits, Signed, Account, Entry

LEMMA SignedNow ==
    ASSUME NEW p \in Procs, TypeOK, Fits(p), Ready(p),
           proc[p].pc \in Contract \union {"store", "submit", "verify"}
    PROVE  Signed(p) /\ Account(p) \in Signers
<1>1. ~Free(p) /\ Asks(p, SigningCommands)
  BY DEF Contract, Calling, Free, Fits, PointFits, At, Asks, SigningCommands
<1>2. Signed(p)
  BY <1>1 DEF Fits, SessionOf, Ready, Signed, Resolving
<1> QED
  BY <1>1, <1>2, EntryType

LEMMA RestKeeps ==
    ASSUME NEW p \in Procs, TypeOK, Fits(p), Ready(p), Doing(p)
    PROVE  RestType'
<1>1. RestType /\ MaxFaults \in Nat
  BY TypeParts, BoundsAssumption
<1>2. scenario' \in Scenarios /\ commands' \in 0..MaxCommands
  BY <1>1, DoingFrame DEF RestType, setting
<1> DEFINE Luck == Fortune \/ Misfortune
<1>3. Luck => faults' \in 0..MaxFaults
  BY <1>1 DEF RestType, Fortune, Misfortune
<1>4. CASE CheckForUpload(p) \/ CheckForAuthorize(p) \/ CheckForRefresh(p)
           \/ VerifyAuthorization(p) \/ SubmitRejected(p)
  <2>1. Luck /\ UNCHANGED authFrame
    BY <1>4 DEF CheckForUpload, CheckForAuthorize, CheckForRefresh, VerifyAuthorization,
                SubmitRejected, ReadAuthorization
  <2> QED
    BY <1>1, <1>2, <1>3, <2>1 DEF RestType, authFrame, chainVars, nonceVars, ghostVars
<1>5. CASE Authorize(p) \/ Refresh(p)
  <2>1. Luck /\ UNCHANGED submitFrame /\ ~Free(p) /\ Account(p) \in Signers
    BY <1>5, SignedNow DEF Authorize, Refresh, At, Free, Contract
  <2>2. proc[p].req.grant \in Nat
    BY <2>1, EntryType
  <2>3. authorization' \in [Signers -> [granted : BOOLEAN, allowance : Nat, expired : BOOLEAN]]
    <3> DEFINE Grants == [granted : BOOLEAN, allowance : Nat, expired : BOOLEAN]
    <3>1. authorization[Account(p)] \in Grants
      BY <1>1, <2>1 DEF RestType
    <3>2. Granted(authorization[Account(p)], proc[p].req.grant) \in Grants
      BY <2>2, <3>1 DEF Granted
    <3>3. CASE Authorize(p)
      <4>1. authorization' = [authorization EXCEPT
                ![Account(p)] = Granted(authorization[Account(p)], proc[p].req.grant)]
        BY <3>3 DEF Authorize
      <4> QED
        BY <1>1, <2>1, <3>2, <4>1 DEF RestType
    <3>4. CASE Refresh(p)
      BY <1>1, <2>1, <3>4 DEF Refresh, RestType
    <3> QED
      BY <1>5, <3>3, <3>4
  <2> QED
    BY <1>1, <1>2, <1>3, <2>1, <2>3 DEF RestType, submitFrame, nonceVars, ghostVars
<1>6. CASE Upload(p)
  <2>1. Luck /\ UNCHANGED <<authorization, mapped, userStore, cached, nonceVars, history, ghostVars>>
    BY <1>6 DEF Upload
  <2>2. Entry(p) \in Signers \X Cids
    BY <1>6, SignedNow, EntryType DEF Upload, At, Free
  <2>3. stored' \subseteq stored \union {Entry(p)}
    BY <1>6 DEF Upload
  <2> QED
    BY <1>1, <1>2, <1>3, <2>1, <2>2, <2>3 DEF RestType, nonceVars, ghostVars
<1>7. CASE \/ RequireStore(p) \/ LookForStore(p) \/ LookUpMapping(p) \/ ConfirmMapping(p)
           \/ DryRun(p) \/ TakeNonce(p) \/ Submit(p) \/ Lose(p)
  <2>1. Luck /\ UNCHANGED contractFrame
    BY <1>7 DEF RequireStore, LookForStore, LookUpMapping, ConfirmMapping, DryRun, TakeNonce, Submit,
                Lose
  <2>2. proc[p].req.cid \in Cids
    BY <1>7, EntryType DEF RequireStore, LookForStore, LookUpMapping, ConfirmMapping, DryRun, TakeNonce,
                           Submit, Lose, Sending, Watching, At, Free
  <2>3. pool' \in [Signers -> Calls \union {NoCall}]
    <3>1. CASE UNCHANGED pool
      BY <1>1, <3>1 DEF RestType
    <3>2. CASE Submit(p) /\ pool' = [pool EXCEPT ![Account(p)] = CallOf(p)]
      <4>1. CallOf(p) \in Calls
        BY <2>2 DEF CallOf, Calls
      <4> QED
        BY <1>1, <3>2, <4>1 DEF RestType
    <3>3. CASE Lose(p)
      <4>1. Account(p) \in Signers
        BY <3>3, SignedNow DEF Lose, Watching, Contract, Calling
      <4> QED
        BY <1>1, <3>3, <4>1 DEF Lose, RestType
    <3> QED
      BY <1>7, <3>1, <3>2, <3>3
         DEF RequireStore, LookForStore, LookUpMapping, ConfirmMapping, DryRun, TakeNonce, Submit,
             nonceVars
  <2>4. spent' \subseteq Procs
    BY <1>1, <1>7 DEF RequireStore, LookForStore, LookUpMapping, ConfirmMapping, DryRun, TakeNonce,
                      Submit, Lose, RestType, nonceVars
  <2> QED
    BY <1>1, <1>2, <1>3, <2>1, <2>3, <2>4 DEF RestType, contractFrame, ghostVars
<1>8. CASE ReadHistory(p) \/ OpenHistory(p) \/ FillHistory(p) \/ HistoryDenied(p)
  <2>1. Luck /\ UNCHANGED chainVars
    BY <1>8 DEF ReadHistory, OpenHistory, FillHistory, HistoryDenied, historyFrame
  <2>2. proc[p].seen \subseteq Cids /\ ~Free(p) /\ proc[p].req.cid \in Cids
    BY <1>8, EntryType
       DEF ReadHistory, OpenHistory, FillHistory, HistoryDenied, At, Free, TypeOK
  <2>3. CASE ReadHistory(p)
    <3>1. UNCHANGED <<history, promised, doubtful>>
      BY <2>3 DEF ReadHistory
    <3>2. unseen' \in [Procs -> SUBSET Cids]
      BY <1>1, <2>3 DEF ReadHistory, Reads, RestType
    <3> QED
      BY <1>1, <1>2, <1>3, <2>1, <3>1, <3>2 DEF RestType, chainVars, nonceVars
  <2>4. CASE OpenHistory(p) \/ HistoryDenied(p)
    <3>1. history' \subseteq Cids \union {Torn} /\ doubtful' \subseteq Cids /\ UNCHANGED <<promised, unseen>>
      BY <1>1, <2>4 DEF OpenHistory, HistoryDenied, RestType, ghostVars
    <3> QED
      BY <1>1, <1>2, <1>3, <2>1, <3>1 DEF RestType, chainVars, nonceVars
  <2>5. CASE FillHistory(p)
    <3>1. promised' \subseteq Cids /\ history' \subseteq Cids \union {Torn}
      BY <1>1, <2>2, <2>5 DEF FillHistory, Changed, RestType
    <3>2. doubtful' \subseteq Cids
      BY <1>1, <2>5 DEF FillHistory, RestType
    <3>3. unseen' \in [Procs -> SUBSET Cids]
      BY <1>1, <2>5, <3>1 DEF FillHistory, RestType
    <3> QED
      BY <1>1, <1>2, <1>3, <2>1, <3>1, <3>2, <3>3 DEF RestType, chainVars, nonceVars
  <2> QED
    BY <1>8, <2>3, <2>4, <2>5
<1> QED
  BY <1>4, <1>5, <1>6, <1>7, <1>8 DEF Doing, Work

\* All of it together: every terminal, every variable.
Ordered == TypeOK /\ \A p \in Procs : Fits(p)

LEMMA OthersOrdered ==
    ASSUME NEW p \in Procs, Ordered, Fits(p)', OthersStay(p), SessionsStay(p), scenario' = scenario,
           stored \subseteq stored', mapped \subseteq mapped'
    PROVE  (\A q \in Procs : Fits(q))'
<1>1. ASSUME NEW q \in Procs PROVE Fits(q)'
  <2>1. CASE q = p
    BY <2>1
  <2>2. CASE q # p
    BY <2>2, OthersFit DEF Ordered, OthersStay, SessionsStay
  <2> QED
    BY <2>1, <2>2
<1> QED
  BY <1>1

LEMMA DoingOrdered ==
    ASSUME NEW p \in Procs, Ordered, Ready(p), Doing(p)
    PROVE  Ordered'
<1>1. /\ UNCHANGED keystoreVars /\ session' = session /\ scenario' = scenario
      /\ stored \subseteq stored' /\ mapped \subseteq mapped'
  BY DoingFrame
<1>2. Kept(p) /\ RestType'
  BY DoingKeeps, RestKeeps, TypeParts DEF Ordered, RestType
<1>3. ProcType'
  BY <1>1, <1>2 DEF Kept, ProcType, ProcRecord
<1>4. KeystoreTypeOK'
  BY <1>1, TypeParts DEF Ordered, KeystoreTypeOK, keystoreVars
<1> QED
  BY <1>1, <1>2, <1>3, <1>4, TypeParts, OthersOrdered DEF Ordered, Kept, SessionsStay

LEMMA OtherOrdered ==
    ASSUME NEW p \in Procs, Ordered, Start(p) \/ Turns(p) \/ SessionEnds(p) \/ Crash(p)
    PROVE  Ordered'
<1>1. /\ TypeOK /\ ProcType /\ KeystoreTypeOK /\ RestType /\ Fits(p) /\ SessionFits(session[p])
      /\ scenario \in Scenarios /\ MaxFaults \in Nat /\ MaxCommands \in Nat
  BY TypeParts, BoundsAssumption DEF Ordered, RestType, Fits
<1>2. UNCHANGED <<authorization, stored, mapped, userStore, cached, pool, history, scenario, promised,
                  unseen>>
  BY DEF Start, Turns, KeystoreMoves, KeystoreSlips, SessionEnds, Crash, setting, ghostVars, chainVars,
         nonceVars
<1>3. stored \subseteq stored' /\ mapped \subseteq mapped' /\ scenario' = scenario
  BY <1>2
<1>4. commands' \in 0..MaxCommands /\ faults' \in 0..MaxFaults /\ doubtful' \subseteq Cids
      /\ spent' \subseteq spent
  <2>1. CASE Start(p)
    <3>1. /\ commands' = commands + 1 /\ commands < MaxCommands
          /\ faults' = faults /\ doubtful' = doubtful /\ spent' = spent
      BY <2>1 DEF Start, ghostVars, chainVars, nonceVars
    <3> QED
      BY <1>1, <3>1 DEF RestType
  <2>2. CASE KeystoreMoves(p) \/ SessionEnds(p)
    BY <1>1, <2>2 DEF KeystoreMoves, SessionEnds, RestType, setting, ghostVars, chainVars, nonceVars
  <2>3. CASE KeystoreSlips(p)
    BY <1>1, <2>3 DEF KeystoreSlips, Misfortune, RestType, setting, ghostVars, chainVars, nonceVars
  <2>4. CASE Crash(p)
    BY <1>1, <2>4 DEF Crash, Misfortune, RestType, setting
  <2> QED
    BY <2>1, <2>2, <2>3, <2>4 DEF Turns
<1>5. RestType'
  BY <1>1, <1>2, <1>4 DEF RestType
<1>6. CASE Start(p)
  <2>1. Kept(p) /\ SessionType' /\ SessionsStay(p)
    BY <1>1, <1>6, StartEffect
  <2>2. KeystoreTypeOK'
    BY <1>1, <1>6, <2>1 DEF Start, KeystoreTypeOK, SessionType, SessionRecord
  <2>3. ProcType'
    BY <1>3, <2>1 DEF Kept, ProcType, ProcRecord
  <2> QED
    BY <1>3, <1>5, <2>1, <2>2, <2>3, TypeParts, OthersOrdered DEF Ordered, Kept
<1>7. CASE Turns(p)
  <2>1. proc' = proc /\ (KeystoreStep(p) \/ KeystoreFails(p))
    BY <1>7 DEF Turns, KeystoreMoves, KeystoreSlips
  <2>2. KeystoreTypeOK' /\ SessionsStay(p)
    BY <1>1, <2>1, KeystoreStepEffect
  <2>3. Fits(p)'
    BY <1>1, <1>7, KeystoreKeeps
  <2>4. ProcType' /\ OthersStay(p)
    BY <1>1, <1>3, <2>1 DEF ProcType, ProcRecord, OthersStay
  <2> QED
    BY <1>3, <1>5, <2>2, <2>3, <2>4, TypeParts, OthersOrdered DEF Ordered
<1>8. CASE SessionEnds(p)
  <2>1. Kept(p) /\ UNCHANGED keystoreVars
    BY <1>1, <1>8, SessionEndsKeeps DEF SessionEnds
  <2>2. KeystoreTypeOK' /\ SessionsStay(p)
    BY <1>1, <2>1 DEF keystoreVars, KeystoreTypeOK, SessionsStay
  <2>3. ProcType'
    BY <1>3, <2>1 DEF Kept, ProcType, ProcRecord
  <2> QED
    BY <1>3, <1>5, <2>1, <2>2, <2>3, TypeParts, OthersOrdered DEF Ordered, Kept
<1>9. CASE Crash(p)
  <2>1. Kept(p) /\ KeystoreTypeOK' /\ SessionsStay(p)
    BY <1>1, <1>9, CrashKeeps
  <2>2. ProcType'
    BY <1>3, <2>1 DEF Kept, ProcType, ProcRecord
  <2> QED
    BY <1>3, <1>5, <2>1, <2>2, TypeParts, OthersOrdered DEF Ordered, Kept
<1> QED
  BY <1>6, <1>7, <1>8, <1>9

LEMMA StillOrdered ==
    ASSUME Ordered, UNCHANGED vars
    PROVE  Ordered'
<1>1. UNCHANGED <<authorization, stored, mapped, userStore, cached, pool, spent, history, directory,
                  accounts, pointer, session, raced, proc, scenario, commands, promised, doubtful,
                  unseen, faults>>
  BY DEF vars, chainVars, nonceVars, keystoreVars, setting, ghostVars
<1>2. TypeOK'
  BY <1>1, TypeParts DEF Ordered, ProcType, ProcRecord, KeystoreTypeOK, RestType
<1>3. ASSUME NEW q \in Procs PROVE Fits(q)'
  BY <1>1, OthersFit DEF Ordered
<1> QED
  BY <1>2, <1>3 DEF Ordered

LEMMA ExpiresOrdered ==
    ASSUME Ordered, Expires
    PROVE  Ordered'
<1>1. UNCHANGED <<stored, mapped, userStore, cached, pool, spent, history, directory, accounts,
                  pointer, session, raced, proc, scenario, commands, promised, doubtful, unseen>>
  BY DEF Expires, submitFrame, nonceVars, keystoreVars, setting, ghostVars
<1>2. RestType /\ MaxFaults \in Nat
  BY TypeParts, BoundsAssumption DEF Ordered
<1>3. /\ authorization' \in [Signers -> [granted : BOOLEAN, allowance : Nat, expired : BOOLEAN]]
      /\ faults' \in 0..MaxFaults
  <2>1. PICK a \in Signers : /\ authorization' = [authorization EXCEPT ![a].expired = TRUE]
                             /\ faults < MaxFaults /\ faults' = faults + 1
    BY DEF Expires, Misfortune
  <2>2. authorization' \in [Signers -> [granted : BOOLEAN, allowance : Nat, expired : BOOLEAN]]
    BY <1>2, <2>1 DEF RestType
  <2>3. faults' \in 0..MaxFaults
    BY <1>2, <2>1 DEF RestType
  <2> QED
    BY <2>2, <2>3
<1>4. TypeOK'
  BY <1>1, <1>2, <1>3, TypeParts DEF Ordered, ProcType, ProcRecord, KeystoreTypeOK, RestType
<1>5. ASSUME NEW q \in Procs PROVE Fits(q)'
  BY <1>1, OthersFit DEF Ordered
<1> QED
  BY <1>4, <1>5 DEF Ordered

\* A command that is to write the history file has its signer, or needs none.
LEMMA ChangingReady ==
    ASSUME NEW p \in Procs, Fits(p), Changing(p)
    PROVE  Ready(p)
<1>1. Asks(p, {"upload"}) \/ Asks(p, HistoryCommands)
  BY DEF Fits, PointFits, File, Changing, Asks
<1>2. CASE Asks(p, {"upload"})
  BY <1>2 DEF Fits, UploadFits, UploadMade, Signed, Changing, File, Ready
<1>3. CASE Asks(p, HistoryCommands)
  BY <1>3 DEF Fits, SessionOf, Free, Changing, Ready
<1> QED
  BY <1>1, <1>2, <1>3

LEMMA NextCases ==
    ASSUME Ordered, [Next]_vars
    PROVE  \/ \E p \in Procs : Ready(p) /\ Doing(p)
           \/ \E p \in Procs : Start(p) \/ Turns(p) \/ SessionEnds(p) \/ Crash(p)
           \/ \E a \in Signers : Execute(a)
           \/ Expires \/ UNCHANGED vars
<1>1. ASSUME NEW p \in Procs, HistoryDenied(p) PROVE Ready(p) /\ Doing(p)
  BY <1>1, ChangingReady DEF Ordered, HistoryDenied, Doing, Changing, At
<1>2. ASSUME NEW p \in Procs, Lose(p) PROVE Ready(p) /\ Doing(p)
  BY <1>2 DEF Ordered, Fits, SignedFits, Signed, Ready, Doing, Lose, Watching, At, Contract, Calling
<1> QED
  BY <1>1, <1>2 DEF Next, Step, Trouble, AllEnded, Doing, Turns

LEMMA InitOrdered ==
    ASSUME Init
    PROVE  Ordered
<1>1. MaxCommands \in Nat /\ MaxFaults \in Nat /\ scenario \in Scenarios
  BY BoundsAssumption DEF Init
<1>2. RestType
  <2>1. /\ scenario.granted \subseteq Signers /\ scenario.mapped \subseteq Signers
        /\ scenario.claimed \subseteq scenario.mapped
    BY <1>1, ScenariosAssumption
  <2>2. authorization \in [Signers -> [granted : BOOLEAN, allowance : Nat, expired : BOOLEAN]]
    BY DEF Init
  <2>3. /\ stored = {} /\ cached = {} /\ history = {} /\ promised = {} /\ doubtful = {}
        /\ unseen \in [Procs -> SUBSET Cids] /\ pool \in [Signers -> Calls \union {NoCall}] /\ spent = {}
        /\ mapped = scenario.mapped /\ userStore = scenario.claimed /\ commands = 0 /\ faults = 0
    BY DEF Init
  <2>4. commands \in 0..MaxCommands /\ faults \in 0..MaxFaults
    BY <1>1, <2>3
  <2> QED
    BY <1>1, <2>1, <2>2, <2>3, <2>4 DEF RestType
<1>3. ProcType
  BY DEF Init, ProcType, ProcRecord, Idle, ControlPoints, Outcomes, EntryOutcomes
<1>4. KeystoreTypeOK
  <2>1. scenario.keystore \subseteq Names
    BY <1>1, ScenariosAssumption
  <2>2. session = [p \in Procs |-> NoSession] /\ raced = FALSE /\ accounts = scenario.keystore
        /\ directory = (accounts # {}) /\ pointer \in accounts \union {NoName}
    BY DEF Init, KeystoreInit
  <2>3. session \in [Procs -> SessionRecord]
    BY <2>2 DEF SessionRecord, NoSession, SessionPoints
  <2> QED
    BY <2>1, <2>2, <2>3 DEF KeystoreTypeOK, SessionRecord
<1>5. ASSUME NEW p \in Procs PROVE Fits(p)
  <2>1. session[p] = NoSession /\ proc[p] = Idle
    BY DEF Init, KeystoreInit
  <2>2. SessionFits(session[p]) /\ SessionOf(p)
    BY <2>1 DEF SessionFits, SessionOf, NoSession, Idle, Free, InKeystore, Resolving, AuthPoints
  <2>3. PointFits(p) /\ SignedFits(p)
    BY <2>1 DEF PointFits, SignedFits, Idle, Free, At, Contract, Calling, File
  <2>4. UploadFits(p) /\ MappedFits(p)
    BY <2>1 DEF UploadFits, MappedFits, Idle, At, Asks, NoRequest, Calling
  <2> QED
    BY <2>2, <2>3, <2>4 DEF Fits
<1> QED
  BY <1>2, <1>3, <1>4, <1>5, TypeParts DEF Ordered

(***************************************************************************)
(* Where a step takes a command.                                           *)
(***************************************************************************)
FileStep(p) == ReadHistory(p) \/ OpenHistory(p) \/ FillHistory(p) \/ HistoryDenied(p)

Aside == {"submit", "verify", "store", "find", "map", "mapNonce", "mapSend", "mapConfirm", "write",
          "nonce", "send", "read", "ended"}

LEMMA DoingGoes ==
    ASSUME NEW p \in Procs, ProcType, Doing(p), ~FileStep(p)
    PROVE  proc'[p].pc \in Aside \/ (Submit(p) /\ proc'[p].pc \in {"mapWatch", "watch"})
<1>1. /\ Aside \union {"mapWatch", "watch"} \subseteq ControlPoints
      /\ {"ok", "failed", "notApplied"} \subseteq Outcomes /\ "noStore" \in EntryOutcomes
      /\ Blame(p) \in Outcomes /\ Blame(p) \in EntryOutcomes
  BY DEF Aside, ControlPoints, Outcomes, EntryOutcomes, Blame
<1>2. ASSUME NEW outcome \in Outcomes, End(p, outcome) PROVE proc'[p].pc \in Aside
  BY <1>2, EndEffect DEF Aside
<1>3. ASSUME NEW pc \in Aside, GoTo(p, pc) PROVE proc'[p].pc \in Aside
  BY <1>1, <1>3, GoToEffect
<1>4. ASSUME NEW entry \in EntryOutcomes, AfterCache(p, entry) PROVE proc'[p].pc \in Aside
  BY <1>4, AfterCacheEffect DEF Aside
<1>5. ContractFails(p) => proc'[p].pc \in Aside
  BY <1>1, <1>2, <1>4 DEF ContractFails
<1>6. {"submit", "verify", "store", "find", "map", "mapNonce", "mapSend", "mapConfirm", "write", "nonce",
       "send", "read"} \subseteq Aside
  BY DEF Aside
<1>7. CASE CheckForUpload(p) \/ CheckForAuthorize(p) \/ CheckForRefresh(p) \/ SubmitRejected(p)
           \/ Authorize(p) \/ Refresh(p) \/ VerifyAuthorization(p)
  BY <1>1, <1>2, <1>3, <1>6, <1>7
     DEF CheckForUpload, CheckForAuthorize, CheckForRefresh, SubmitRejected, Authorize, Refresh,
         VerifyAuthorization
<1>8. CASE Upload(p)
  BY <1>1, <1>2, <1>3, <1>6, <1>8 DEF Upload, UploadFails
<1>9. CASE RequireStore(p) \/ LookForStore(p) \/ DryRun(p)
  BY <1>1, <1>2, <1>3, <1>4, <1>5, <1>6, <1>9 DEF RequireStore, LookForStore, DryRun
<1>10. CASE LookUpMapping(p) \/ ConfirmMapping(p) \/ TakeNonce(p) \/ Lose(p)
  BY <1>3, <1>5, <1>6, <1>10 DEF LookUpMapping, ConfirmMapping, Confirm, Mapped, TakeNonce, Lose
<1>11. CASE Submit(p)
  <2>1. Rejected(p) => proc'[p].pc \in Aside
    BY <1>3, <1>5, <1>6 DEF Rejected
  <2>2. \A pc \in {"mapWatch", "watch"} : GoTo(p, pc) => proc'[p].pc = pc
    BY <1>1, GoToEffect
  <2> QED
    BY <1>11, <2>1, <2>2 DEF Submit
<1> QED
  BY <1>7, <1>8, <1>9, <1>10, <1>11 DEF Doing, Work, FileStep

(***************************************************************************)
(* The chain executes a transaction.                                       *)
(***************************************************************************)
Answered(p, a) == Watching(p) /\ Account(p) = a /\ Answer(p)

LEMMA ExecuteFrame ==
    ASSUME NEW a \in Signers, Ordered, PoolInv, Execute(a)
    PROVE  /\ UNCHANGED <<authorization, stored, history, keystoreVars, setting, ghostVars, faults>>
           /\ session' = session /\ scenario' = scenario
           /\ mapped \subseteq mapped' /\ userStore \subseteq userStore'
           /\ a \in mapped' /\ pool[a].name # "none" /\ RestType'
           /\ (\E p \in Procs : Answered(p, a)) \/ proc' = proc
           /\ (\A p \in Procs : ~(Watching(p) /\ Account(p) = a)) \/ \E p \in Procs : Answered(p, a)
<1>1. /\ UNCHANGED <<authorization, stored, history, keystoreVars, setting, ghostVars, faults>>
      /\ session' = session /\ scenario' = scenario /\ pool[a] # NoCall /\ Apply(a, pool[a])
      /\ mapped \subseteq mapped' /\ userStore \subseteq userStore'
  BY DEF Execute, Apply, Fortune, keystoreVars, setting
<1>2. RestType
  BY TypeParts DEF Ordered
<1>3. pool[a] \in Calls
  BY <1>1, <1>2 DEF RestType
<1>4. pool[a].name \in {"map_account", "claimUserStore", "setValue"} /\ pool[a].cid \in Cids
  BY <1>3 DEF Calls
<1>5. a \in mapped'
  BY <1>1, <1>4 DEF PoolInv, Apply
<1>6. RestType'
  <2>1. cached' \subseteq Signers \X Cids
    BY <1>1, <1>2, <1>4 DEF Apply, RestType
  <2>2. mapped' \subseteq Signers /\ userStore' \subseteq mapped'
    BY <1>1, <1>2, <1>5 DEF Apply, RestType
  <2>3. pool' \in [Signers -> Calls \union {NoCall}] /\ spent' \subseteq Procs
    BY <1>2 DEF Execute, RestType
  <2> QED
    BY <1>1, <1>2, <2>1, <2>2, <2>3 DEF RestType, setting, ghostVars
<1> QED
  BY <1>1, <1>4, <1>5, <1>6 DEF Execute, Answered

LEMMA AnsweredKeeps ==
    ASSUME NEW a \in Signers, NEW p \in Procs, Ordered, PoolInv, Execute(a), Answered(p, a)
    PROVE  /\ Kept(p) /\ proc'[p].pc \in Aside /\ proc'[p].req = proc[p].req
           /\ \/ proc'[p].outcome = proc[p].outcome /\ proc'[p].entry = proc[p].entry
                 /\ proc'[p].pc # "mapConfirm"
              \/ /\ proc'[p].pc # "mapConfirm" /\ proc'[p].entry \in {"made", proc[p].entry}
                 /\ proc'[p].outcome \in {"ok", "failed", proc[p].outcome}
                 /\ proc'[p].outcome = "failed" => a \in userStore
<1>1. /\ TypeOK /\ ProcType /\ Fits(p) /\ session' = session /\ scenario' = scenario
      /\ stored \subseteq stored' /\ a \in mapped'
  BY TypeParts, ExecuteFrame DEF Ordered
<1>2. Watching(p) /\ Account(p) = a /\ Answer(p) /\ proc[p].pc \in Contract
  BY DEF Answered, Watching, Contract, Calling
<1>3. Signed(p) /\ Ready(p) /\ ~Free(p) /\ ~At(p, "auth") /\ proc[p].seen = {}
      /\ Asks(p, {"upload", "claim"}) /\ proc[p].outcome = "none"
  BY <1>1, <1>2 DEF Fits, SignedFits, PointFits, Signed, Ready, Free, At, Watching, Contract, Calling
<1>4. Asks(p, {"upload"}) => Entry(p) \in stored'
  BY <1>1, <1>2 DEF Fits, UploadFits, UploadMade
<1>5. /\ {"find", "write"} \subseteq ControlPoints \ {"idle", "auth", "check", "ended"}
      /\ {"find", "write"} \subseteq Contract /\ {"ok", "failed"} \subseteq Outcomes
      /\ "made" \in EntryOutcomes /\ {"find", "write", "ended", "read"} \subseteq Aside
      /\ "find" \notin File /\ "write" \notin File
  BY DEF ControlPoints, Contract, Calling, File, Outcomes, EntryOutcomes, Aside
<1>6. CASE At(p, "mapWatch")
  <2>1. PICK pc \in {"find", "write"} : GoTo(p, pc)
    BY <1>2, <1>6 DEF Answer, Mapped
  <2>2. Kept(p)
    BY <1>1, <1>2, <1>3, <1>4, <1>5, <2>1, KeptByGoTo
  <2> QED
    BY <1>1, <1>5, <2>1, <2>2, GoToEffect
<1>7. CASE At(p, "watch") /\ Asks(p, {"claim"})
  <2>1. PICK outcome \in {"ok", "failed"} : End(p, outcome) /\ (outcome = "failed" => a \in userStore)
    BY <1>2, <1>7 DEF Answer, At
  <2>2. Kept(p)
    BY <1>1, <1>2, <1>3, <1>5, <1>7, <2>1, KeptByEnd DEF Asks
  <2> QED
    BY <1>1, <1>5, <2>1, <2>2, EndEffect
<1>8. CASE At(p, "watch") /\ ~Asks(p, {"claim"})
  <2>1. AfterCache(p, "made") /\ Asks(p, {"upload"})
    BY <1>2, <1>3, <1>8 DEF Answer, At, Asks
  <2>2. Kept(p)
    BY <1>1, <1>2, <1>3, <1>5, <2>1, KeptByAfterCache
  <2> QED
    BY <1>1, <1>3, <1>5, <2>1, <2>2, AfterCacheEffect
<1> QED
  BY <1>2, <1>6, <1>7, <1>8 DEF Watching, At

LEMMA ExecuteOrdered ==
    ASSUME NEW a \in Signers, Ordered, PoolInv, Execute(a)
    PROVE  Ordered'
<1>1. /\ UNCHANGED keystoreVars /\ session' = session /\ scenario' = scenario
      /\ stored \subseteq stored' /\ mapped \subseteq mapped' /\ RestType'
  BY ExecuteFrame
<1>2. KeystoreTypeOK'
  BY <1>1, TypeParts DEF Ordered, KeystoreTypeOK, keystoreVars
<1>3. ASSUME NEW p \in Procs, Answered(p, a) PROVE Ordered'
  <2>1. Kept(p)
    BY <1>3, AnsweredKeeps
  <2>2. ProcType'
    BY <1>1, <2>1 DEF Kept, ProcType, ProcRecord
  <2> QED
    BY <1>1, <1>2, <2>1, <2>2, TypeParts, OthersOrdered DEF Ordered, Kept, SessionsStay
<1>4. CASE proc' = proc
  <2>1. ProcType'
    BY <1>1, <1>4, TypeParts DEF Ordered, ProcType, ProcRecord
  <2>2. \A q \in Procs : Fits(q)'
    BY <1>1, <1>4, OthersFit DEF Ordered
  <2> QED
    BY <1>1, <1>2, <2>1, <2>2, TypeParts DEF Ordered
<1> QED
  BY <1>3, <1>4, ExecuteFrame

\* Every step keeps all terminals in order.
LEMMA NextOrdered ==
    ASSUME Ordered, PoolInv, [Next]_vars
    PROVE  Ordered'
BY NextCases, DoingOrdered, OtherOrdered, ExecuteOrdered, ExpiresOrdered, StillOrdered

(***************************************************************************)
(* The pools.                                                              *)
(***************************************************************************)

\* A command that neither waits for a transaction afterwards, nor holds a nonce another has
\* used up.
LEMMA PoolQuiet ==
    ASSUME NEW p \in Procs, PoolInv, spent \subseteq Procs, OthersStay(p), SessionsStay(p),
           stored \subseteq stored', mapped \subseteq mapped', pool' = pool,
           spent' \subseteq spent \ {p}, ~Watching(p)'
    PROVE  PoolInv'
<1>1. ASSUME NEW q \in Procs
      PROVE  /\ Watching(q)' => Watching(q) /\ Account(q)' = Account(q)
             /\ At(q, "mapWatch")' => At(q, "mapWatch") /\ Watching(q)'
             /\ q \in spent' => q # p /\ q \in spent /\ (Sending(q) => Sending(q)')
  BY DEF OthersStay, SessionsStay, Watching, Sending, At, Account
<1>2. \A a \in Signers : /\ pool'[a].name = "setValue" => <<a, pool'[a].cid>> \in stored'
                         /\ pool'[a].name \in {"claimUserStore", "setValue"} => a \in mapped'
  BY DEF PoolInv
<1>3. \A q \in Procs : /\ Watching(q)' => pool'[Account(q)'].name # "none"
                       /\ At(q, "mapWatch")' => pool'[Account(q)'].name = "map_account"
  BY <1>1 DEF PoolInv
<1>4. \A q, r \in Procs : Watching(q)' /\ Watching(r)' /\ Account(q)' = Account(r)' => q = r
  BY <1>1 DEF PoolInv
<1>5. \A q \in spent' : Sending(q)'
  BY <1>1 DEF PoolInv
<1> QED
  BY <1>2, <1>3, <1>4, <1>5 DEF PoolInv

LEMMA SubmitPool ==
    ASSUME NEW p \in Procs, Ordered, PoolInv, Ready(p), Submit(p)
    PROVE  PoolInv'
<1>1. /\ TypeOK /\ ProcType /\ Fits(p) /\ Kept(p) /\ session' = session /\ spent \subseteq Procs
      /\ stored \subseteq stored' /\ mapped' = mapped /\ spent' = spent \ {p}
      /\ history \subseteq Cids \union {Torn}
  BY TypeParts, DoingKeeps, DoingFrame DEF Ordered, TypeOK, RestType, Doing, Work, Submit
<1>2. OthersStay(p) /\ SessionsStay(p) /\ Account(p)' = Account(p) /\ ~Watching(p)
  BY <1>1 DEF Kept, SessionsStay, Account, Submit, Sending, Watching
<1>3. CASE pool' = pool /\ Rejected(p)
  <2>1. proc'[p].pc \in Aside
    <3>1. CASE At(p, "mapSend")
      BY <1>1, <1>3, <3>1, GoToEffect DEF Rejected, ControlPoints, Aside
    <3>2. CASE Asks(p, {"claim"}) /\ ~At(p, "mapSend")
      BY <1>1, <1>3, <3>2, EndEffect DEF Rejected, ContractFails, Blame, Outcomes, Aside
    <3>3. CASE ~Asks(p, {"claim"}) /\ ~At(p, "mapSend")
      BY <1>1, <1>3, <3>3, AfterCacheEffect DEF Rejected, ContractFails, Blame, EntryOutcomes, Aside
    <3> QED
      BY <3>1, <3>2, <3>3
  <2>2. ~Watching(p)'
    BY <2>1 DEF Watching, Aside
  <2> QED
    BY <1>1, <1>2, <1>3, <2>2, PoolQuiet
<1>4. CASE /\ pool[Account(p)] = NoCall /\ pool' = [pool EXCEPT ![Account(p)] = CallOf(p)]
           /\ GoTo(p, IF At(p, "mapSend") THEN "mapWatch" ELSE "watch")
  <2>1. /\ Account(p) \in Signers /\ ~Free(p) /\ Asks(p, {"upload", "claim"})
        /\ Asks(p, {"upload"}) => Entry(p) \in stored
        /\ ~At(p, "mapSend") => Account(p) \in mapped
    BY <1>1, SignedNow
       DEF Submit, Sending, Contract, Calling, Free, At, Fits, PointFits, UploadFits, UploadMade, MappedFits
  <2>2. /\ proc'[p].pc = IF At(p, "mapSend") THEN "mapWatch" ELSE "watch"
    BY <1>1, <1>4, GoToEffect DEF ControlPoints
  <2>3. pool'[Account(p)] = CallOf(p) /\ \A a \in Signers \ {Account(p)} : pool'[a] = pool[a]
    BY <1>1, <1>4, <2>1 DEF TypeOK
  <2>4. \A q \in Procs : Watching(q) => Account(q) # Account(p)
    BY <1>4 DEF PoolInv, NoCall
  <2>5. ASSUME NEW q \in Procs, q # p
        PROVE  /\ Watching(q)' <=> Watching(q)
               /\ At(q, "mapWatch")' <=> At(q, "mapWatch")
               /\ Sending(q)' <=> Sending(q)
               /\ Account(q)' = Account(q)
               /\ Watching(q) => Account(q) \in Signers
    <3>1. Watching(q) => Account(q) \in Signers
      BY EntryType DEF Ordered, Fits, SignedFits, Watching, At, Contract, Calling, Free
    <3> QED
      BY <1>2, <2>5, <3>1 DEF OthersStay, SessionsStay, Watching, Sending, At, Account
  <2>6. \A a \in Signers : /\ pool'[a].name = "setValue" => <<a, pool'[a].cid>> \in stored'
                           /\ pool'[a].name \in {"claimUserStore", "setValue"} => a \in mapped'
    <3>1. /\ CallOf(p).name = "setValue" => <<Account(p), CallOf(p).cid>> \in stored'
          /\ CallOf(p).name \in {"claimUserStore", "setValue"} => Account(p) \in mapped'
      BY <1>1, <2>1 DEF CallOf, Entry, Asks
    <3> QED
      BY <1>1, <2>3, <3>1 DEF PoolInv
  <2>7. \A q \in Procs : /\ Watching(q)' => pool'[Account(q)'].name # "none"
                         /\ At(q, "mapWatch")' => pool'[Account(q)'].name = "map_account"
    <3>1. CallOf(p).name # "none" /\ (At(p, "mapSend") => CallOf(p).name = "map_account")
      BY DEF CallOf
    <3>2. /\ pool'[Account(p)'].name # "none"
          /\ At(p, "mapWatch")' => pool'[Account(p)'].name = "map_account"
      BY <1>2, <2>2, <2>3, <3>1 DEF At
    <3>3. ASSUME NEW q \in Procs, q # p, Watching(q)'
          PROVE  /\ pool'[Account(q)'].name # "none"
                 /\ At(q, "mapWatch")' => pool'[Account(q)'].name = "map_account"
      BY <2>3, <2>4, <2>5, <3>3 DEF PoolInv
    <3> QED
      BY <3>2, <3>3 DEF Watching, At
  <2>8. \A q, r \in Procs : Watching(q)' /\ Watching(r)' /\ Account(q)' = Account(r)' => q = r
    BY <1>2, <2>4, <2>5 DEF PoolInv
  <2>9. \A q \in spent' : Sending(q)'
    BY <1>1, <2>5 DEF PoolInv
  <2> QED
    BY <2>6, <2>7, <2>8, <2>9 DEF PoolInv
<1> QED
  BY <1>3, <1>4 DEF Submit

LEMMA LosePool ==
    ASSUME NEW p \in Procs, Ordered, PoolInv, Ready(p), Lose(p)
    PROVE  PoolInv'
<1>1. /\ TypeOK /\ ProcType /\ Fits(p) /\ Kept(p) /\ session' = session /\ spent \subseteq Procs
      /\ stored \subseteq stored' /\ mapped' = mapped /\ spent' = spent
      /\ history \subseteq Cids \union {Torn} /\ ~FileStep(p) /\ ~Submit(p)
  BY TypeParts, DoingKeeps, DoingFrame
     DEF Ordered, TypeOK, RestType, Doing, Lose, Watching, FileStep, ReadHistory, OpenHistory, FillHistory,
         HistoryDenied, Submit, Sending, At
<1>2. OthersStay(p) /\ SessionsStay(p) /\ ~Sending(p) /\ Watching(p)
  BY <1>1 DEF Kept, SessionsStay, Lose, Sending, Watching
<1>3. ~Watching(p)'
  BY <1>1, DoingGoes DEF Doing, Watching, Aside
<1>4. p \notin spent
  BY <1>2 DEF PoolInv
<1>5. CASE pool' = pool
  BY <1>1, <1>2, <1>3, <1>4, <1>5, PoolQuiet
<1>6. CASE pool' = [pool EXCEPT ![Account(p)] = NoCall]
  <2>1. \A a \in Signers : pool'[a] \in {pool[a], NoCall} /\ (a # Account(p) => pool'[a] = pool[a])
    BY <1>1, <1>6 DEF TypeOK
  <2>2. ASSUME NEW q \in Procs, Watching(q)'
        PROVE  /\ q # p /\ Watching(q) /\ Account(q)' = Account(q) /\ Account(q) # Account(p)
               /\ At(q, "mapWatch")' <=> At(q, "mapWatch")
               /\ pool'[Account(q)'] = pool[Account(q)]
    <3>1. q # p /\ Watching(q) /\ Account(q)' = Account(q) /\ (At(q, "mapWatch")' <=> At(q, "mapWatch"))
      BY <1>2, <1>3, <2>2 DEF OthersStay, SessionsStay, Watching, At, Account
    <3>2. Account(q) # Account(p)
      BY <1>2, <3>1 DEF PoolInv
    <3>3. Account(q) \in Signers
      BY <3>1, EntryType DEF Ordered, Fits, SignedFits, Watching, At, Contract, Calling, Free
    <3> QED
      BY <2>1, <3>1, <3>2, <3>3
  <2>3. \A a \in Signers : /\ pool'[a].name = "setValue" => <<a, pool'[a].cid>> \in stored'
                           /\ pool'[a].name \in {"claimUserStore", "setValue"} => a \in mapped'
    BY <1>1, <2>1 DEF PoolInv, NoCall
  <2>4. \A q \in Procs : /\ Watching(q)' => pool'[Account(q)'].name # "none"
                         /\ At(q, "mapWatch")' => pool'[Account(q)'].name = "map_account"
    BY <2>2 DEF PoolInv, Watching, At
  <2>5. \A q, r \in Procs : Watching(q)' /\ Watching(r)' /\ Account(q)' = Account(r)' => q = r
    BY <2>2 DEF PoolInv
  <2>6. \A q \in spent' : Sending(q)'
    BY <1>1, <1>2, <1>4 DEF PoolInv, OthersStay, Sending
  <2> QED
    BY <2>3, <2>4, <2>5, <2>6 DEF PoolInv
<1> QED
  BY <1>1, <1>5, <1>6 DEF Lose, TypeOK

LEMMA ExecutePool ==
    ASSUME NEW a \in Signers, Ordered, PoolInv, Execute(a)
    PROVE  PoolInv'
<1>1. /\ session' = session /\ stored' = stored /\ mapped \subseteq mapped' /\ TypeOK
      /\ pool' = [pool EXCEPT ![a] = NoCall]
      /\ spent' = spent \union {p \in Procs : Sending(p) /\ Account(p) = a}
      /\ (\E p \in Procs : Answered(p, a)) \/ proc' = proc
      /\ (\A p \in Procs : ~(Watching(p) /\ Account(p) = a)) \/ \E p \in Procs : Answered(p, a)
  BY ExecuteFrame DEF Ordered, Execute
<1>2. ASSUME NEW q \in Procs
      PROVE  /\ Watching(q)' => /\ Watching(q) /\ proc'[q] = proc[q] /\ Account(q) # a
                                /\ Account(q) \in Signers
             /\ Sending(q) => Sending(q)'
  <2>1. Watching(q) => Account(q) \in Signers
    BY EntryType DEF Ordered, Fits, SignedFits, Watching, At, Contract, Calling, Free
  <2>2. ASSUME NEW p \in Procs, Answered(p, a)
        PROVE  /\ Watching(q)' => Watching(q) /\ proc'[q] = proc[q] /\ Account(q) # a
               /\ Sending(q) => Sending(q)'
    <3>1. OthersStay(p) /\ ~Watching(p)' /\ Watching(p) /\ ~Sending(p) /\ Account(p) = a
      BY <2>2, AnsweredKeeps DEF Kept, Watching, Sending, Aside, Answered
    <3> QED
      BY <3>1 DEF OthersStay, Watching, Sending, PoolInv
  <2>3. CASE proc' = proc /\ \A p \in Procs : ~(Watching(p) /\ Account(p) = a)
    <3>1. /\ Watching(q)' => Watching(q) /\ proc'[q] = proc[q] /\ Account(q) # a
          /\ Sending(q) => Sending(q)'
      BY <2>3 DEF Watching, Sending
    <3> QED
      BY <2>1, <3>1
  <2> QED
    BY <1>1, <2>1, <2>2, <2>3
<1>3. \A b \in Signers : pool'[b] \in {pool[b], NoCall} /\ (b # a => pool'[b] = pool[b])
  BY <1>1 DEF TypeOK
<1>4. \A q \in Procs : Account(q)' = Account(q)
  BY <1>1 DEF Account
<1>5. \A b \in Signers : /\ pool'[b].name = "setValue" => <<b, pool'[b].cid>> \in stored'
                         /\ pool'[b].name \in {"claimUserStore", "setValue"} => b \in mapped'
  BY <1>1, <1>3 DEF PoolInv, NoCall
<1>6. \A q \in Procs : /\ Watching(q)' => pool'[Account(q)'].name # "none"
                       /\ At(q, "mapWatch")' => pool'[Account(q)'].name = "map_account"
  BY <1>2, <1>3, <1>4 DEF PoolInv, Watching, At
<1>7. \A q, r \in Procs : Watching(q)' /\ Watching(r)' /\ Account(q)' = Account(r)' => q = r
  BY <1>2, <1>4 DEF PoolInv
<1>8. \A q \in spent' : Sending(q)'
  BY <1>1, <1>2 DEF PoolInv, TypeOK
<1> QED
  BY <1>5, <1>6, <1>7, <1>8 DEF PoolInv

LEMMA DoingPool ==
    ASSUME NEW p \in Procs, Doing(p), ~Submit(p), ~Lose(p)
    PROVE  UNCHANGED <<pool, spent>> /\ ~Sending(p)
BY DEF Doing, Work, CheckForUpload, CheckForAuthorize, CheckForRefresh, Authorize, Refresh,
       VerifyAuthorization, Upload, RequireStore, LookForStore, LookUpMapping, ConfirmMapping,
       DryRun, TakeNonce, ReadHistory, OpenHistory, FillHistory, HistoryDenied, SubmitRejected,
       authFrame, submitFrame, historyFrame, chainVars, nonceVars, Sending, At

LEMMA PoolKept ==
    ASSUME Ordered, PoolInv, [Next]_vars
    PROVE  PoolInv'
<1>1. CASE UNCHANGED <<stored, mapped, pool, spent, proc, session>>
  BY <1>1 DEF PoolInv, Watching, Sending, At, Account
<1>2. ASSUME NEW p \in Procs, Ready(p), Doing(p) PROVE PoolInv'
  <2>1. /\ TypeOK /\ ProcType /\ Fits(p) /\ Kept(p) /\ session' = session /\ spent \subseteq Procs
        /\ stored \subseteq stored' /\ mapped' = mapped
    BY <1>2, TypeParts, DoingKeeps, DoingFrame DEF Ordered, TypeOK
  <2>2. CASE ~Submit(p) /\ ~Lose(p)
    <3>1. UNCHANGED <<pool, spent>> /\ ~Sending(p)
      BY <1>2, <2>2, DoingPool
    <3>2. ~Watching(p)'
      <4>1. CASE ~FileStep(p)
        BY <1>2, <2>1, <2>2, <4>1, DoingGoes DEF Watching, Aside
      <4>2. CASE FileStep(p)
        BY <2>1, <4>2, EndEffect, GoToEffect
           DEF FileStep, ReadHistory, Reads, OpenHistory, FillHistory, HistoryDenied, Watching,
               ProcType, ProcRecord, Outcomes, ControlPoints
      <4> QED
        BY <4>1, <4>2
    <3> QED
      BY <2>1, <3>1, <3>2, PoolQuiet DEF Kept, SessionsStay, PoolInv
  <2> QED
    BY <1>2, <2>2, SubmitPool, LosePool
<1>3. ASSUME NEW p \in Procs, Start(p) \/ Turns(p) \/ SessionEnds(p) \/ Crash(p)
      PROVE  PoolInv'
  <2>1. /\ TypeOK /\ ProcType /\ KeystoreTypeOK /\ Fits(p) /\ SessionFits(session[p])
        /\ scenario \in Scenarios /\ spent \subseteq Procs
    BY TypeParts DEF Ordered, RestType, Fits
  <2>2. UNCHANGED <<stored, mapped, pool>> /\ spent' \in {spent, spent \ {p}}
    BY <1>3 DEF Start, Turns, KeystoreMoves, KeystoreSlips, SessionEnds, Crash, chainVars, nonceVars
  <2>3. CASE Start(p)
    <3>1. p \notin spent /\ OthersStay(p) /\ SessionsStay(p) /\ ~Watching(p)'
      BY <2>1, <2>3, StartEffect DEF Start, Free, PoolInv, Sending, Watching, Kept
    <3> QED
      BY <2>1, <2>2, <3>1, PoolQuiet
  <2>4. CASE Turns(p)
    <3>1. proc' = proc /\ SessionsStay(p) /\ InKeystore(p)
      BY <2>1, <2>4, KeystoreStepEffect DEF Turns, KeystoreMoves, KeystoreSlips
    <3>2. ~Sending(p) /\ ~Watching(p)
      BY <2>1, <3>1 DEF Fits, SignedFits, Signed, InKeystore, Resolving, AuthPoints, Sending, Watching, At,
                        Contract, Calling
    <3> QED
      BY <2>1, <2>2, <3>1, <3>2, PoolQuiet DEF PoolInv, OthersStay, Watching
  <2>5. CASE SessionEnds(p)
    <3>1. ~Sending(p) /\ session' = session
      BY <2>1, <2>5 DEF SessionEnds, Fits, SignedFits, Signed, Sending, At, Contract, Calling, keystoreVars
    <3>2. OthersStay(p) /\ proc'[p].pc = "ended"
      BY <2>1, <2>5, EndEffect DEF SessionEnds, Outcomes
    <3> QED
      BY <2>1, <2>2, <3>1, <3>2, PoolQuiet DEF PoolInv, SessionsStay, Watching
  <2>6. CASE Crash(p)
    <3>1. OthersStay(p) /\ proc'[p].pc = "ended" /\ spent' = spent \ {p}
      BY <2>1, <2>6, EndEffect DEF Crash, Outcomes
    <3>2. SessionsStay(p)
      BY <2>1, <2>6, CrashKeeps
    <3> QED
      BY <2>1, <2>2, <3>1, <3>2, PoolQuiet DEF Watching
  <2> QED
    BY <1>3, <2>3, <2>4, <2>5, <2>6
<1>4. CASE Expires
  BY <1>1, <1>4 DEF Expires, submitFrame, nonceVars, keystoreVars
<1> QED
  BY <1>1, <1>2, <1>3, <1>4, ExecutePool, NextCases DEF vars, chainVars, nonceVars, keystoreVars

(***************************************************************************)
(* What is listed was stored.                                              *)
(***************************************************************************)

\* Before its turn at the history file a command leaves it alone.
LEMMA FileAlone ==
    ASSUME NEW p \in Procs, ProcType, Doing(p), ~FileStep(p)
    PROVE  /\ UNCHANGED <<history, promised, doubtful, unseen>>
           /\ ~At(p, "fill") /\ ~Changing(p)'
<1>1. UNCHANGED <<history, promised, doubtful, unseen>>
  BY DEF Doing, Work, FileStep, CheckForUpload, CheckForAuthorize, CheckForRefresh, Authorize,
         Refresh, VerifyAuthorization, Upload, RequireStore, LookForStore, LookUpMapping,
         ConfirmMapping, DryRun, TakeNonce, Submit, Lose, SubmitRejected, authFrame, submitFrame,
         contractFrame, ghostVars
<1>2. ~At(p, "fill")
  BY DEF Doing, Work, FileStep, CheckForUpload, CheckForAuthorize, CheckForRefresh, Authorize,
         Refresh, VerifyAuthorization, Upload, RequireStore, LookForStore, LookUpMapping,
         ConfirmMapping, DryRun, TakeNonce, Submit, Sending, Lose, Watching, SubmitRejected, At
<1>3. ~Changing(p)'
  BY DoingGoes DEF Changing, Aside
<1> QED
  BY <1>1, <1>2, <1>3

\* What a command does with the history file.
LEMMA FileEffect ==
    ASSUME NEW p \in Procs, ProcType, FileStep(p)
    PROVE  /\ \/ history' \ {Torn} \subseteq history
              \/ proc[p].pc = "fill" /\ history' = Changed(p, proc[p].seen)
           /\ proc'[p].seen \subseteq (history \ {Torn}) \union proc[p].seen
           /\ proc'[p].pc \in {"open", "fill", "ended"}
<1>1. {"ok", "failed"} \subseteq Outcomes /\ {"open", "fill"} \subseteq ControlPoints
  BY DEF Outcomes, ControlPoints
<1>2. CASE ReadHistory(p)
  <2>1. PICK entries \in {ReadContent(p), {}} :
            \/ End(p, "ok") \/ proc' = [proc EXCEPT ![p].seen = entries, ![p].pc = "open"]
    BY <1>2 DEF ReadHistory, Reads
  <2>2. entries \subseteq history \ {Torn} /\ history' = history
    BY <1>2, <2>1 DEF ReadContent, ReadHistory
  <2>3. CASE End(p, "ok")
    BY <1>1, <2>2, <2>3, EndEffect
  <2>4. CASE proc' = [proc EXCEPT ![p].seen = entries, ![p].pc = "open"]
    <3>1. proc'[p].seen = entries /\ proc'[p].pc = "open"
      BY <2>4 DEF ProcType, ProcRecord
    <3> QED
      BY <2>2, <3>1
  <2> QED
    BY <2>1, <2>3, <2>4
<1>3. CASE OpenHistory(p)
  BY <1>1, <1>3, GoToEffect DEF OpenHistory
<1>4. CASE FillHistory(p)
  BY <1>1, <1>4, EndEffect DEF FillHistory, At
<1>5. CASE HistoryDenied(p)
  BY <1>1, <1>5, EndEffect DEF HistoryDenied
<1> QED
  BY <1>2, <1>3, <1>4, <1>5 DEF FileStep

Was(cid) == \E a \in Signers : <<a, cid>> \in stored

\* What a command writes to the history was stored.
LEMMA FilledWasStored ==
    ASSUME NEW p \in Procs, TypeOK, Fits(p), proc[p].pc = "fill", \A cid \in proc[p].seen : Was(cid)
    PROVE  \A cid \in Changed(p, proc[p].seen) : Was(cid)
<1>1. CASE Asks(p, {"upload"})
  <2>1. ~Free(p) /\ proc[p].pc \in File
    BY DEF Free, File
  <2>2. <<Account(p), proc[p].req.cid>> \in stored /\ Account(p) \in Signers
    BY <1>1, <2>1, EntryType DEF Fits, UploadFits, UploadMade, Entry
  <2>3. Changed(p, proc[p].seen) = proc[p].seen \union {proc[p].req.cid}
    BY <1>1 DEF Changed, Asks
  <2> QED
    BY <2>2, <2>3 DEF Was
<1>2. CASE ~Asks(p, {"upload"})
  <2>1. CASE Asks(p, {"remove"})
    BY <1>2, <2>1 DEF Changed
  <2>2. CASE ~Asks(p, {"remove"})
    BY <1>2, <2>2 DEF Changed
  <2> QED
    BY <2>1, <2>2
<1> QED
  BY <1>1, <1>2

LEMMA ListedKept ==
    ASSUME Ordered, PoolInv, Listed, [Next]_vars
    PROVE  Listed'
<1>1. CASE UNCHANGED <<stored, cached, history, proc>>
  BY <1>1 DEF Listed
<1>2. ASSUME NEW p \in Procs, stored \subseteq stored', OthersStay(p),
             \A cid \in history' \ {Torn} : Was(cid), \A cid \in proc'[p].seen : Was(cid),
             cached' \subseteq stored'
      PROVE  Listed'
  <2>1. ASSUME NEW cid, Was(cid) PROVE \E a \in Signers : <<a, cid>> \in stored'
    BY <1>2, <2>1 DEF Was
  <2>2. \A q \in Procs : \A cid \in proc'[q].seen : Was(cid)
    BY <1>2 DEF Listed, OthersStay, Was
  <2> QED
    BY <1>2, <2>1, <2>2 DEF Listed
<1>3. CASE Expires
  BY <1>1, <1>3 DEF Expires, submitFrame
<1>4. ASSUME NEW p \in Procs, Start(p) \/ Turns(p) \/ SessionEnds(p) \/ Crash(p)
      PROVE  Listed'
  <2>1. UNCHANGED <<stored, cached, history>>
    BY <1>4 DEF Start, Turns, KeystoreMoves, KeystoreSlips, SessionEnds, Crash, chainVars
  <2>2. TypeOK /\ ProcType /\ KeystoreTypeOK /\ Fits(p) /\ scenario \in Scenarios
    BY TypeParts DEF Ordered, RestType
  <2>3. OthersStay(p) /\ proc'[p].seen \subseteq proc[p].seen
    <3>1. CASE Start(p)
      BY <2>2, <3>1, StartEffect DEF Kept
    <3>2. CASE Turns(p)
      BY <3>2 DEF Turns, KeystoreMoves, KeystoreSlips, OthersStay
    <3>3. CASE SessionEnds(p)
      BY <2>2, <3>3, EndEffect DEF SessionEnds, Outcomes
    <3>4. CASE Crash(p)
      BY <2>2, <3>4, EndEffect DEF Crash, Outcomes
    <3> QED
      BY <1>4, <3>1, <3>2, <3>3, <3>4
  <2> QED
    BY <1>2, <2>1, <2>3 DEF Listed, Was
<1>5. ASSUME NEW p \in Procs, Ready(p), Doing(p) PROVE Listed'
  <2>1. /\ TypeOK /\ ProcType /\ Fits(p) /\ stored \subseteq stored' /\ cached' = cached
        /\ history \subseteq Cids \union {Torn}
    BY <1>5, TypeParts, DoingFrame DEF Ordered, TypeOK
  <2>2. Kept(p)
    BY <1>5, <2>1, DoingKeeps
  <2>3. (\A cid \in history \ {Torn} : Was(cid)) /\ \A cid \in proc[p].seen : Was(cid)
    BY DEF Listed, Was
  <2>4. CASE FileStep(p)
    <3>1. \A cid \in proc'[p].seen : Was(cid)
      BY <2>1, <2>3, <2>4, FileEffect
    <3>2. \A cid \in history' \ {Torn} : Was(cid)
      <4>1. CASE history' \ {Torn} \subseteq history
        BY <2>3, <4>1
      <4>2. CASE proc[p].pc = "fill" /\ history' = Changed(p, proc[p].seen)
        BY <2>1, <2>3, <4>2, FilledWasStored
      <4> QED
        BY <2>1, <2>4, <4>1, <4>2, FileEffect
    <3> QED
      BY <1>2, <2>1, <2>2, <3>1, <3>2 DEF Kept, Listed
  <2>5. CASE ~FileStep(p)
    <3>1. history' = history /\ proc'[p].seen = {}
      BY <1>5, <2>1, <2>2, <2>5, FileAlone DEF Kept, Fits, PointFits, Changing
    <3> QED
      BY <1>2, <2>1, <2>2, <2>3, <3>1 DEF Kept, Listed
  <2> QED
    BY <2>4, <2>5
<1>6. ASSUME NEW a \in Signers, Execute(a) PROVE Listed'
  <2>1. UNCHANGED <<stored, history>> /\ Apply(a, pool[a])
    BY <1>6 DEF Execute
  <2>2. cached' \subseteq stored'
    BY <2>1 DEF Apply, PoolInv, Listed
  <2>3. CASE proc' = proc
    BY <2>1, <2>2, <2>3 DEF Listed
  <2>4. ASSUME NEW p \in Procs, Answered(p, a) PROVE Listed'
    <3>1. Kept(p) /\ proc'[p].pc \in Aside
      BY <1>6, <2>4, AnsweredKeeps
    <3>2. proc'[p].seen = {}
      BY <3>1 DEF Kept, Fits, PointFits, Aside
    <3> QED
      BY <1>2, <2>1, <2>2, <3>1, <3>2 DEF Kept, Listed, Was
  <2> QED
    BY <1>6, <2>3, <2>4, ExecuteFrame
<1> QED
  BY <1>1, <1>3, <1>4, <1>5, <1>6, NextCases DEF vars, chainVars

(***************************************************************************)
(* The history is what was promised.                                       *)
(***************************************************************************)

\* A step of a command that is not writing the history, and does not begin to change it.
LEMMA HistoryQuiet ==
    ASSUME NEW p \in Procs, HistoryInv, OthersStay(p), ~At(p, "fill"), ~Changing(p)',
           UNCHANGED <<history, promised, doubtful, unseen>>
    PROVE  HistoryInv'
<1>1. ASSUME NEW q \in Procs
      PROVE  /\ Changing(q)' => Changing(q) /\ proc'[q] = proc[q]
             /\ At(q, "fill") => At(q, "fill")'
  BY DEF OthersStay, Changing, At
<1> QED
  BY <1>1 DEF HistoryInv

\* A command that has ended without writing the history whole puts all of it in doubt.
LEMMA HistoryDoubted ==
    ASSUME NEW p \in Procs, HistoryInv, OthersStay(p), proc'[p].pc = "ended",
           doubtful' = Cids, UNCHANGED <<promised, unseen>>
    PROVE  HistoryInv'
<1>1. \A q \in Procs : Changing(q)' => Changing(q) /\ proc'[q] = proc[q]
  BY DEF OthersStay, Changing
<1> QED
  BY <1>1 DEF HistoryInv

LEMMA HistoryRead ==
    ASSUME NEW p \in Procs, TypeOK, HistoryInv, ReadHistory(p), OthersStay(p)
    PROVE  HistoryInv'
<1>1. /\ At(p, "read") /\ UNCHANGED <<history, promised, doubtful>> /\ ProcType
      /\ unseen \in [Procs -> SUBSET Cids]
  BY TypeParts DEF ReadHistory, TypeOK
<1>2. PICK entries, wrong :
          /\ Reads(p, entries, wrong)
          /\ \/ entries = history \ {Torn} /\ wrong = IF Filling(p) THEN Cids ELSE doubtful
             \/ wrong = Cids
  BY DEF ReadHistory, ReadContent
<1>3. unseen'[p] = wrong /\ \A q \in Procs \ {p} : unseen'[q] = unseen[q]
  BY <1>1, <1>2 DEF Reads
<1>4. \/ proc'[p].pc = "open" /\ proc'[p].seen = entries
      \/ proc'[p].pc = "ended"
  BY <1>1, <1>2, EndEffect DEF Reads, ProcType, ProcRecord, Outcomes
<1>5. (\A q \in Procs : ~At(q, "fill"))' => \A q \in Procs : ~At(q, "fill")
  BY <1>1 DEF OthersStay, At
<1>6. ASSUME NEW cid \in Cids \ wrong PROVE cid \in entries <=> cid \in promised
  <2>1. entries = history \ {Torn} /\ cid \notin doubtful /\ ~Filling(p)
    BY <1>2, <1>6
  <2>2. \A q \in Procs : ~At(q, "fill")
    BY <1>1, <2>1 DEF Filling, At
  <2> QED
    BY <2>1, <2>2, CidsAssumption DEF HistoryInv
<1>7. ASSUME NEW q \in Procs, Changing(q)', NEW cid \in Cids \ unseen'[q]
      PROVE  cid \in proc'[q].seen <=> cid \in promised'
  <2>1. CASE q = p
    BY <1>1, <1>3, <1>4, <1>6, <1>7, <2>1 DEF Changing
  <2>2. CASE q # p
    BY <1>1, <1>3, <1>7, <2>2 DEF HistoryInv, OthersStay, Changing
  <2> QED
    BY <2>1, <2>2
<1> QED
  BY <1>1, <1>5, <1>7 DEF HistoryInv

LEMMA HistoryFilled ==
    ASSUME NEW p \in Procs, TypeOK, Fits(p), HistoryInv, FillHistory(p), OthersStay(p),
           proc'[p].pc = "ended"
    PROVE  HistoryInv'
<1>1. /\ At(p, "fill") /\ unseen \in [Procs -> SUBSET Cids] /\ promised' = Changed(p, promised)
      /\ unseen' = [q \in Procs |->
                       unseen[q] \union (promised \ promised') \union (promised' \ promised)]
  BY DEF FillHistory, TypeOK
<1>2. Asks(p, {"upload"}) \/ Asks(p, {"remove"}) \/ Asks(p, {"clear"})
  BY <1>1 DEF Fits, PointFits, At, File, Asks, HistoryCommands
<1>3. \A cid \in Cids \ unseen[p] : cid \in proc[p].seen <=> cid \in promised
  BY <1>1 DEF HistoryInv, Changing, At
<1>4. ASSUME NEW cid \in Cids \ (unseen[p] \ Touched(p))
      PROVE  cid \in Changed(p, proc[p].seen) <=> cid \in Changed(p, promised)
  <2>1. cid \notin unseen[p] \/ cid \in Touched(p)
    BY <1>4
  <2>2. CASE Asks(p, {"upload"})
    BY <1>3, <2>1, <2>2 DEF Changed, Touched, Asks
  <2>3. CASE Asks(p, {"remove"})
    BY <1>3, <2>1, <2>3 DEF Changed, Touched, Asks
  <2>4. CASE Asks(p, {"clear"})
    BY <2>4 DEF Changed, Asks
  <2> QED
    BY <1>2, <2>2, <2>3, <2>4
<1>5. \A cid \in Cids \ doubtful' : cid \in history' <=> cid \in promised'
  BY <1>1, <1>4 DEF FillHistory
<1>6. ASSUME NEW q \in Procs, Changing(q)', NEW cid \in Cids \ unseen'[q]
      PROVE  cid \in proc'[q].seen <=> cid \in promised'
  <2>1. q # p /\ proc'[q] = proc[q] /\ Changing(q)
    BY <1>6 DEF OthersStay, Changing
  <2>2. cid \notin unseen[q] /\ (cid \in promised <=> cid \in promised')
    BY <1>1, <1>6
  <2> QED
    BY <2>1, <2>2 DEF HistoryInv
<1> QED
  BY <1>5, <1>6 DEF HistoryInv

LEMMA HistoryByFile ==
    ASSUME NEW p \in Procs, TypeOK, Fits(p), HistoryInv, FileStep(p), OthersStay(p)
    PROVE  HistoryInv'
<1>1. ProcType /\ {"ok", "failed"} \subseteq Outcomes /\ "fill" \in ControlPoints
  BY TypeParts DEF Outcomes, ControlPoints
<1>2. CASE ReadHistory(p)
  BY <1>2, HistoryRead
<1>3. CASE OpenHistory(p)
  <2>1. /\ At(p, "open") /\ proc'[p].pc = "fill" /\ proc'[p].seen = proc[p].seen
        /\ UNCHANGED <<promised, unseen>>
    BY <1>1, <1>3, GoToEffect DEF OpenHistory, ghostVars
  <2>2. \A q \in Procs : Changing(q)' => Changing(q) /\ proc'[q].seen = proc[q].seen
    BY <2>1 DEF OthersStay, Changing, At
  <2>3. At(p, "fill")'
    BY <2>1 DEF At
  <2> QED
    BY <2>1, <2>2, <2>3 DEF HistoryInv
<1>4. CASE FillHistory(p)
  BY <1>1, <1>4, EndEffect, HistoryFilled DEF FillHistory
<1>5. CASE HistoryDenied(p)
  <2>1. proc'[p].pc = "ended" /\ UNCHANGED <<promised, unseen>>
    BY <1>1, <1>5, EndEffect DEF HistoryDenied
  <2>2. CASE At(p, "open") /\ UNCHANGED <<history, doubtful>>
    BY <2>1, <2>2, HistoryQuiet DEF At, Changing
  <2>3. CASE doubtful' = Cids
    BY <2>1, <2>3, HistoryDoubted
  <2> QED
    BY <1>5, <2>2, <2>3 DEF HistoryDenied
<1> QED
  BY <1>2, <1>3, <1>4, <1>5 DEF FileStep

LEMMA HistoryKept ==
    ASSUME Ordered, PoolInv, HistoryInv, [Next]_vars
    PROVE  HistoryInv'
<1>1. CASE UNCHANGED <<history, promised, doubtful, unseen, proc>>
  BY <1>1 DEF HistoryInv, Changing, At
<1>2. ASSUME NEW p \in Procs, Ready(p), Doing(p) PROVE HistoryInv'
  <2>1. TypeOK /\ ProcType /\ Fits(p) /\ history \subseteq Cids \union {Torn}
    BY TypeParts DEF Ordered, TypeOK
  <2>2. Kept(p)
    BY <1>2, <2>1, DoingKeeps
  <2> QED
    BY <1>2, <2>1, <2>2, FileAlone, HistoryByFile, HistoryQuiet DEF Kept
<1>3. ASSUME NEW p \in Procs, Start(p) \/ Turns(p) \/ SessionEnds(p) \/ Crash(p)
      PROVE  HistoryInv'
  <2>1. TypeOK /\ ProcType /\ KeystoreTypeOK /\ Fits(p) /\ scenario \in Scenarios
    BY TypeParts DEF Ordered, RestType
  <2>2. CASE Start(p)
    <3>1. ~At(p, "fill") /\ UNCHANGED <<history, promised, doubtful, unseen>>
      BY <2>2 DEF Start, Free, At, ghostVars
    <3> QED
      BY <2>1, <2>2, <3>1, StartEffect, HistoryQuiet DEF Kept, Changing
  <2>3. CASE Turns(p)
    BY <1>1, <2>3 DEF Turns, KeystoreMoves, KeystoreSlips, ghostVars
  <2>4. CASE SessionEnds(p)
    <3>1. ~Changing(p)
      BY <2>1, <2>4, ChangingReady DEF SessionEnds, Ready
    <3>2. OthersStay(p) /\ proc'[p].pc = "ended"
      BY <2>1, <2>4, EndEffect DEF SessionEnds, Outcomes
    <3> QED
      BY <2>4, <3>1, <3>2, HistoryQuiet DEF SessionEnds, ghostVars, Changing, At
  <2>5. CASE Crash(p)
    <3>1. OthersStay(p) /\ proc'[p].pc = "ended"
      BY <2>1, <2>5, EndEffect DEF Crash, Outcomes
    <3>2. UNCHANGED <<history, promised, unseen>>
      BY <2>5 DEF Crash
    <3>3. CASE At(p, "fill")
      BY <2>5, <3>1, <3>2, <3>3, HistoryDoubted DEF Crash
    <3>4. CASE ~At(p, "fill")
      BY <2>5, <3>1, <3>2, <3>4, HistoryQuiet DEF Crash, Changing
    <3> QED
      BY <3>3, <3>4
  <2> QED
    BY <1>3, <2>2, <2>3, <2>4, <2>5
<1>4. CASE Expires
  BY <1>1, <1>4 DEF Expires, submitFrame, ghostVars
<1>5. ASSUME NEW a \in Signers, Execute(a) PROVE HistoryInv'
  <2>1. UNCHANGED <<history, promised, doubtful, unseen>>
    BY <1>5 DEF Execute, ghostVars
  <2>2. ASSUME NEW p \in Procs, Answered(p, a) PROVE HistoryInv'
    <3>1. OthersStay(p) /\ ~At(p, "fill") /\ ~Changing(p)'
      BY <1>5, <2>2, AnsweredKeeps DEF Kept, Answered, Watching, At, Changing, Aside
    <3> QED
      BY <2>1, <3>1, HistoryQuiet
  <2> QED
    BY <1>1, <1>5, <2>1, <2>2, ExecuteFrame
<1> QED
  BY <1>1, <1>2, <1>3, <1>4, <1>5, NextCases DEF vars, chainVars, ghostVars

(***************************************************************************)
(* Whoever keeps accounts has a default.                                   *)
(***************************************************************************)

\* A command that has not taken its first step at the keystore, and does not take it.
LEMMA KeystoreQuiet ==
    ASSUME NEW p \in Procs, KeystoreInv, SessionsStay(p), ~Begun(p), ~Begun(p)',
           UNCHANGED <<accounts, pointer, raced>>
    PROVE  KeystoreInv'
<1>1. ASSUME NEW q \in Procs
      PROVE  /\ Begun(q)' <=> Begun(q)
             /\ Begun(q) /\ Apart(q) => Apart(q)'
  BY DEF SessionsStay, Begun, Changes, Apart, Consistent, In
<1>2. Consistent => Consistent'
  BY DEF Consistent
<1> QED
  BY <1>1, <1>2 DEF KeystoreInv

\* A step among those of the auth commands, by the only command that changes the
\* keystore: it leaves what it will know.
LEMMA KeystoreAlone ==
    ASSUME NEW p \in Procs, SessionsStay(p),
           ~raced' => Alone(p),
           ~raced' => (Begun(p)' /\ Apart(p)') \/ (~Begun(p)' /\ Consistent')
    PROVE  KeystoreInv'
<1> SUFFICES ASSUME ~raced' PROVE KeystoreInv'
  BY DEF KeystoreInv
<1>1. \A q \in Procs \ {p} : ~Begun(q)'
  BY DEF Alone, SessionsStay, Begun, Changes
<1> QED
  BY <1>1 DEF KeystoreInv

\* What the command knows of the keystore where it stands.
LEMMA KeystoreKnown ==
    ASSUME NEW p \in Procs, KeystoreInv, Meets(p), ~raced', Changes(p)
    PROVE  IF Begun(p) THEN Apart(p) ELSE Consistent
<1>1. ~raced /\ \A q \in Procs \ {p} : ~Begun(q)
  BY DEF Meets, Alone, Begun, Changes
<1> QED
  BY <1>1 DEF KeystoreInv

LEMMA KeystoreStepKeeps ==
    ASSUME NEW p \in Procs, KeystoreTypeOK, SessionFits(session[p]), KeystoreInv, KeystoreStep(p)
    PROVE  KeystoreInv'
<1>1. SessionType /\ SessionsStay(p) /\ NoName \notin accounts
  BY KeystoreStepEffect, NamesAssumption DEF KeystoreTypeOK, SessionType, SessionRecord
<1>2. CASE ReadPointer(p) \/ OpenAccount(p)
  <2>1. UNCHANGED <<accounts, pointer, raced>> /\ session[p].pc \in Resolving
    BY <1>2 DEF ReadPointer, OpenAccount, In, Resolving
  <2>2. session'[p].pc \in {"account", "resolved", "refused"}
    BY <2>1, KeystoreStepEffect
  <2> QED
    BY <1>1, <2>1, <2>2, KeystoreQuiet DEF Begun, Changes, Resolving, AuthPoints
<1> DEFINE Way == \/ Begun(p)' /\ Apart(p)'
                  \/ ~Begun(p)' /\ Consistent'
<1>3. ASSUME Meets(p), Changes(p), ~raced' /\ (IF Begun(p) THEN Apart(p) ELSE Consistent) => Way
      PROVE  KeystoreInv'
  <2> SUFFICES ASSUME ~raced' PROVE KeystoreInv'
    BY DEF KeystoreInv
  <2>1. Way
    BY <1>3, KeystoreKnown
  <2>2. Alone(p)
    BY <1>3 DEF Meets
  <2> QED
    BY <1>1, <2>1, <2>2, KeystoreAlone
<1>settles. ASSUME Settles(p), Way PROVE KeystoreInv'
  BY <1>1, <1>settles, KeystoreAlone DEF Settles
<1>4. ASSUME NEW pc \in {"changed", "refused"}, Stops(p, pc), Consistent' PROVE Way
  BY <1>1, <1>4, StopsEffect DEF SessionPoints, Begun, Changes, AuthPoints
<1>5. ASSUME NEW pc \in AuthPoints, Goes(p, pc)
      PROVE  session'[p].pc = pc /\ session'[p].name = session[p].name
             /\ session'[p].listed = session[p].listed
  BY <1>1, <1>5, GoesEffect DEF SessionPoints
<1>6. CASE MakeDirectory(p)
  <2>1. Meets(p) /\ Changes(p) /\ ~Begun(p) /\ UNCHANGED <<accounts, pointer>> /\ session'[p].pc = "store"
    BY <1>5, <1>6 DEF MakeDirectory, In, Changes, Begun, AuthPoints
  <2>2. Consistent => Way
    BY <2>1 DEF Begun, Changes, AuthPoints, Apart, Consistent, In
  <2> QED
    BY <1>3, <2>1, <2>2
<1>7. CASE StoreAccount(p)
  <2>1. /\ Settles(p) /\ accounts' = accounts \union {session[p].name}
        /\ session'[p].pc = "truncate" /\ session'[p].name = session[p].name
    BY <1>5, <1>7 DEF StoreAccount, AuthPoints
  <2>2. Way
    BY <2>1 DEF Begun, Changes, AuthPoints, Apart, In
  <2> QED
    BY <1>settles, <2>1, <2>2
<1>8. CASE UseAccount(p) \/ FindAccount(p)
  <2>1. CASE session[p].name \notin accounts
    <3>1. Meets(p) /\ Changes(p) /\ ~Begun(p) /\ UNCHANGED <<accounts, pointer>> /\ Stops(p, "refused")
      BY <1>8, <2>1 DEF UseAccount, FindAccount, In, Changes, Begun, AuthPoints
    <3>2. Consistent => Way
      BY <1>4, <3>1 DEF Consistent
    <3> QED
      BY <1>3, <3>1, <3>2
  <2>2. CASE session[p].name \in accounts /\ UseAccount(p)
    <3>1. /\ Settles(p) /\ accounts' = accounts
          /\ session'[p].pc = "truncate" /\ session'[p].name = session[p].name
      BY <1>5, <2>2 DEF UseAccount, AuthPoints
    <3>2. Way
      BY <2>2, <3>1 DEF Begun, Changes, AuthPoints, Apart, In
    <3> QED
      BY <1>settles, <3>1, <3>2
  <2>3. CASE session[p].name \in accounts /\ FindAccount(p)
    <3>1. /\ Meets(p) /\ Changes(p) /\ ~Begun(p) /\ UNCHANGED <<accounts, pointer>>
          /\ session'[p].pc = "delete" /\ session'[p].name = session[p].name
      BY <1>5, <2>3 DEF FindAccount, In, Changes, Begun, AuthPoints
    <3>2. Consistent => Way
      BY <2>3, <3>1 DEF Begun, Changes, AuthPoints, Apart, Consistent, In
    <3> QED
      BY <1>3, <3>1, <3>2
  <2> QED
    BY <1>8, <2>1, <2>2, <2>3
<1>9. CASE DeleteAccount(p)
  <2>1. /\ Meets(p) /\ Changes(p) /\ Begun(p) /\ In(p, "delete") /\ pointer' = pointer
        /\ accounts' = accounts \ {session[p].name}
        /\ \/ session'[p].pc = "repoint" /\ session'[p].name = session[p].name
           \/ session[p].name \notin accounts
    BY <1>5, <1>9 DEF DeleteAccount, In, Changes, Begun, AuthPoints
  <2>2. Apart(p) => Way
    BY <2>1 DEF Begun, Changes, AuthPoints, Apart, Consistent, In
  <2> QED
    BY <1>3, <2>1, <2>2
<1>10. CASE ReadDefault(p)
  <2>1. /\ Meets(p) /\ Changes(p) /\ Begun(p) /\ In(p, "repoint") /\ UNCHANGED <<accounts, pointer>>
        /\ \/ session'[p].pc = "successor"
           \/ pointer # session[p].name /\ Stops(p, "changed")
    BY <1>5, <1>10 DEF ReadDefault, WasDefault, In, Changes, Begun, AuthPoints
  <2>2. Apart(p) => Way
    BY <1>4, <2>1 DEF Begun, Changes, AuthPoints, Apart, Consistent, In
  <2> QED
    BY <1>3, <2>1, <2>2
<1>11. CASE TakeSuccessor(p)
  <2>1. /\ Meets(p) /\ Changes(p) /\ Begun(p) /\ In(p, "successor") /\ UNCHANGED <<accounts, pointer>>
    BY <1>11 DEF TakeSuccessor, In, Changes, Begun, AuthPoints
  <2>2. \/ accounts = {} /\ session'[p].pc = "unpoint"
        \/ session'[p].pc = "truncate" /\ session'[p].name \in accounts
    <3>1. ASSUME NEW next \in accounts, Points(p, next)
          PROVE  session'[p].pc = "truncate" /\ session'[p].name = next
      BY <1>1, <3>1 DEF Points, SessionType, SessionRecord
    <3> QED
      BY <1>5, <1>11, <3>1 DEF TakeSuccessor, AuthPoints
  <2>3. Way
    BY <2>1, <2>2 DEF Begun, Changes, AuthPoints, Apart, Consistent, In
  <2> QED
    BY <1>3, <2>1, <2>3
<1>12. CASE ListAccounts(p)
  <2>1. Changes(p) /\ ~Begun(p) /\ UNCHANGED <<accounts, pointer>>
    BY <1>12 DEF ListAccounts, In, Changes, Begun, AuthPoints
  <2>2. CASE directory
    <3>1. Settles(p) /\ session'[p].pc = "deleteAll" /\ session'[p].listed = accounts
      BY <1>1, <1>12, <2>2 DEF ListAccounts, SessionType, SessionRecord
    <3>2. Way
      BY <2>1, <3>1 DEF Begun, Changes, AuthPoints, Apart, In
    <3> QED
      BY <1>settles, <3>1, <3>2
  <2>3. CASE ~directory
    <3>1. Meets(p) /\ Stops(p, "changed")
      BY <1>12, <2>3 DEF ListAccounts
    <3>2. Consistent => Way
      BY <1>4, <2>1, <3>1 DEF Consistent
    <3> QED
      BY <1>3, <2>1, <3>1, <3>2
  <2> QED
    BY <2>2, <2>3
<1>13. CASE DeleteListed(p)
  <2>1. Meets(p) /\ Changes(p) /\ Begun(p) /\ In(p, "deleteAll") /\ pointer' = pointer
    BY <1>13 DEF DeleteListed, In, Changes, Begun, AuthPoints
  <2>2. Apart(p) => accounts = session[p].listed
    BY <2>1 DEF Apart
  <2>3. CASE session[p].listed = {} /\ Goes(p, "unpoint") /\ accounts' = accounts
    <3>1. session'[p].pc = "unpoint"
      BY <1>5, <2>3 DEF AuthPoints
    <3>2. Apart(p) => Way
      BY <2>1, <2>2, <2>3, <3>1 DEF Begun, Changes, AuthPoints, Apart, In
    <3> QED
      BY <1>3, <2>1, <3>2
  <2>4. ASSUME NEW name \in session[p].listed, accounts' = accounts \ {name},
               \/ session' = [session EXCEPT ![p].listed = @ \ {name}]
               \/ name \notin accounts
        PROVE  KeystoreInv'
    <3>1. session' = [session EXCEPT ![p].listed = @ \ {name}]
             => session'[p].pc = "deleteAll" /\ session'[p].listed = session[p].listed \ {name}
      BY <1>1, <2>1 DEF SessionType, SessionRecord, In
    <3>2. Apart(p) => Way
      BY <2>1, <2>2, <2>4, <3>1 DEF Begun, Changes, AuthPoints, Apart, In
    <3> QED
      BY <1>3, <2>1, <3>2
  <2> QED
    BY <1>13, <2>3, <2>4 DEF DeleteListed
<1>14. CASE Unpoint(p)
  <2>1. /\ Meets(p) /\ Changes(p) /\ Begun(p) /\ In(p, "unpoint") /\ pointer' = NoName
        /\ accounts' = accounts /\ Stops(p, "changed")
    BY <1>14 DEF Unpoint, In, Changes, Begun, AuthPoints
  <2>2. Apart(p) => Way
    BY <1>4, <2>1 DEF Apart, Consistent, In
  <2> QED
    BY <1>3, <2>1, <2>2
<1>15. CASE TruncatePointer(p)
  <2>1. /\ Meets(p) /\ Changes(p) /\ Begun(p) /\ In(p, "truncate") /\ accounts' = accounts
        /\ session'[p].pc = "fill" /\ session'[p].name = session[p].name
    BY <1>5, <1>15 DEF TruncatePointer, In, Changes, Begun, AuthPoints
  <2>2. Apart(p) => Way
    BY <2>1 DEF Begun, Changes, AuthPoints, Apart, In
  <2> QED
    BY <1>3, <2>1, <2>2
<1>16. CASE FillPointer(p)
  <2>1. /\ Meets(p) /\ Changes(p) /\ Begun(p) /\ In(p, "fill") /\ accounts' = accounts
        /\ pointer' = session[p].name /\ Stops(p, "changed")
    BY <1>16 DEF FillPointer, In, Changes, Begun, AuthPoints
  <2>2. Apart(p) => Way
    BY <1>4, <2>1 DEF Apart, Consistent, In
  <2> QED
    BY <1>3, <2>1, <2>2
<1> QED
  BY <1>2, <1>6, <1>7, <1>8, <1>9, <1>10, <1>11, <1>12, <1>13, <1>14, <1>15, <1>16 DEF KeystoreStep

\* A call that fails unnoticed.
LEMMA KeystoreFailsKeeps ==
    ASSUME NEW p \in Procs, KeystoreTypeOK, SessionFits(session[p]), KeystoreInv, KeystoreFails(p)
    PROVE  KeystoreInv'
<1>1. CASE PointerUnread(p)
  <2>1. UNCHANGED <<accounts, pointer, raced>> /\ session[p].pc \in Resolving
    BY <1>1 DEF PointerUnread, In, Resolving
  <2>2. session'[p].pc \in {"account", "resolved", "refused"} /\ SessionsStay(p)
    BY <2>1, KeystoreStepEffect
  <2> QED
    BY <2>1, <2>2, KeystoreQuiet DEF Begun, Changes, Resolving, AuthPoints
<1>2. CASE ~PointerUnread(p)
  <2>1. raced'
    BY <1>2 DEF KeystoreFails, AccountOverlooked, DefaultUnread, AccountsUnlisted, PointerStays
  <2> QED
    BY <2>1 DEF KeystoreInv
<1> QED
  BY <1>1, <1>2

LEMMA KeystoreKept ==
    ASSUME Ordered, PoolInv, KeystoreInv, [Next]_vars
    PROVE  KeystoreInv'
<1>1. CASE UNCHANGED keystoreVars
  BY <1>1 DEF keystoreVars, KeystoreInv, Consistent, Begun, Changes, Apart, In
<1>2. ASSUME NEW p \in Procs, Start(p) \/ Turns(p) \/ SessionEnds(p) \/ Crash(p)
      PROVE  KeystoreInv'
  <2>1. TypeOK /\ ProcType /\ KeystoreTypeOK /\ Fits(p) /\ SessionFits(session[p])
    BY TypeParts DEF Ordered, Fits
  <2>2. CASE Start(p)
    <3>1. ~Begun(p) /\ UNCHANGED <<accounts, pointer, raced>>
      BY <2>1, <2>2 DEF Start, Fits, SessionOf, Begun, Changes, InKeystore
    <3> QED
      BY <2>1, <2>2, <3>1, StartEffect, KeystoreQuiet
  <2>3. CASE Turns(p)
    BY <2>1, <2>3, KeystoreStepKeeps, KeystoreFailsKeeps DEF Turns, KeystoreMoves, KeystoreSlips
  <2>4. CASE SessionEnds(p)
    BY <1>1, <2>4 DEF SessionEnds
  <2>5. CASE Crash(p)
    <3>1. SessionsStay(p) /\ ~Begun(p)'
      BY <2>1, <2>5, CrashKeeps
    <3>2. CASE ~InKeystore(p)
      BY <1>1, <2>5, <3>2 DEF Crash
    <3>3. CASE InKeystore(p)
      <4>1. raced' = (raced \/ Changes(p)) /\ UNCHANGED <<accounts, pointer>>
        BY <2>5, <3>3 DEF Crash, Interrupted
      <4>2. CASE Changes(p)
        BY <4>1, <4>2 DEF KeystoreInv
      <4>3. CASE ~Changes(p)
        BY <2>1, <3>1, <4>1, <4>3, KeystoreQuiet DEF Begun, KeystoreTypeOK
      <4> QED
        BY <4>2, <4>3
    <3> QED
      BY <3>2, <3>3
  <2> QED
    BY <1>2, <2>2, <2>3, <2>4, <2>5
<1>3. CASE Expires
  BY <1>1, <1>3 DEF Expires, submitFrame
<1>4. ASSUME NEW p \in Procs, Ready(p), Doing(p) PROVE KeystoreInv'
  BY <1>1, <1>4, DoingFrame
<1>5. ASSUME NEW a \in Signers, Execute(a) PROVE KeystoreInv'
  BY <1>1, <1>5, ExecuteFrame
<1> QED
  BY <1>1, <1>2, <1>3, <1>4, <1>5, NextCases DEF vars

(***************************************************************************)
(* Without misfortune terminals fail each other only by taking a nonce.    *)
(***************************************************************************)

\* An account that is mapped, or about to be, stays so.
LEMMA TakenStays ==
    ASSUME Ordered, PoolInv, [Next]_vars, faults' = faults, NEW a, MapTaken(a)
    PROVE  MapTaken(a)'
<1>1. pool \in [Signers -> Calls \union {NoCall}] /\ faults \in Nat
  BY TypeParts, BoundsAssumption DEF Ordered, RestType
<1>2. CASE UNCHANGED <<mapped, pool>>
  BY <1>2 DEF MapTaken
<1>3. ASSUME NEW p \in Procs, Ready(p), Doing(p) PROVE MapTaken(a)'
  <2>1. mapped' = mapped
    BY <1>3, DoingFrame
  <2>2. CASE Submit(p)
    <3>1. pool' = pool \/ (/\ pool[Account(p)] = NoCall
                           /\ \A b \in Signers \ {Account(p)} : pool'[b] = pool[b])
      BY <1>1, <2>2 DEF Submit
    <3> QED
      BY <2>1, <3>1 DEF MapTaken, NoCall
  <2>3. ~Lose(p)
    BY <1>1 DEF Lose, Misfortune
  <2> QED
    BY <1>2, <1>3, <2>1, <2>2, <2>3, DoingPool
<1>4. ASSUME NEW p \in Procs, Start(p) \/ Turns(p) \/ SessionEnds(p) \/ Crash(p)
      PROVE  MapTaken(a)'
  BY <1>2, <1>4 DEF Start, Turns, KeystoreMoves, KeystoreSlips, SessionEnds, Crash, chainVars, nonceVars
<1>5. ASSUME NEW b \in Signers, Execute(b) PROVE MapTaken(a)'
  <2>1. b \in mapped' /\ mapped \subseteq mapped' /\ pool' = [pool EXCEPT ![b] = NoCall]
    BY <1>5, ExecuteFrame DEF Execute
  <2> QED
    BY <1>1, <2>1 DEF MapTaken
<1>6. CASE Expires
  BY <1>2, <1>6 DEF Expires, submitFrame, nonceVars
<1> QED
  BY <1>2, <1>3, <1>4, <1>5, <1>6, NextCases DEF vars, chainVars, nonceVars

LEMMA OthersRaced ==
    ASSUME NEW p \in Procs, \A q \in Procs : Raced(q), Raced(p)',
           OthersStay(p), SessionsStay(p), spent' \subseteq spent, userStore \subseteq userStore',
           \A a : MapTaken(a) => MapTaken(a)'
    PROVE  \A q \in Procs : Raced(q)'
<1> SUFFICES ASSUME NEW q \in Procs, q # p PROVE Raced(q)'
  OBVIOUS
<1>1. proc'[q] = proc[q] /\ session'[q] = session[q] /\ Account(q)' = Account(q)
  BY DEF OthersStay, SessionsStay, Account
<1>2. MapTaken(Account(q)) => MapTaken(Account(q))'
  BY <1>1 DEF MapTaken, Account
<1> QED
  BY <1>1, <1>2 DEF Raced, At, Asks, Signed

\* A command that goes on, or ends well, is in no race.
LEMMA RacedOn ==
    ASSUME NEW p \in Procs, ProcType, Raced(p), ~Free(p), Fits(p), p \notin spent',
           session' = session, \A a : MapTaken(a) => MapTaken(a)',
           \/ \E pc \in ControlPoints \ {"mapConfirm"} : GoTo(p, pc)
           \/ \E outcome \in {"ok", "notApplied"} : End(p, outcome)
           \/ End(p, "failed") /\ (Asks(p, {"claim"}) => Account(p) \in userStore')
           \/ \E entry \in {"made", "noStore"} : AfterCache(p, entry)
    PROVE  Raced(p)'
<1>1. /\ proc[p].outcome = "none" /\ {"ok", "notApplied", "failed"} \subseteq Outcomes
      /\ {"made", "noStore"} \subseteq EntryOutcomes
  BY DEF Fits, PointFits, Free, At, Outcomes, EntryOutcomes
<1>2. Account(p)' = Account(p) /\ (Signed(p)' <=> Signed(p))
  BY DEF Account, Signed
<1>3. MapTaken(Account(p)) => MapTaken(Account(p))'
  BY <1>2 DEF MapTaken, Account
<1>4. CASE \E pc \in ControlPoints \ {"mapConfirm"} : GoTo(p, pc)
  BY <1>1, <1>2, <1>3, <1>4, GoToEffect DEF Raced, At, Asks
<1>5. CASE \E outcome \in {"ok", "notApplied"} : End(p, outcome)
  BY <1>1, <1>2, <1>3, <1>5, EndEffect DEF Raced, At, Asks
<1>6. CASE End(p, "failed") /\ (Asks(p, {"claim"}) => Account(p) \in userStore')
  BY <1>1, <1>2, <1>3, <1>6, EndEffect DEF Raced, At, Asks
<1>7. CASE \E entry \in {"made", "noStore"} : AfterCache(p, entry)
  BY <1>1, <1>2, <1>3, <1>7, AfterCacheEffect DEF Raced, At, Asks
<1> QED
  BY <1>4, <1>5, <1>6, <1>7

\* One that loses its nonce is outrun, or looks the mapping up again.
LEMMA RacedOut ==
    ASSUME NEW p \in Procs, ProcType, Raced(p), Fits(p), proc[p].pc \in Contract, Signed(p),
           p \notin spent', session' = session, MapTaken(Account(p)),
           \A a : MapTaken(a) => MapTaken(a)',
           (ContractFails(p) /\ Blame(p) = "outrun") \/ GoTo(p, "mapConfirm")
    PROVE  Raced(p)'
<1>1. /\ proc[p].outcome = "none" /\ "outrun" \in Outcomes /\ "outrun" \in EntryOutcomes
      /\ "mapConfirm" \in ControlPoints
  BY DEF Fits, PointFits, Contract, Calling, At, Outcomes, EntryOutcomes, ControlPoints
<1>2. Account(p)' = Account(p) /\ Signed(p)'
  BY DEF Account, Signed
<1>3. MapTaken(Account(p))'
  BY <1>2 DEF MapTaken, Account
<1>4. CASE GoTo(p, "mapConfirm")
  BY <1>1, <1>2, <1>3, <1>4, GoToEffect DEF Raced, At, Asks
<1>5. CASE End(p, "outrun")
  BY <1>1, <1>2, <1>3, <1>5, EndEffect DEF Raced, At, Asks
<1>6. CASE AfterCache(p, "outrun") /\ ~Asks(p, {"claim"})
  BY <1>1, <1>2, <1>3, <1>6, AfterCacheEffect DEF Raced, At, Asks
<1> QED
  BY <1>4, <1>5, <1>6 DEF ContractFails

LEMMA DoingRaced ==
    ASSUME NEW p \in Procs, Ordered, PoolInv, Ready(p), Raced(p), faults = 0, faults' = 0, Doing(p),
           \A a : MapTaken(a) => MapTaken(a)'
    PROVE  Raced(p)' /\ spent' \subseteq spent
<1>1. ~Misfortune /\ TypeOK /\ ProcType /\ Fits(p)
  BY TypeParts DEF Misfortune, Ordered
<1>2. session' = session /\ userStore' = userStore
  BY DoingFrame
<1>3. p \notin spent' /\ spent' \subseteq spent
  <2>1. CASE Submit(p)
    BY <2>1 DEF Submit
  <2>2. CASE Lose(p)
    BY <1>1, <2>2 DEF Lose
  <2>3. CASE ~Submit(p) /\ ~Lose(p)
    BY <2>3, DoingPool DEF PoolInv
  <2> QED
    BY <2>1, <2>2, <2>3
<1> SUFFICES Raced(p)'
  BY <1>3
<1> DEFINE Outcome == \/ \E pc \in ControlPoints \ {"mapConfirm"} : GoTo(p, pc)
                      \/ \E outcome \in {"ok", "notApplied"} : End(p, outcome)
                      \/ End(p, "failed") /\ (Asks(p, {"claim"}) => Account(p) \in userStore')
                      \/ \E entry \in {"made", "noStore"} : AfterCache(p, entry)
<1>4. ~Free(p) /\ Outcome => Raced(p)'
  BY <1>1, <1>2, <1>3, RacedOn
<1>5. {"submit", "verify", "store", "find", "map", "mapNonce", "mapSend", "mapWatch", "write", "nonce",
       "send", "watch", "read", "open", "fill"} \subseteq ControlPoints \ {"mapConfirm"}
  BY DEF ControlPoints
<1> HIDE DEF Outcome
<1>6. /\ \A pc \in ControlPoints \ {"mapConfirm"} : GoTo(p, pc) => Outcome
      /\ End(p, "ok") \/ End(p, "notApplied") => Outcome
      /\ End(p, "failed") /\ (Asks(p, {"claim"}) => Account(p) \in userStore) => Outcome
      /\ AfterCache(p, "made") \/ AfterCache(p, "noStore") => Outcome
  BY <1>2 DEF Outcome
<1>7. CASE CheckForUpload(p) \/ CheckForAuthorize(p) \/ CheckForRefresh(p)
  <2>1. ~Free(p) /\ ~Asks(p, {"claim"})
    BY <1>7 DEF CheckForUpload, CheckForAuthorize, CheckForRefresh, At, Free, Asks
  <2>2. Outcome
    BY <1>5, <1>6, <1>7, <2>1 DEF CheckForUpload, CheckForAuthorize, CheckForRefresh
  <2> QED
    BY <1>4, <2>1, <2>2
<1>8. CASE Authorize(p) \/ Refresh(p) \/ SubmitRejected(p) \/ VerifyAuthorization(p)
  <2>1. ~Free(p)
    BY <1>8 DEF Authorize, Refresh, SubmitRejected, VerifyAuthorization, At, Free
  <2>2. Outcome
    BY <1>1, <1>5, <1>6, <1>8 DEF Authorize, Refresh, SubmitRejected, VerifyAuthorization
  <2> QED
    BY <1>4, <2>1, <2>2
<1>9. CASE Upload(p)
  <2>1. ~Free(p) /\ ~Asks(p, {"claim"})
    BY <1>1, <1>9 DEF Upload, At, Free, Fits, PointFits, Asks
  <2>2. Outcome
    BY <1>1, <1>5, <1>6, <1>9, <2>1 DEF Upload, UploadFails
  <2> QED
    BY <1>4, <2>1, <2>2
<1>10. CASE RequireStore(p) \/ LookForStore(p) \/ LookUpMapping(p) \/ DryRun(p) \/ TakeNonce(p)
  <2>1. ~Free(p)
    BY <1>10 DEF RequireStore, LookForStore, LookUpMapping, DryRun, TakeNonce, At, Free
  <2>2. Outcome
    BY <1>1, <1>5, <1>6, <1>10
       DEF RequireStore, LookForStore, LookUpMapping, DryRun, TakeNonce, Mapped
  <2> QED
    BY <1>4, <2>1, <2>2
<1>11. CASE ConfirmMapping(p)
  <2>1. ~Free(p) /\ proc[p].pc \in Contract /\ Signed(p) /\ MapTaken(Account(p))
    BY <1>1, <1>11 DEF ConfirmMapping, At, Free, Contract, Fits, SignedFits, Raced
  <2>2. CASE IsMapped(p)
    <3>1. Outcome
      BY <1>1, <1>5, <1>6, <1>11, <2>2 DEF ConfirmMapping, Confirm, Mapped
    <3> QED
      BY <1>4, <2>1, <3>1
  <2>3. CASE ~IsMapped(p)
    <3>1. ContractFails(p) /\ Blame(p) = "outrun"
      BY <1>1, <1>11, <2>1, <2>3 DEF ConfirmMapping, Confirm, MapTaken, IsMapped, Blame, NoCall
    <3> QED
      BY <1>1, <1>2, <1>3, <2>1, <3>1, RacedOut
  <2> QED
    BY <2>2, <2>3
<1>12. CASE Submit(p)
  <2>1. /\ ~Free(p) /\ proc[p].pc \in Contract /\ Signed(p) /\ Account(p) \in Signers
        /\ ~At(p, "mapSend") => Account(p) \in mapped
    BY <1>1, <1>12, SignedNow
       DEF Submit, Sending, At, Free, Contract, Calling, Fits, MappedFits
  <2>2. CASE GoTo(p, IF At(p, "mapSend") THEN "mapWatch" ELSE "watch")
    <3>1. Outcome
      BY <1>5, <1>6, <2>2
    <3> QED
      BY <1>4, <2>1, <3>1
  <2>3. CASE (p \in spent \/ pool[Account(p)] # NoCall) /\ Rejected(p)
    <3>1. Blame(p) = "outrun"
      BY <2>3 DEF Blame
    <3>2. MapTaken(Account(p))
      <4>1. CASE p \in spent
        BY <4>1 DEF Raced
      <4>2. CASE pool[Account(p)] # NoCall
        <5>1. pool[Account(p)] \in Calls
          BY <1>1, <2>1, <4>2 DEF TypeOK
        <5>2. pool[Account(p)].name \in {"map_account", "claimUserStore", "setValue"}
          BY <5>1 DEF Calls
        <5> QED
          BY <2>1, <5>2 DEF PoolInv, MapTaken
      <4> QED
        BY <2>3, <4>1, <4>2
    <3>3. ContractFails(p) \/ GoTo(p, "mapConfirm")
      BY <2>3 DEF Rejected
    <3> QED
      BY <1>1, <1>2, <1>3, <2>1, <3>1, <3>2, <3>3, RacedOut
  <2> QED
    BY <1>1, <1>12, <2>2, <2>3 DEF Submit
<1>13. CASE Lose(p)
  BY <1>1, <1>13 DEF Lose
<1>14. CASE ReadHistory(p)
  <2>1. ~Free(p) /\ proc[p].outcome = "none"
    BY <1>1, <1>14 DEF ReadHistory, At, Free, Fits, PointFits
  <2>2. CASE End(p, "ok")
    BY <1>4, <1>6, <2>1, <2>2
  <2>3. ASSUME NEW entries, proc' = [proc EXCEPT ![p].seen = entries, ![p].pc = "open"]
        PROVE  Raced(p)'
    <3>1. /\ proc'[p].pc = "open" /\ proc'[p].req = proc[p].req /\ proc'[p].outcome = proc[p].outcome
          /\ proc'[p].entry = proc[p].entry
      BY <1>1, <2>3 DEF ProcType, ProcRecord
    <3>2. Account(p)' = Account(p) /\ (Signed(p)' <=> Signed(p))
      BY <1>2 DEF Account, Signed
    <3>3. MapTaken(Account(p)) => MapTaken(Account(p))'
      BY <3>2 DEF MapTaken, Account
    <3> QED
      BY <1>2, <1>3, <2>1, <3>1, <3>2, <3>3 DEF Raced, At, Asks
  <2> QED
    BY <1>14, <2>2, <2>3 DEF ReadHistory, Reads
<1>15. CASE OpenHistory(p) \/ FillHistory(p) \/ HistoryDenied(p)
  <2>1. ~Free(p)
    BY <1>15 DEF OpenHistory, FillHistory, HistoryDenied, At, Free
  <2>2. Outcome
    BY <1>1, <1>5, <1>6, <1>15 DEF OpenHistory, FillHistory, HistoryDenied
  <2> QED
    BY <1>4, <2>1, <2>2
<1> QED
  BY <1>3, <1>7, <1>8, <1>9, <1>10, <1>11, <1>12, <1>13, <1>14, <1>15 DEF Doing, Work

LEMMA ExecuteRaced ==
    ASSUME NEW a \in Signers, Ordered, PoolInv, Execute(a), \A q \in Procs : Raced(q),
           \A b : MapTaken(b) => MapTaken(b)', NEW q \in Procs
    PROVE  Raced(q)'
<1>1. /\ session' = session /\ userStore \subseteq userStore' /\ a \in mapped'
      /\ spent' = spent \union {r \in Procs : Sending(r) /\ Account(r) = a}
  BY ExecuteFrame DEF Execute
<1>2. Account(q)' = Account(q) /\ (Signed(q)' <=> Signed(q))
  BY <1>1 DEF Account, Signed
<1>3. MapTaken(Account(q)) => MapTaken(Account(q))'
  BY <1>2 DEF MapTaken, Account
<1>4. q \in spent' => MapTaken(Account(q))'
  <2>1. Account(q) = a => MapTaken(Account(q))'
    BY <1>1, <1>2 DEF MapTaken
  <2> QED
    BY <1>1, <1>3, <2>1 DEF Raced
<1>5. CASE proc'[q] = proc[q]
  BY <1>1, <1>2, <1>3, <1>4, <1>5 DEF Raced, At, Asks
<1>6. CASE Answered(q, a)
  <2>1. /\ proc'[q].pc # "mapConfirm" /\ proc'[q].req = proc[q].req
        /\ proc'[q].entry \in {"made", proc[q].entry}
        /\ proc'[q].outcome \in {"ok", "failed", proc[q].outcome}
        /\ proc'[q].outcome = "failed" => proc[q].outcome = "failed" \/ a \in userStore
    BY <1>6, AnsweredKeeps
  <2>2. Account(q) = a
    BY <1>6 DEF Answered
  <2> QED
    BY <1>1, <1>2, <1>3, <1>4, <2>1, <2>2 DEF Raced, At, Asks
<1>7. CASE proc' # proc
  <2>1. PICK p \in Procs : Answered(p, a)
    BY <1>7, ExecuteFrame
  <2>2. OthersStay(p)
    BY <2>1, AnsweredKeeps DEF Kept
  <2> QED
    BY <1>5, <1>6, <2>1, <2>2 DEF OthersStay
<1> QED
  BY <1>5, <1>7

LEMMA RaceKept ==
    ASSUME Ordered, PoolInv, RaceInv, [Next]_vars
    PROVE  RaceInv'
<1>1. faults \in Nat
  BY TypeParts, BoundsAssumption DEF Ordered, RestType
<1>2. CASE faults' = faults + 1
  BY <1>1, <1>2 DEF RaceInv
<1> SUFFICES ASSUME faults' = 0 PROVE \A q \in Procs : Raced(q)'
  BY DEF RaceInv
<1>3. CASE faults' = faults
  <2>1. faults = 0 /\ \A q \in Procs : Raced(q)
    BY <1>3 DEF RaceInv
  <2>2. \A a : MapTaken(a) => MapTaken(a)'
    BY <1>3, TakenStays
  <2>3. ASSUME NEW p \in Procs, Ready(p), Doing(p) PROVE \A q \in Procs : Raced(q)'
    <3>1. TypeOK /\ ProcType /\ Fits(p) /\ history \subseteq Cids \union {Torn}
      BY TypeParts DEF Ordered, TypeOK
    <3>2. Kept(p) /\ SessionsStay(p) /\ userStore \subseteq userStore'
      BY <2>3, <3>1, DoingKeeps, DoingFrame DEF SessionsStay
    <3>3. Raced(p)' /\ spent' \subseteq spent
      BY <2>1, <2>2, <2>3, DoingRaced
    <3> QED
      BY <2>1, <2>2, <3>2, <3>3, OthersRaced DEF Kept
  <2>4. ASSUME NEW p \in Procs, Start(p) \/ Turns(p) \/ SessionEnds(p) \/ Crash(p)
        PROVE  \A q \in Procs : Raced(q)'
    <3>1. TypeOK /\ ProcType /\ KeystoreTypeOK /\ Fits(p) /\ SessionFits(session[p]) /\ Raced(p)
      BY <2>1, TypeParts DEF Ordered, Fits
    <3>2. spent' \subseteq spent /\ userStore \subseteq userStore'
      BY <2>4 DEF Start, Turns, KeystoreMoves, KeystoreSlips, SessionEnds, Crash, chainVars, nonceVars
    <3>3. CASE Start(p)
      <4>1. p \notin spent'
        BY <3>2, <3>3 DEF Start, Free, PoolInv, Sending
      <4>2. Raced(p)'
        BY <3>1, <3>3, <4>1, StartEffect DEF Raced, At, Asks
      <4> QED
        BY <2>1, <2>2, <3>1, <3>2, <3>3, <4>2, StartEffect, OthersRaced DEF Kept
    <3>4. CASE Turns(p)
      <4>1. proc' = proc /\ OthersStay(p)
        BY <3>4 DEF Turns, KeystoreMoves, KeystoreSlips, OthersStay
      <4>2. SessionsStay(p) /\ InKeystore(p)
        BY <3>1, <3>4, KeystoreStepEffect DEF Turns, KeystoreMoves, KeystoreSlips
      <4>3. ~Free(p) /\ ~Signed(p)
        BY <3>1, <4>2 DEF Fits, SessionOf, Signed, InKeystore, Resolving, AuthPoints
      <4>4. ~At(p, "mapConfirm") /\ p \notin spent' /\ proc[p].outcome = "none" /\ proc[p].entry # "outrun"
        BY <3>1, <3>2, <4>3
           DEF Fits, SignedFits, PointFits, Contract, Calling, Free, At, PoolInv, Sending, Raced
      <4>5. Raced(p)'
        BY <3>1, <4>1, <4>4 DEF Raced, At
      <4> QED
        BY <2>1, <2>2, <3>2, <4>1, <4>2, <4>5, OthersRaced
    <3>5. CASE SessionEnds(p)
      <4>1. SessionsStay(p) /\ session' = session
        BY <3>5 DEF SessionEnds, keystoreVars, SessionsStay
      <4>2. OthersStay(p) /\ proc'[p].pc = "ended" /\ proc'[p].entry = proc[p].entry
        BY <3>1, <3>5, EndEffect DEF SessionEnds, Outcomes
      <4>3. proc'[p].outcome \in {"ok", "failed"} /\ Account(p)' = NoName
        BY <3>1, <3>5, <4>1, EndEffect DEF SessionEnds, Outcomes, SessionFits, Account
      <4>4. p \notin spent' /\ proc[p].entry # "outrun"
        BY <3>1, <3>2, <3>5
           DEF SessionEnds, Fits, SignedFits, Signed, Contract, Calling, At, PoolInv, Sending, Raced
      <4>5. Raced(p)'
        BY <3>1, <4>2, <4>3, <4>4 DEF Raced, At
      <4> QED
        BY <2>1, <2>2, <3>2, <4>1, <4>2, <4>5, OthersRaced
    <3>6. CASE Crash(p)
      BY <1>1, <1>3, <3>6 DEF Crash, Misfortune
    <3> QED
      BY <2>4, <3>3, <3>4, <3>5, <3>6
  <2>5. ASSUME NEW a \in Signers, Execute(a) PROVE \A q \in Procs : Raced(q)'
    BY <2>1, <2>2, <2>5, ExecuteRaced
  <2>6. CASE Expires
    BY <1>1, <1>3, <2>6 DEF Expires, Misfortune
  <2>7. CASE UNCHANGED vars
    <3>1. UNCHANGED <<proc, session, mapped, pool, spent, userStore>>
      BY <2>7 DEF vars, chainVars, nonceVars, keystoreVars
    <3> QED
      BY <2>1, <3>1 DEF Raced, MapTaken, At, Asks, Account, Signed
  <2> QED
    BY <2>3, <2>4, <2>5, <2>6, <2>7, NextCases
<1>4. faults' \in {faults, faults + 1}
  <2>1. \A p \in Procs : Doing(p) => faults' \in {faults, faults + 1}
    BY DoingFrame
  <2>2. \A p \in Procs : Start(p) \/ Turns(p) \/ SessionEnds(p) \/ Crash(p) => faults' \in {faults, faults + 1}
    BY DEF Start, Turns, KeystoreMoves, KeystoreSlips, SessionEnds, Crash, Misfortune
  <2>3. (\E a \in Signers : Execute(a)) \/ Expires \/ UNCHANGED vars => faults' \in {faults, faults + 1}
    BY DEF Execute, Expires, Misfortune, Fortune, vars
  <2> QED
    BY <2>1, <2>2, <2>3, NextCases
<1> QED
  BY <1>1, <1>3, <1>4

(***************************************************************************)
(* The theorems.                                                           *)
(***************************************************************************)
LEMMA InitIInv ==
    ASSUME Init
    PROVE  IInv
<1>1. Ordered
  BY InitOrdered
<1>2. proc = [p \in Procs |-> Idle] /\ session = [p \in Procs |-> NoSession]
  BY DEF Init, KeystoreInit
<1>3. PoolInv
  BY <1>2 DEF Init, PoolInv, NoCall, Idle, Watching, At
<1>4. Listed
  BY <1>2 DEF Init, Listed, Idle
<1>5. HistoryInv
  BY <1>2 DEF Init, HistoryInv, Idle, Changing
<1>6. KeystoreInv
  <2>1. \A p \in Procs : ~Begun(p)
    BY <1>2 DEF NoSession, Begun, Changes, AuthPoints
  <2>2. Consistent
    BY DEF Init, KeystoreInit, Consistent
  <2> QED
    BY <2>1, <2>2 DEF KeystoreInv
<1>7. RaceInv
  <2>1. spent = {}
    BY DEF Init
  <2> QED
    BY <1>2, <2>1 DEF RaceInv, Raced, Idle, At
<1> QED
  BY <1>1, <1>3, <1>4, <1>5, <1>6, <1>7 DEF IInv, Ordered

LEMMA NextIInv ==
    ASSUME IInv, [Next]_vars
    PROVE  IInv'
BY NextOrdered, PoolKept, ListedKept, HistoryKept, KeystoreKept, RaceKept DEF IInv, Ordered

\* The inductive invariant: a terminal is only where its command gets to, signs with one
\* account from its first transaction on, and changes the files on what it has read; one
\* transaction of an account waits at a time.
THEOREM Invariance == Spec => []IInv
<1>1. Init => IInv
  BY InitIInv
<1>2. IInv /\ [Next]_vars => IInv'
  BY NextIInv
<1> QED
  BY <1>1, <1>2, PTL DEF Spec

\* Every variable ranges over the values the code's variable can hold, however many
\* terminals run whatever commands.
THEOREM TypeCorrect == Spec => []TypeOK
<1>1. IInv => TypeOK
  BY DEF IInv
<1> QED
  BY <1>1, Invariance, PTL

\* The history and the User Stores list only what was stored, a User Store only what its
\* own account stored, and an upload that reports success was made: cmdUpload writes the
\* entries after the upload returned, with the context it began with.
THEOREM ListedStored == Spec => []ListedWereStored
<1>1. IInv => ListedWereStored
  BY DEF IInv, Listed, Fits, UploadFits, UploadMade, ListedWereStored
<1> QED
  BY <1>1, Invariance, PTL

\* Neither the history nor the keystore loses anything without a cause.  The history lists
\* what was added and not removed, but for the entries another command changed between a
\* command's read and its write, and for all of them after a failing or half-way read, a
\* failing write, or a death in one.  A keystore with accounts has one of them as its
\* default, unless two commands changed it at once, one died, or a call failed unnoticed,
\* and none has had it to itself since.
THEOREM FilesComplete == Spec => []LossesHaveCauses
<1>1. IInv => LossesHaveCauses
  BY DEF IInv, HistoryInv, KeystoreInv, Begun, Consistent, LossesHaveCauses, DefaultIsKept
<1> QED
  BY <1>1, Invariance, PTL

\* Without misfortune terminals fail each other's entries and claims only by taking a nonce:
\* a mapping that another terminal makes first is looked up again, or the call that lost
\* its nonce to it finds the account mapped when it is repeated.
THEOREM OutrunOnly == Spec => []FailuresAreOutrun
<1>1. IInv => FailuresAreOutrun
  BY DEF IInv, RaceInv, Raced, MapTaken, FailuresAreOutrun
<1> QED
  BY <1>1, Invariance, PTL
===============================================================================
