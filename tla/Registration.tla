---------------------------- MODULE Registration ----------------------------
(***************************************************************************)
(* register domain, register retry and register clear (packages/cli/src/   *)
(* cli/commands/register.ts) for one name of one account, possibly from    *)
(* several terminals at once that share the record directory               *)
(* (commands/registrationManifest.ts).                                     *)
(*                                                                         *)
(* A registration commits to a hash of a fresh secret, saves the secret,   *)
(* waits for the commitment to age, prices the name, reveals, checks the   *)
(* owner and, if asked to, transfers the name.  A record on disk lets a    *)
(* later command, or a retry inside the same command, go on from there.    *)
(***************************************************************************)
EXTENDS DotnsContracts

CONSTANTS
    Procs,          \* terminals
    Intents,        \* what a user may ask for: [owner, dest, governance]
    MaxRetries,     \* --retry
    MaxClaims,      \* maxAttempts of ensureLabelStoreReady
    BufferPercent,  \* PAYMENT_BUFFER_PERCENT
    MaxCommands,    \* bound: commands started
    Troubles,       \* the kinds of misfortune a run considers
    MaxFaults       \* bound: misfortunes

ASSUME IntentsAssumption ==
    /\ Intents \subseteq [owner : Owners, dest : Owners \union {Nobody}, governance : BOOLEAN]
    /\ \A i \in Intents : i.owner # Rival /\ i.dest # Rival
    /\ \A i \in Intents : i.dest # Nobody \/ i.governance => i.owner = Me
ASSUME CountsAssumption ==
    /\ MaxRetries \in Nat /\ MaxClaims \in Nat \ {0} /\ BufferPercent \in Nat
    /\ MaxCommands \in Nat /\ MaxFaults \in Nat
ASSUME SecretsAssumption == Secrets = 1..(MaxCommands * (MaxRetries + 1))
ASSUME TroublesAssumption ==
    Troubles \subseteq {"read", "timeout", "drop", "lag", "expiry", "rival", "price", "disk", "crash"}

VARIABLES
    record,         \* the saved commitment of the name, or NoJob
    proc,           \* [Procs -> what the terminal is doing]
    drawn,          \* secrets drawn so far
    commands, faults

vars == <<accountVars, contractVars, record, proc, drawn, commands, faults>>

(***************************************************************************)
(* A job is what a reveal needs: the preimage, how to reveal, and where the*)
(* name goes afterwards.  A CommitmentRecord is a job.                     *)
(***************************************************************************)
Jobs  == [secret : Secrets, owner : Owners, dest : Owners \union {Nobody}, governance : BOOLEAN]
NoJob == [secret |-> 0, owner |-> Nobody, dest |-> Nobody, governance |-> FALSE]
HashOf(job) == [secret |-> job.secret, owner |-> job.owner]

NoCall   == [kind |-> "none"]
NoIntent == [owner |-> Me, dest |-> Nobody, governance |-> FALSE]

ControlPoints ==
    { "check",    \* fresh attempt: is the name free?
      "dryrun",   \* a contract call: estimateGasForCall
      "sign",     \* its nonce is fetched
      "send",     \* it is signed and submitted
      "watch",    \* until it is finalized
      "save",     \* persistCommitment: the file is opened, which empties it
      "fill",     \* persistCommitment: it is written
      "wait",     \* read the commitment, sleep for its minimum age
      "poll",     \* until the chain's clock agrees
      "quote",    \* pricing
      "forget",   \* forgetCommitment
      "verify",   \* verifyDomainOwnership
      "store",    \* ensureLabelStoreReady
      "transfer", \* transferName: recipient and current owner
      "moved",    \* verifyDomainOwnership of the recipient
      "owned",    \* resume: is it ours already?
      "status",   \* resume: is the commitment still good?
      "clear",    \* register clear: is it ours already?
      "choose",   \* register clear: register, discard or cancel
      "idle", "done", "failed", "down" }

Ended   == {"idle", "done", "failed", "down"}
Busy(p) == proc[p].pc \notin Ended

\* What became of the terminal's own record.
Files ==
    { "none",     \* it has not tried to save one
      "empty",    \* it has opened the file to write one
      "saved",    \* it wrote or read the one on disk
      "warned",   \* the user was told of a failure that left none
      "gone" }    \* another terminal has erased or replaced it since

IdleTerminal ==
    [pc |-> "idle", cmd |-> "none", intent |-> NoIntent, job |-> NoJob, resuming |-> FALSE,
     left |-> 0, claims |-> 0, call |-> NoCall, nonce |-> 0, file |-> "none"]

Misfortune(kind) == kind \in Troubles /\ faults < MaxFaults /\ faults' = faults + 1

diskAndBounds == <<record, drawn, commands>>
localFrame    == <<accountVars, contractVars, diskAndBounds>>

Init ==
    /\ ledger = <<>> /\ pool = {}
    /\ ContractsInit
    /\ record = NoJob
    /\ proc = [p \in Procs |-> IdleTerminal]
    /\ drawn = 0 /\ commands = 0 /\ faults = 0

(***************************************************************************)
(* Where the control flow goes.                                            *)
(***************************************************************************)
GoTo(p, point) == proc' = [proc EXCEPT ![p].pc = point]

\* write(): the call is prepared next.
Invoke(p, call) == proc' = [proc EXCEPT ![p].pc = "dryrun", ![p].call = call]

TransferOrDone(t) == IF t.job.dest = Nobody THEN "done" ELSE "transfer"

OnlyStore(t)   == "done"                   \* a mutant: the label store ends the command
AfterClaims(t) == TransferOrDone(t)

\* A fresh attempt forgets the record before it verifies, a resumed one after.
AfterReveal(t) == IF t.resuming THEN "verify" ELSE "forget"
AfterForget(t) == IF t.resuming THEN TransferOrDone(t) ELSE "verify"
AfterVerify(t) == IF t.resuming THEN "forget"
                  ELSE IF t.job.owner = Me THEN "store" ELSE TransferOrDone(t)

NotCached(t)   == "wait"                   \* a mutant: the record is never written
AfterCommit(t) == IF t.resuming THEN "wait" ELSE "save"

AfterCall(p) ==
    LET t == proc[p]
    IN  CASE t.call.kind = "commit"          -> GoTo(p, AfterCommit(t))
          [] IsReveal(t.call)                -> GoTo(p, AfterReveal(t))
          [] t.call.kind = "claimLabelStore" -> GoTo(p, AfterClaims(t))
          [] t.call.kind = "syncLabel"       -> Invoke(p, TransferCall(t.job.dest))
          [] t.call.kind = "transfer"        -> GoTo(p, "moved")

(***************************************************************************)
(* The command throws: registerWithRetries resumes from the record on disk *)
(* if there is one, else it starts afresh.  Only register domain retries.  *)
(***************************************************************************)
Rewound(t)      == [t EXCEPT !.claims = 0, !.call = NoCall]
Resumed(t, job) == [Rewound(t) EXCEPT !.pc = "owned", !.resuming = TRUE, !.job = job]
Afresh(t)       == [Rewound(t) EXCEPT !.pc = "check", !.resuming = FALSE, !.job = NoJob,
                                      !.file = "none"]

\* The record on disk is this terminal's from now on.
Loaded(t, job)  == [Resumed(t, job) EXCEPT !.file = "saved"]

\* findCommitmentRecord: a record that cannot be read counts as none.
RecordsRead == {record} \union {NoJob : kind \in Troubles \intersect {"disk"}}

Retried(t, seen) == IF seen # NoJob THEN Loaded(t, seen) ELSE Afresh(t)

Thrown(t, seen) == IF t.left > 0 THEN Retried([t EXCEPT !.left = @ - 1], seen)
                   ELSE [t EXCEPT !.pc = "failed", !.call = NoCall]

FailAs(p, t) == \E seen \in RecordsRead : proc' = [proc EXCEPT ![p] = Thrown(t, seen)]
Fail(p)      == FailAs(p, proc[p])

OneClaimMore(t) == t.claims <= MaxClaims   \* a mutant
ClaimAgain(t)   == t.claims + 1 < MaxClaims

\* A contract call failed; claimLabelStore alone is tried again, then given up quietly.
CallFails(p) ==
    LET t == proc[p]
    IN  IF t.call.kind # "claimLabelStore" THEN Fail(p)
        ELSE IF ClaimAgain(t)
        THEN proc' = [proc EXCEPT ![p].pc = "dryrun", ![p].claims = @ + 1]
        ELSE GoTo(p, AfterClaims(t))

(***************************************************************************)
(* The user.                                                               *)
(***************************************************************************)
Fresh(cmd) == [IdleTerminal EXCEPT !.cmd = cmd]

Start(p) ==
    /\ ~Busy(p) /\ commands < MaxCommands
    /\ commands' = commands + 1
    /\ \/ \E i \in Intents :
             proc' = [proc EXCEPT ![p] =
                         [Fresh("register") EXCEPT !.pc = "check", !.intent = i, !.left = MaxRetries]]
       \/ /\ record # NoJob
          /\ proc' = [proc EXCEPT ![p] = Loaded(Fresh("retry"), record)]
       \/ /\ record # NoJob
          /\ proc' = [proc EXCEPT ![p] = [Fresh("clear") EXCEPT !.pc = "clear", !.job = record,
                                                              !.file = "saved"]]
    /\ UNCHANGED <<accountVars, contractVars, record, drawn, faults>>

\* The process dies.
Crash(p) ==
    /\ Busy(p) /\ Misfortune("crash")
    /\ GoTo(p, "down")
    /\ UNCHANGED localFrame

(***************************************************************************)
(* A fresh attempt, up to its commitment.                                  *)
(***************************************************************************)
NewJob(i) == [secret |-> drawn + 1, owner |-> i.owner, dest |-> i.dest, governance |-> i.governance]

\* readDomainOwner: a read that fails looks like a name nobody owns.
OwnerRead(seen) ==
    \/ seen = owner /\ UNCHANGED faults
    \/ seen = Nobody /\ Misfortune("read")

Check(p) ==
    /\ proc[p].pc = "check"
    /\ \E seen \in Owners \union {Nobody} :
          /\ OwnerRead(seen)
          /\ IF seen = Nobody
             THEN LET job == NewJob(proc[p].intent)
                  IN  /\ job.secret \in Secrets          \* bound: it never runs out
                      /\ proc' = [proc EXCEPT ![p].pc = "dryrun", ![p].job = job,
                                              ![p].call = CommitCall(HashOf(job))]
                      /\ drawn' = drawn + 1
             ELSE Fail(p) /\ UNCHANGED drawn
    /\ UNCHANGED <<accountVars, contractVars, record, commands>>

(***************************************************************************)
(* persistCommitment writes the record in place: opening the file empties  *)
(* it, and what was in it is gone before the new record is there.  Another *)
(* terminal may do the same in between, or remove the file.  A record that *)
(* cannot be written is only warned about.                                 *)
(***************************************************************************)

\* Terminal p has changed the file: the others in the states given lose theirs.
Leaves(p, held) ==
    [q \in Procs |-> IF q # p /\ proc[q].file \in held THEN [proc[q] EXCEPT !.file = "gone"]
                     ELSE proc[q]]

Warned(p) == proc' = [proc EXCEPT ![p].pc = "wait", ![p].file = "warned"]

Save(p) ==
    /\ proc[p].pc = "save"
    /\ \/ /\ record' = NoJob /\ UNCHANGED faults
          /\ proc' = [Leaves(p, {"saved"}) EXCEPT ![p].pc = "fill", ![p].file = "empty"]
       \/ Misfortune("disk") /\ Warned(p) /\ UNCHANGED record
    /\ UNCHANGED <<accountVars, contractVars, drawn, commands>>

\* What a write leaves on disk: two of them may mix, one to a removed file is lost.
Written(t) == IF t.file = "empty" THEN {t.job} ELSE {t.job, NoJob, record}

Fill(p) ==
    /\ proc[p].pc = "fill"
    /\ \/ /\ record' \in Written(proc[p]) /\ UNCHANGED faults
          /\ LET others == IF record' = record THEN {} ELSE {"empty", "saved"}
                 mine   == IF record' = proc[p].job THEN "saved" ELSE "gone"
             IN  proc' = [Leaves(p, others) EXCEPT ![p].pc = "wait", ![p].file = mine]
       \/ Misfortune("disk") /\ Warned(p) /\ UNCHANGED record
    /\ UNCHANGED <<accountVars, contractVars, drawn, commands>>

\* The file is removed, which the others see as well.
Erased(p, point) ==
    /\ record' = NoJob
    /\ proc' = [Leaves(p, {"empty", "saved"}) EXCEPT ![p].pc = point]

(***************************************************************************)
(* One contract call: submitTransaction under withTimeout.                 *)
(***************************************************************************)
DryRun(p) ==
    /\ proc[p].pc = "dryrun"
    /\ LET verdict == Verdict(proc[p].call)
       IN  IF verdict = "success" THEN GoTo(p, "sign")
           ELSE IF verdict = "labelSet" THEN AfterCall(p) ELSE CallFails(p)
    /\ UNCHANGED <<localFrame, faults>>

\* The account's nonce counts executed transactions only.
Sign(p) ==
    /\ proc[p].pc = "sign"
    /\ proc' = [proc EXCEPT ![p].pc = "send", ![p].nonce = Len(ledger)]
    /\ UNCHANGED <<localFrame, faults>>

Send(p) ==
    /\ proc[p].pc = "send"
    /\ \E out \in {"stale", "pool", "inflight"} :
          /\ Submit(proc[p].call, proc[p].nonce, out)
          /\ IF out = "inflight" THEN GoTo(p, "watch") ELSE CallFails(p)
    /\ UNCHANGED <<ledger, contractVars, diskAndBounds, faults>>

AnybodysTransaction(call, n) == Succeeded(n)      \* a mutant: the hash is not compared

\* The finalized event names this very transaction and carries no dispatchError.
Finalized(call, n) == Found(call, n) /\ Succeeded(n)

Watch(p) ==
    /\ proc[p].pc = "watch"
    /\ \/ /\ Spent(proc[p].nonce)
          /\ IF Finalized(proc[p].call, proc[p].nonce) THEN AfterCall(p) ELSE CallFails(p)
       \/ Stuck(proc[p].nonce) /\ CallFails(p)
    /\ UNCHANGED <<localFrame, faults>>

\* The commitment is out, and its secret not saved.
Unsaved(t) == t.pc = "watch" /\ t.call.kind = "commit" /\ ~t.resuming

\* The operation's timer fires or a request fails; the transaction may be out.
TimesOut(p) ==
    /\ proc[p].pc \in {"dryrun", "sign", "send", "watch"}
    /\ Misfortune("timeout")
    /\ IF Unsaved(proc[p]) THEN FailAs(p, [proc[p] EXCEPT !.file = "warned"]) ELSE CallFails(p)
    /\ UNCHANGED localFrame

(***************************************************************************)
(* waitForMinimumCommitmentAge and the reveal.                             *)
(***************************************************************************)
AgeOf(p) == age[HashOf(proc[p].job)]

Wait(p) ==
    /\ proc[p].pc = "wait"
    /\ IF AgeOf(p) = "none" THEN Fail(p) ELSE GoTo(p, "poll")
    /\ UNCHANGED <<localFrame, faults>>

Reveal(p) ==
    IF proc[p].job.governance THEN Invoke(p, ReservedCall(HashOf(proc[p].job))) ELSE GoTo(p, "quote")

OldEnough(a) == a \in {"ripe", "expired"}

NoDeadline(a)   == FALSE                   \* a mutant
PastDeadline(a) == a = "none"

\* A commitment that is gone, or a chain whose clock lags, runs into the deadline.
Poll(p) ==
    /\ proc[p].pc = "poll"
    /\ \/ OldEnough(AgeOf(p)) /\ Reveal(p) /\ UNCHANGED faults
       \/ PastDeadline(AgeOf(p)) /\ Fail(p) /\ UNCHANGED faults
       \/ AgeOf(p) = "new" /\ Misfortune("lag") /\ Fail(p)
       \/ ~OldEnough(AgeOf(p)) /\ UNCHANGED <<proc, faults>>
    /\ UNCHANGED localFrame

BufferedPayment(charged) == (charged * BufferPercent) \div 100

Quote(p) ==
    /\ proc[p].pc = "quote"
    /\ LET job == proc[p].job
       IN  Invoke(p, RegisterCall(HashOf(job), BufferedPayment(Charge(price, job.owner))))
    /\ UNCHANGED <<localFrame, faults>>

Forget(p) ==
    /\ proc[p].pc = "forget"
    /\ LET point == AfterForget(proc[p])
       IN  \/ Erased(p, point) /\ UNCHANGED faults
           \/ Misfortune("disk") /\ GoTo(p, point) /\ UNCHANGED record
    /\ UNCHANGED <<accountVars, contractVars, drawn, commands>>

Verify(p) ==
    /\ proc[p].pc = "verify"
    /\ IF owner = proc[p].job.owner THEN GoTo(p, AfterVerify(proc[p])) ELSE Fail(p)
    /\ UNCHANGED <<localFrame, faults>>

\* Nothing pending, or the pending names are claimed.
LabelStore(p) ==
    /\ proc[p].pc = "store"
    /\ GoTo(p, TransferOrDone(proc[p])) \/ Invoke(p, ClaimCall)
    /\ UNCHANGED <<localFrame, faults>>

Transfer(p) ==
    /\ proc[p].pc = "transfer"
    /\ IF owner = Me THEN Invoke(p, SyncCall) ELSE Fail(p)
    /\ UNCHANGED <<localFrame, faults>>

Moved(p) ==
    /\ proc[p].pc = "moved"
    /\ IF owner = proc[p].job.dest THEN GoTo(p, "done") ELSE Fail(p)
    /\ UNCHANGED <<localFrame, faults>>

\* Any other read fails, or finds the account not eligible.
ReadFails(p) ==
    /\ proc[p].pc \in {"check", "wait", "poll", "quote", "verify", "store", "transfer", "moved", "status"}
    /\ Misfortune("read")
    /\ Fail(p)
    /\ UNCHANGED localFrame

(***************************************************************************)
(* Resuming from a record, and clearing it.                                *)
(***************************************************************************)

\* Mutants of RegisteredTo: any owner counts; so does a read that found nobody.
RegisteredToAnybody(seen, job)     == seen # Nobody
NotRegisteredToAnother(seen, job)  == seen \in {Nobody, job.owner}

RegisteredTo(seen, job) == seen = job.owner

\* Nothing is left to do, as the code sees it: it replays no transfer.
Owned(p) ==
    /\ proc[p].pc = "owned"
    /\ \/ \E seen \in Owners \union {Nobody} :
             /\ OwnerRead(seen)
             /\ IF RegisteredTo(seen, proc[p].job) THEN Erased(p, "done")
                ELSE GoTo(p, "status") /\ UNCHANGED record
       \/ /\ RegisteredTo(owner, proc[p].job) /\ Misfortune("disk")
          /\ GoTo(p, "done") /\ UNCHANGED record
    /\ UNCHANGED <<accountVars, contractVars, drawn, commands>>

OnlyIfMissing(a) == a = "none"             \* a mutant: an expired commitment is kept

NeedsRecommit(a) == a \in {"none", "expired"}

Status(p) ==
    /\ proc[p].pc = "status"
    /\ IF NeedsRecommit(AgeOf(p)) THEN Invoke(p, CommitCall(HashOf(proc[p].job)))
       ELSE GoTo(p, "wait")
    /\ UNCHANGED <<localFrame, faults>>

Clear(p) ==
    /\ proc[p].pc = "clear"
    /\ \/ \E seen \in Owners \union {Nobody} :
             /\ OwnerRead(seen)
             /\ IF RegisteredTo(seen, proc[p].job) THEN Erased(p, "done")
                ELSE GoTo(p, "choose") /\ UNCHANGED record
       \/ /\ RegisteredTo(owner, proc[p].job) /\ Misfortune("disk")
          /\ Fail(p) /\ UNCHANGED record
    /\ UNCHANGED <<accountVars, contractVars, drawn, commands>>

\* The user registers, discards or cancels; the command fails without a terminal to
\* ask on, or when the file cannot be removed.
Choose(p) ==
    /\ proc[p].pc = "choose"
    /\ \/ proc' = [proc EXCEPT ![p] = Resumed(@, @.job)] /\ UNCHANGED record
       \/ Erased(p, "done")
       \/ GoTo(p, "done") /\ UNCHANGED record
       \/ Fail(p) /\ UNCHANGED record
    /\ UNCHANGED <<accountVars, contractVars, drawn, commands, faults>>

(***************************************************************************)
(* The whole system.                                                       *)
(***************************************************************************)
Step(p) ==
    \/ Check(p) \/ DryRun(p) \/ Sign(p) \/ Send(p) \/ Watch(p) \/ Save(p)
    \/ Fill(p) \/ Wait(p) \/ Poll(p) \/ Quote(p) \/ Forget(p) \/ Verify(p) \/ LabelStore(p)
    \/ Transfer(p) \/ Moved(p) \/ Owned(p) \/ Status(p) \/ Clear(p) \/ Choose(p)

nodeFrame == <<record, proc, drawn, commands>>

Chain == (Execute \/ (Ripens /\ UNCHANGED accountVars)) /\ UNCHANGED <<nodeFrame, faults>>

Trouble ==
    \/ \E p \in Procs : TimesOut(p) \/ ReadFails(p) \/ Crash(p)
    \/ Drop /\ Misfortune("drop") /\ UNCHANGED <<contractVars, nodeFrame>>
    \/ Expires /\ Misfortune("expiry") /\ UNCHANGED <<accountVars, nodeFrame>>
    \/ RivalRegisters /\ Misfortune("rival") /\ UNCHANGED <<accountVars, nodeFrame>>
    \/ PriceMoves /\ Misfortune("price") /\ UNCHANGED <<accountVars, nodeFrame>>

Quiet == (\A p \in Procs : ~Busy(p)) /\ UNCHANGED vars

Next == (\E p \in Procs : Step(p) \/ Start(p)) \/ Chain \/ Trouble \/ Quiet

Spec == Init /\ [][Next]_vars

\* Awaited promises settle, timers fire, blocks are made and chain time passes;
\* nothing obliges a user to start or choose anything, or trouble to come.
Fairness ==
    /\ \A p \in Procs : WF_vars(Step(p))
    /\ WF_vars(Chain)

FairSpec == Spec /\ Fairness

(***************************************************************************)
(* What should be true.                                                    *)
(***************************************************************************)
Calls == {CommitCall(h) : h \in Hashes} \union {ReservedCall(h) : h \in Hashes}
         \union [kind : {"register"}, hash : Hashes, value : Nat]
         \union [kind : {"transfer"}, to : Owners]
         \union {ClaimCall, SyncCall}

AccountType ==
    /\ ledger \in Seq([call : Calls, outcome : Verdicts])
    /\ pool \subseteq [nonce : Nat, call : Calls]

ContractType ==
    /\ owner \in Owners \union {Nobody}
    /\ age \in [Hashes -> Ages]
    /\ labelSet \in BOOLEAN /\ price \in Prices

Terminals ==
    [pc : ControlPoints, cmd : {"none", "register", "retry", "clear"},
     intent : Intents \union {NoIntent}, job : Jobs \union {NoJob}, resuming : BOOLEAN,
     left : 0..MaxRetries, claims : 0..(MaxClaims - 1), call : Calls \union {NoCall}, nonce : Nat,
     file : Files]

TypeOK ==
    /\ AccountType /\ ContractType
    /\ record \in Jobs \union {NoJob}
    /\ proc \in [Procs -> Terminals]
    /\ drawn \in Secrets \union {0}
    /\ commands \in 0..MaxCommands /\ faults \in 0..MaxFaults

(***************************************************************************)
(* Whoever held the name at some time, by a reveal or a transfer of ours.  *)
(***************************************************************************)
Held(a) == \E i \in DOMAIN ledger :
              /\ ledger[i].outcome = "success"
              /\ \/ IsReveal(ledger[i].call) /\ ledger[i].call.hash.owner = a
                 \/ ledger[i].call = TransferCall(a)

Registers(t) == t.cmd = "register" \/ t.resuming
Discards(p)  == proc[p].pc = "choose" /\ proc'[p].pc = "done"

\* A record on disk can be revealed: its very commitment was executed, whoever
\* wrote it last and whatever was overwritten or lost in between.
RecordIsCommitted == record # NoJob => Executed(CommitCall(HashOf(record)))

\* Persisting the secret of one's own executed commitment, from the moment the file
\* is emptied.
Replaces(p) == proc[p].pc \in {"save", "fill"} /\ ~proc[p].resuming
               /\ Executed(CommitCall(HashOf(proc[p].job)))

\* A record is never lost behind the user's back: the one on disk changes only when
\* the name has an owner, when the user discards it, or under a terminal that saves
\* the secret of another commitment, its own and executed.
RecordKept ==
    [][record # NoJob /\ record' # record =>
          owner # Nobody \/ \E p \in Procs : Discards(p) \/ Replaces(p)]_vars

\* A command that reports success for a job has made its owner the owner of the
\* name, at least for a while; what a rival registered never counts.
DoneMeansHeld ==
    \A p \in Procs : proc[p].pc = "done" /\ Registers(proc[p]) => Held(proc[p].job.owner)

\* A registration that ran through without resuming has also made the transfer it
\* was asked for, whatever became of the label store before it.
TransferMade ==
    \A p \in Procs :
        LET t == proc[p]
        IN  t.pc = "done" /\ Registers(t) /\ ~t.resuming /\ t.job.dest # Nobody
                => Executed(TransferCall(t.job.dest))

\* It said why there is no record of its own, or another terminal took it away.
Excused(t) == t.file \in {"warned", "gone"}

\* README: "If the reveal is interrupted (...), the commitment is cached locally so
\* it can be resumed": a command whose last attempt failed after its commitment was
\* executed, with the name still free, has left the record of just this commitment,
\* unless it reported that the record could not be written or that the answer to the
\* commitment did not come in time, or another terminal has replaced or removed it.
FailedIsResumable ==
    \A p \in Procs :
        LET t == proc[p]
        IN  /\ t.pc = "failed" /\ owner = Nobody
            /\ t.job # NoJob /\ Executed(CommitCall(HashOf(t.job)))
            => record = t.job \/ Excused(t)

\* A process that dies after its commitment was executed, with the name still free,
\* takes the only copy of the secret with it just between the submission of the
\* commitment and the end of persistCommitment, and at no later point, whatever was
\* retried, but for the two exceptions above.
CrashKeepsSecret ==
    [][\A p \in Procs :
          LET t == proc[p]
          IN  /\ Busy(p) /\ proc'[p].pc = "down" /\ owner = Nobody
              /\ t.job # NoJob /\ Executed(CommitCall(HashOf(t.job)))
              => \/ record = t.job \/ Excused(t)
                 \/ t.pc \in {"watch", "save", "fill"} /\ ~t.resuming]_vars

\* Every command ends, also when terminals take each other's nonces, records and
\* commitments: no poll waits for what another terminal has used up.
CommandEnds == \A p \in Procs : Busy(p) ~> ~Busy(p)

\* As long as no process dies, expired commitments, dropped transactions, a moving
\* price and failing reads do not keep a registration from registering the name,
\* unless there are more of them than it has retries.
RegistrationHeals ==
    (\A p \in Procs : [](proc[p].pc # "down")) =>
        \A p \in Procs : Busy(p) /\ proc[p].cmd = "register"
                            ~> owner # Nobody \/ faults > MaxRetries

\* registrationManifest.ts:46: "Post-mint transfer destination to replay on resume,
\* if any."
TransferReplayed ==
    \A p \in Procs :
        LET t == proc[p]
        IN  t.pc = "done" /\ Registers(t) /\ t.job.dest # Nobody
                => Executed(TransferCall(t.job.dest))

\* registerCommand.ts:51: "Caller pays price + transferFloor friction; owner
\* receives the NFT."
OwnerReceives ==
    \A p \in Procs :
        proc[p].pc = "done" /\ proc[p].cmd = "register" => Held(proc[p].intent.owner)
===============================================================================
