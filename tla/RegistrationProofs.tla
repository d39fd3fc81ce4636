-------------------------- MODULE RegistrationProofs --------------------------
(***************************************************************************)
(* What the saved record and success mean, for any number of terminals,    *)
(* retries and misfortunes, and what a failure leaves behind.              *)
(***************************************************************************)
EXTENDS Registration, TLAPS

(***************************************************************************)
(* What has happened on a ledger; a ledger only grows.                     *)
(***************************************************************************)
ExecutedIn(chain, call) ==
    \E i \in DOMAIN chain : chain[i] = [call |-> call, outcome |-> "success"]

Gives(call, a) == (IsReveal(call) /\ call.hash.owner = a) \/ call = TransferCall(a)

HeldIn(chain, a) ==
    \E i \in DOMAIN chain : chain[i].outcome = "success" /\ Gives(chain[i].call, a)

(***************************************************************************)
(* What a terminal may rely on at each of its control points.              *)
(***************************************************************************)
Calling   == {"dryrun", "sign", "send", "watch"}
JobPoints == ControlPoints \ ({"check"} \union Ended)

CallFits(t, chain) ==
    \/ t.call = CommitCall(HashOf(t.job))
    \/ IsReveal(t.call) /\ t.call.hash = HashOf(t.job)
    \/ /\ HeldIn(chain, t.job.owner)
       /\ \/ t.call = ClaimCall
          \/ t.job.dest # Nobody /\ t.call \in {SyncCall, TransferCall(t.job.dest)}

Good(t, chain, holder) ==
    /\ t \in Terminals
    /\ t.pc \in JobPoints => t.job # NoJob
    /\ t.job # NoJob => t.job.owner # Rival
    /\ t.pc \in Calling => CallFits(t, chain)
    /\ t.pc \in {"save", "fill"} => ~t.resuming /\ ExecutedIn(chain, CommitCall(HashOf(t.job)))
    /\ t.pc = "forget" => holder # Nobody /\ (t.resuming => HeldIn(chain, t.job.owner))
    /\ t.pc \in {"store", "transfer", "moved"} => HeldIn(chain, t.job.owner)
    /\ t.pc = "transfer" => t.job.dest # Nobody
    /\ t.pc = "moved" => ExecutedIn(chain, TransferCall(t.job.dest))
    /\ t.pc = "owned" => t.resuming
    /\ t.pc \in {"clear", "choose"} => ~Registers(t)
    /\ t.pc = "done" /\ Registers(t) =>
          /\ HeldIn(chain, t.job.owner)
          /\ t.resuming \/ t.job.dest = Nobody \/ ExecutedIn(chain, TransferCall(t.job.dest))

TerminalsInv ==
    /\ proc \in [Procs -> Terminals]
    /\ \A q \in Procs : Good(proc[q], ledger, owner)

RecordInv ==
    /\ record \in Jobs \union {NoJob}
    /\ record # NoJob => /\ ExecutedIn(ledger, CommitCall(HashOf(record)))
                         /\ record.owner # Rival

\* The owner is a rival or somebody we gave the name to, and a name once given has an owner.
OwnerInv ==
    /\ owner \in {Nobody, Rival} \/ HeldIn(ledger, owner)
    /\ \A a \in Owners : HeldIn(ledger, a) => owner # Nobody

\* The node holds one transaction per nonce.
PoolInv == \A s, t \in pool : s.nonce = t.nonce => s = t

CountersInv ==
    /\ drawn \in Secrets \union {0}
    /\ commands \in 0..MaxCommands /\ faults \in 0..MaxFaults

Inv ==
    /\ AccountType /\ ContractType /\ CountersInv
    /\ PoolInv /\ OwnerInv /\ RecordInv /\ TerminalsInv

-----------------------------------------------------------------------------
USE DEF diskAndBounds, localFrame, nodeFrame, accountVars, contractVars

LEMMA HashType == ASSUME NEW job \in Jobs PROVE HashOf(job) \in Hashes
BY DEF Jobs, HashOf, Hashes

LEMMA CallType ==
  ASSUME NEW h \in Hashes, NEW v \in Nat, NEW a \in Owners
  PROVE  {CommitCall(h), RegisterCall(h, v), ReservedCall(h), ClaimCall, SyncCall, TransferCall(a)}
             \subseteq Calls
BY DEF Calls, CommitCall, RegisterCall, ReservedCall, ClaimCall, SyncCall, TransferCall

LEMMA JobType ==
  ASSUME NEW t \in Terminals, t.job # NoJob
  PROVE  t.job \in Jobs /\ HashOf(t.job) \in Hashes /\ t.job.owner \in Owners
BY HashType DEF Terminals, Jobs

\* The fields of a terminal, for the solver.
LEMMA Fields ==
  ASSUME NEW t \in Terminals
  PROVE  t = [pc |-> t.pc, cmd |-> t.cmd, intent |-> t.intent, job |-> t.job,
              resuming |-> t.resuming, left |-> t.left, claims |-> t.claims,
              call |-> t.call, nonce |-> t.nonce, file |-> t.file]
BY DEF Terminals

(***************************************************************************)
(* One terminal moves and what has happened stays as it is; with the file, *)
(* it may take the records of others.                                      *)
(***************************************************************************)
Robbed(t) == [t EXCEPT !.file = "gone"]

Becomes(p, t) ==
    /\ proc' = [q \in Procs |-> proc'[q]]
    /\ proc'[p] = t
    /\ \A q \in Procs \ {p} : \/ proc'[q] = proc[q]
                              \/ proc[q].file \in {"empty", "saved"} /\ proc'[q] = Robbed(proc[q])

Moves(p) == \E t \in Terminals : /\ proc' = [proc EXCEPT ![p] = t] \/ Becomes(p, t)
                                 /\ Good(t, ledger, owner)

LEMMA RobbedGood ==
  ASSUME NEW t \in Terminals, Good(t, ledger, owner)
  PROVE  Robbed(t) \in Terminals /\ Good(Robbed(t), ledger, owner)
<1>1. Robbed(t) \in Terminals
  BY DEF Robbed, Terminals, Files
<1>2. /\ Robbed(t).pc = t.pc /\ Robbed(t).cmd = t.cmd /\ Robbed(t).job = t.job
      /\ Robbed(t).resuming = t.resuming /\ Robbed(t).call = t.call
  BY Fields DEF Robbed
<1> QED
  BY <1>1, <1>2 DEF Good, CallFits, Registers

LEMMA MovesInv ==
  ASSUME TerminalsInv, NEW p \in Procs, Moves(p), UNCHANGED <<ledger, owner>>
  PROVE  TerminalsInv'
<1>1. PICK t \in Terminals : /\ proc' = [proc EXCEPT ![p] = t] \/ Becomes(p, t)
                             /\ Good(t, ledger, owner)
  BY DEF Moves
<1>2. CASE proc' = [proc EXCEPT ![p] = t]
  BY <1>1, <1>2 DEF TerminalsInv
<1>3. CASE Becomes(p, t)
  <2>1. \A q \in Procs : proc'[q] \in Terminals /\ Good(proc'[q], ledger, owner)
    BY <1>1, <1>3, RobbedGood DEF TerminalsInv, Becomes
  <2>2. proc' \in [Procs -> Terminals]
    BY <1>3, <2>1 DEF Becomes
  <2> QED
    BY <2>1, <2>2 DEF TerminalsInv
<1> QED
  BY <1>1, <1>2, <1>3

\* What removing or writing the file does to the others.
LEMMA LeavesBecomes ==
  ASSUME proc \in [Procs -> Terminals], NEW p \in Procs, NEW t,
         NEW held \in SUBSET {"empty", "saved"}, proc' = [Leaves(p, held) EXCEPT ![p] = t]
  PROVE  Becomes(p, t)
<1>1. proc' = [q \in Procs |-> IF q = p THEN t ELSE Leaves(p, held)[q]]
  BY DEF Leaves
<1>2. \A q \in Procs \ {p} :
         \/ proc'[q] = proc[q]
         \/ proc[q].file \in {"empty", "saved"} /\ proc'[q] = Robbed(proc[q])
  BY <1>1 DEF Leaves, Robbed
<1>3. proc' = [q \in Procs |-> proc'[q]]
  BY <1>1
<1>4. proc'[p] = t
  BY <1>1
<1> QED
  BY <1>2, <1>3, <1>4 DEF Becomes

LEMMA ErasedBecomes ==
  ASSUME proc \in [Procs -> Terminals], NEW p \in Procs, NEW point, Erased(p, point)
  PROVE  Becomes(p, [proc[p] EXCEPT !.pc = point])
<1>1. Leaves(p, {"empty", "saved"})[p] = proc[p]
  BY DEF Leaves
<1>2. proc' = [Leaves(p, {"empty", "saved"}) EXCEPT ![p] = [proc[p] EXCEPT !.pc = point]]
  BY <1>1 DEF Erased
<1> QED
  BY <1>2, LeavesBecomes

LEMMA GoToMoves ==
  ASSUME TerminalsInv, NEW p \in Procs, NEW point \in ControlPoints,
         GoTo(p, point) \/ Erased(p, point), Good([proc[p] EXCEPT !.pc = point], ledger, owner)
  PROVE  Moves(p)
BY ErasedBecomes DEF TerminalsInv, Moves, GoTo, Good

LEMMA InvokeMoves ==
  ASSUME TerminalsInv, NEW p \in Procs, NEW call \in Calls, Invoke(p, call),
         proc[p].job # NoJob,
         CallFits([proc[p] EXCEPT !.pc = "dryrun", !.call = call], ledger)
  PROVE  Moves(p)
<1> DEFINE t == [proc[p] EXCEPT !.pc = "dryrun", !.call = call]
<1>1. proc[p] \in Terminals /\ Good(proc[p], ledger, owner)
  BY DEF TerminalsInv
<1>2. t \in Terminals
  BY <1>1 DEF Terminals, ControlPoints
<1>3. t.pc = "dryrun" /\ t.job = proc[p].job
  BY <1>1, Fields
<1>4. Good(t, ledger, owner)
  BY <1>1, <1>2, <1>3 DEF Good, Calling, Ended
<1> QED
  BY <1>2, <1>4 DEF Invoke, Moves

LEMMA EndMoves ==
  ASSUME TerminalsInv, NEW p \in Procs, GoTo(p, "down")
  PROVE  Moves(p)
<1>1. proc[p] \in Terminals /\ Good(proc[p], ledger, owner)
  BY DEF TerminalsInv
<1>2. [proc[p] EXCEPT !.pc = "down"] \in Terminals
  BY <1>1 DEF Terminals, ControlPoints
<1>3. Good([proc[p] EXCEPT !.pc = "down"], ledger, owner)
  BY <1>1, <1>2, Fields DEF Good, JobPoints, Calling, Ended
<1> QED
  BY <1>3, GoToMoves DEF ControlPoints

Plain == {"wait", "poll", "quote", "verify", "status"}

LEMMA PlainMoves ==
  ASSUME TerminalsInv, NEW p \in Procs, NEW point \in Plain,
         GoTo(p, point) \/ Erased(p, point), proc[p].job # NoJob
  PROVE  Moves(p)
<1> DEFINE t == [proc[p] EXCEPT !.pc = point]
<1>1. proc[p] \in Terminals /\ Good(proc[p], ledger, owner)
  BY DEF TerminalsInv
<1>2. t \in Terminals
  BY <1>1 DEF Terminals, ControlPoints, Plain
<1>3. t.pc = point /\ t.job = proc[p].job
  BY <1>1, Fields
<1>4. Good(t, ledger, owner)
  BY <1>1, <1>2, <1>3 DEF Good, Calling, Ended, Plain
<1> QED
  BY <1>4, GoToMoves DEF ControlPoints, Plain

\* The call goes on.
LEMMA CallingMoves ==
  ASSUME TerminalsInv, NEW p \in Procs, proc[p].pc \in Calling,
         NEW point \in Calling, NEW n \in Nat, NEW k \in 0..(MaxClaims - 1),
         proc' = [proc EXCEPT ![p] = [proc[p] EXCEPT !.pc = point, !.nonce = n, !.claims = k]]
  PROVE  Moves(p)
<1> DEFINE t == [proc[p] EXCEPT !.pc = point, !.nonce = n, !.claims = k]
<1>1. proc[p] \in Terminals /\ Good(proc[p], ledger, owner)
  BY DEF TerminalsInv
<1>2. t \in Terminals
  BY <1>1 DEF Terminals, ControlPoints, Calling
<1>3. t.pc = point /\ t.job = proc[p].job /\ t.call = proc[p].call
  BY <1>1, Fields
<1>4. proc[p].job # NoJob
  BY <1>1 DEF Good, Calling, JobPoints, ControlPoints, Ended
<1>5. CallFits(t, ledger)
  BY <1>1, <1>3 DEF Good, CallFits
<1>6. Good(t, ledger, owner)
  BY <1>1, <1>2, <1>3, <1>4, <1>5 DEF Good, Calling, Ended
<1> QED
  BY <1>2, <1>6 DEF Moves

LEMMA RewoundType ==
  ASSUME NEW t \in Terminals, CountsAssumption
  PROVE  Rewound(t) \in Terminals
<1>1. 0 \in 0..(MaxClaims - 1)
  BY DEF CountsAssumption
<1> QED
  BY <1>1 DEF Rewound, Terminals

\* A terminal that takes up a record.
LEMMA ResumedGood ==
  ASSUME NEW t \in Terminals, NEW job \in Jobs, job # NoJob, job.owner # Rival,
         CountsAssumption
  PROVE  /\ Resumed(t, job) \in Terminals
         /\ Good(Resumed(t, job), ledger, owner)
<1> DEFINE u == Resumed(t, job)
<1>1. u \in Terminals
  <2>1. "owned" \in ControlPoints
    BY DEF ControlPoints
  <2> QED
    BY <2>1, RewoundType DEF Resumed, Terminals
<1>2. u.pc = "owned" /\ u.job = job /\ u.resuming = TRUE
  BY RewoundType, Fields DEF Resumed
<1> QED
  BY <1>1, <1>2 DEF Good, Calling, Ended

LEMMA LoadedGood ==
  ASSUME NEW t \in Terminals, NEW job \in Jobs, job # NoJob, job.owner # Rival,
         CountsAssumption
  PROVE  /\ Loaded(t, job) \in Terminals
         /\ Loaded(t, job).pc = "owned" /\ Loaded(t, job).job = job
         /\ Loaded(t, job).file = "saved"
         /\ Good(Loaded(t, job), ledger, owner)
<1> DEFINE u == Loaded(t, job)
<1>1. Resumed(t, job) \in Terminals
  BY ResumedGood
<1>2. u \in Terminals
  BY <1>1 DEF Loaded, Terminals, Files
<1>3. Resumed(t, job).pc = "owned" /\ Resumed(t, job).job = job /\ Resumed(t, job).resuming = TRUE
  BY RewoundType, Fields DEF Resumed
<1>4. u.pc = "owned" /\ u.job = job /\ u.resuming = TRUE /\ u.file = "saved"
  BY <1>1, <1>3, Fields DEF Loaded
<1> QED
  BY <1>2, <1>4 DEF Good, Calling, Ended

LEMMA AfreshGood ==
  ASSUME NEW t \in Terminals, CountsAssumption
  PROVE  /\ Afresh(t) \in Terminals
         /\ Good(Afresh(t), ledger, owner)
<1> DEFINE u == Afresh(t)
<1>1. u \in Terminals
  <2>1. PICK w \in Terminals : w = Rewound(t)
    BY RewoundType
  <2>2. u = [w EXCEPT !.pc = "check", !.resuming = FALSE, !.job = NoJob, !.file = "none"]
    BY <2>1 DEF Afresh
  <2>3. "check" \in ControlPoints /\ "none" \in Files
    BY DEF ControlPoints, Files
  <2> HIDE DEF u
  <2> QED
    BY <2>2, <2>3 DEF Terminals
<1>2. u.pc = "check" /\ u.job = NoJob
  BY RewoundType, Fields DEF Afresh
<1> QED
  BY <1>1, <1>2 DEF Good, Calling, Ended, JobPoints

LEMMA FailAsMoves ==
  ASSUME TerminalsInv, RecordInv, NEW p \in Procs, NEW v \in Terminals, FailAs(p, v),
         v.job # NoJob => v.job.owner # Rival
  PROVE  Moves(p)
<1> USE CountsAssumption
<1>1. PICK seen \in RecordsRead : proc' = [proc EXCEPT ![p] = Thrown(v, seen)]
  BY DEF FailAs
<1>2. seen \in {record, NoJob}
  BY DEF RecordsRead
<1>3. CASE v.left > 0
  <2> DEFINE t == [v EXCEPT !.left = @ - 1]
  <2>1. t \in Terminals
    BY <1>3 DEF Terminals
  <2>2. proc' = [proc EXCEPT ![p] = Retried(t, seen)]
    BY <1>1, <1>3 DEF Thrown
  <2>3. Retried(t, seen) \in Terminals /\ Good(Retried(t, seen), ledger, owner)
    BY <1>2, <2>1, LoadedGood, AfreshGood DEF Retried, RecordInv
  <2> QED
    BY <2>2, <2>3 DEF Moves
<1>4. CASE ~(v.left > 0)
  <2> DEFINE t == [v EXCEPT !.pc = "failed", !.call = NoCall]
  <2>1. t \in Terminals
    BY DEF Terminals, ControlPoints
  <2>2. t.pc = "failed" /\ t.job = v.job
    BY Fields
  <2>3. Good(t, ledger, owner)
    BY <2>1, <2>2 DEF Good, Calling, JobPoints, Ended
  <2> QED
    BY <1>1, <1>4, <2>1, <2>3 DEF Moves, Thrown
<1> QED
  BY <1>3, <1>4

LEMMA FailMoves ==
  ASSUME TerminalsInv, RecordInv, NEW p \in Procs, Fail(p)
  PROVE  Moves(p)
BY FailAsMoves DEF Fail, TerminalsInv, Good

(***************************************************************************)
(* What follows once the name was ours.                                    *)
(***************************************************************************)
LEMMA HeldMoves ==
  ASSUME TerminalsInv, NEW p \in Procs, NEW point \in {"store", TransferOrDone(proc[p])},
         GoTo(p, point) \/ Erased(p, point), proc[p].job # NoJob,
         HeldIn(ledger, proc[p].job.owner)
  PROVE  Moves(p)
<1> DEFINE t == [proc[p] EXCEPT !.pc = point]
<1>1. proc[p] \in Terminals /\ Good(proc[p], ledger, owner)
  BY DEF TerminalsInv
<1>2. point \in {"store", "transfer", "done"} /\ (point = "transfer" => proc[p].job.dest # Nobody)
                                              /\ (point = "done" => proc[p].job.dest = Nobody)
  BY DEF TransferOrDone
<1>3. t \in Terminals
  BY <1>1, <1>2 DEF Terminals, ControlPoints
<1>4. t.pc = point /\ t.job = proc[p].job
  BY <1>1, Fields
<1>5. Good(t, ledger, owner)
  BY <1>1, <1>2, <1>3, <1>4 DEF Good, Calling, Ended
<1> QED
  BY <1>2, <1>5, GoToMoves DEF ControlPoints

\* A call of a terminal is a call, and it has a job.
LEMMA CallingJob ==
  ASSUME TerminalsInv, NEW p \in Procs, proc[p].pc \in Calling
  PROVE  /\ proc[p].job \in Jobs /\ proc[p].job # NoJob
         /\ proc[p].call \in Calls
         /\ CallFits(proc[p], ledger)
<1>1. proc[p] \in Terminals /\ Good(proc[p], ledger, owner)
  BY DEF TerminalsInv
<1>2. proc[p].job # NoJob /\ CallFits(proc[p], ledger)
  BY <1>1 DEF Good, Calling, JobPoints, ControlPoints, Ended
<1>3. proc[p].job \in Jobs /\ HashOf(proc[p].job) \in Hashes
  BY <1>1, <1>2, JobType
<1>4. proc[p].call # NoCall
  BY <1>2 DEF CallFits, CommitCall, IsReveal, ClaimCall, SyncCall, TransferCall, NoCall
<1> QED
  BY <1>1, <1>2, <1>3, <1>4 DEF Terminals

\* The call was executed, or found to be needless.
LEMMA AfterCallMoves ==
  ASSUME TerminalsInv, NEW p \in Procs, proc[p].pc \in Calling, AfterCall(p),
         proc[p].call.kind \in {"commit", "transfer"} => ExecutedIn(ledger, proc[p].call),
         IsReveal(proc[p].call) => owner # Nobody
  PROVE  Moves(p)
<1> DEFINE t == proc[p]
           call == proc[p].call
<1> USE DEF AfterCall
<1>1. /\ t \in Terminals /\ Good(t, ledger, owner)
      /\ t.job \in Jobs /\ t.job # NoJob /\ call \in Calls /\ CallFits(t, ledger)
  BY CallingJob DEF TerminalsInv
<1>2. CASE call = CommitCall(HashOf(t.job))
  <2>1. GoTo(p, AfterCommit(t)) /\ ExecutedIn(ledger, CommitCall(HashOf(t.job)))
    BY <1>2 DEF CommitCall, IsReveal
  <2>2. CASE t.resuming
    BY <1>1, <2>1, <2>2, PlainMoves DEF AfterCommit, Plain
  <2>3. CASE ~t.resuming
    <3> DEFINE u == [t EXCEPT !.pc = "save"]
    <3>1. u \in Terminals /\ u.pc = "save" /\ u.job = t.job /\ ~u.resuming
      BY <1>1, <2>3 DEF Terminals, ControlPoints
    <3>2. Good(u, ledger, owner)
      BY <1>1, <2>1, <3>1 DEF Good, Calling, Ended
    <3> QED
      BY <2>1, <2>3, <3>2, GoToMoves DEF AfterCommit, ControlPoints
  <2> QED
    BY <2>2, <2>3
<1>3. CASE IsReveal(call)
  <2>1. GoTo(p, AfterReveal(t)) /\ owner # Nobody
    BY <1>3 DEF IsReveal
  <2>2. CASE t.resuming
    BY <1>1, <2>1, <2>2, PlainMoves DEF AfterReveal, Plain
  <2>3. CASE ~t.resuming
    <3> DEFINE u == [t EXCEPT !.pc = "forget"]
    <3>1. u \in Terminals /\ u.pc = "forget" /\ u.job = t.job /\ ~u.resuming
      BY <1>1, <2>3 DEF Terminals, ControlPoints
    <3>2. Good(u, ledger, owner)
      BY <1>1, <2>1, <3>1 DEF Good, Calling, Ended
    <3> QED
      BY <2>1, <2>3, <3>2, GoToMoves DEF AfterReveal, ControlPoints
  <2> QED
    BY <2>2, <2>3
<1>4. CASE HeldIn(ledger, t.job.owner) /\ call = ClaimCall
  <2>1. GoTo(p, TransferOrDone(t))
    BY <1>4 DEF ClaimCall, IsReveal, AfterClaims
  <2> QED
    BY <1>1, <1>4, <2>1, HeldMoves
<1>5. CASE /\ HeldIn(ledger, t.job.owner)
           /\ t.job.dest # Nobody /\ call = SyncCall
  <2>1. Invoke(p, TransferCall(t.job.dest))
    BY <1>5 DEF SyncCall, IsReveal
  <2>2. t.job.dest \in Owners
    BY <1>1, <1>5 DEF Jobs
  <2>3. TransferCall(t.job.dest) \in Calls
    BY <2>2 DEF Calls, TransferCall
  <2> DEFINE u == [t EXCEPT !.pc = "dryrun", !.call = TransferCall(t.job.dest)]
  <2>4. u.job = t.job /\ u.call = TransferCall(t.job.dest)
    BY <1>1, Fields
  <2>5. CallFits(u, ledger)
    BY <1>5, <2>4 DEF CallFits
  <2> QED
    BY <1>1, <2>1, <2>3, <2>5, InvokeMoves
<1>6. CASE /\ HeldIn(ledger, t.job.owner)
           /\ t.job.dest # Nobody /\ call = TransferCall(t.job.dest)
  <2>1. GoTo(p, "moved") /\ ExecutedIn(ledger, TransferCall(t.job.dest))
    BY <1>6 DEF TransferCall, IsReveal
  <2> DEFINE u == [t EXCEPT !.pc = "moved"]
  <2>2. u \in Terminals /\ u.pc = "moved" /\ u.job = t.job
    BY <1>1 DEF Terminals, ControlPoints
  <2>3. Good(u, ledger, owner)
    BY <1>1, <1>6, <2>1, <2>2 DEF Good, Calling, Ended
  <2> QED
    BY <2>1, <2>3, GoToMoves DEF ControlPoints
<1> QED
  BY <1>1, <1>2, <1>3, <1>4, <1>5, <1>6 DEF CallFits

LEMMA CallFailsMoves ==
  ASSUME TerminalsInv, RecordInv, NEW p \in Procs, proc[p].pc \in Calling, CallFails(p)
  PROVE  Moves(p)
<1> DEFINE t == proc[p]
<1>1. /\ t \in Terminals
      /\ t.job # NoJob /\ CallFits(t, ledger)
  BY CallingJob DEF TerminalsInv
<1>2. CASE t.call.kind # "claimLabelStore"
  BY <1>2, FailMoves DEF CallFails
<1>3. CASE t.call.kind = "claimLabelStore" /\ ClaimAgain(t)
  <2>1. t.claims + 1 \in 0..(MaxClaims - 1)
    BY <1>1, <1>3, CountsAssumption DEF ClaimAgain, Terminals
  <2>2. proc' = [proc EXCEPT ![p] = [t EXCEPT !.pc = "dryrun", !.claims = t.claims + 1]]
    BY <1>3 DEF CallFails
  <2>3. [t EXCEPT !.pc = "dryrun", !.claims = t.claims + 1]
          = [t EXCEPT !.pc = "dryrun", !.nonce = t.nonce, !.claims = t.claims + 1]
    BY <1>1 DEF Terminals
  <2>4. t.nonce \in Nat
    BY <1>1 DEF Terminals
  <2> QED
    BY <2>1, <2>2, <2>3, <2>4, CallingMoves DEF Calling
<1>4. CASE t.call.kind = "claimLabelStore" /\ ~ClaimAgain(t)
  <2>1. GoTo(p, TransferOrDone(t))
    BY <1>4 DEF CallFails, AfterClaims
  <2>2. HeldIn(ledger, t.job.owner)
    BY <1>1, <1>4 DEF CallFits, CommitCall, IsReveal
  <2> QED
    BY <1>1, <2>1, <2>2, HeldMoves
<1> QED
  BY <1>2, <1>3, <1>4

-----------------------------------------------------------------------------
(***************************************************************************)
(* The steps of one terminal.                                              *)
(***************************************************************************)
LEMMA Translation ==
  ASSUME NEW call, NEW a
  PROVE  /\ Executed(call) <=> ExecutedIn(ledger, call)
         /\ Held(a) <=> HeldIn(ledger, a)
BY DEF Executed, ExecutedIn, Held, HeldIn, Gives

\* A call that was finalized for this terminal was executed, and a reveal gave the
\* name an owner.
LEMMA FinalizedExecuted ==
  ASSUME AccountType, OwnerInv, NEW call \in Calls, NEW n \in Nat, Spent(n), Finalized(call, n)
  PROVE  /\ ExecutedIn(ledger, call)
         /\ IsReveal(call) => owner # Nobody
<1> DEFINE Entries == [call : Calls, outcome : Verdicts]
<1>1. n + 1 \in DOMAIN ledger
  BY DEF AccountType, Spent
<1>2. ledger[n + 1] \in Entries
  <2>1. ledger \in Seq(Entries)
    BY DEF AccountType
  <2> HIDE DEF Entries
  <2> QED
    BY <1>1, <2>1
<1>3. ledger[n + 1].call = call /\ ledger[n + 1].outcome = "success"
  BY DEF Finalized, Found, Succeeded
<1>4. ExecutedIn(ledger, call)
  BY <1>1, <1>2, <1>3 DEF ExecutedIn
<1>5. ASSUME IsReveal(call) PROVE owner # Nobody
  <2>1. call.hash.owner \in Owners
    BY <1>5 DEF Calls, IsReveal, Hashes, CommitCall, ReservedCall, ClaimCall, SyncCall
  <2>2. HeldIn(ledger, call.hash.owner)
    BY <1>1, <1>3, <1>5 DEF HeldIn, Gives
  <2> QED
    BY <2>1, <2>2 DEF OwnerInv
<1> QED
  BY <1>4, <1>5

LEMMA CallStepMoves ==
  ASSUME Inv, NEW p \in Procs, DryRun(p) \/ Sign(p) \/ Send(p) \/ Watch(p)
  PROVE  Moves(p)
<1> USE DEF Inv
<1> DEFINE t == proc[p]
<1>1. t \in Terminals /\ t.pc \in Calling
  BY DEF TerminalsInv, DryRun, Sign, Send, Watch, Calling
<1>2. t.call \in Calls /\ CallFits(t, ledger) /\ t.job \in Jobs /\ t.job # NoJob
  BY <1>1, CallingJob
<1>3. t.nonce \in Nat /\ t.claims \in 0..(MaxClaims - 1)
  BY <1>1 DEF Terminals
<1>4. ASSUME NEW point \in Calling, GoTo(p, point) PROVE Moves(p)
  <2>1. proc' = [proc EXCEPT ![p] = [t EXCEPT !.pc = point, !.nonce = t.nonce,
                                              !.claims = t.claims]]
    BY <1>1, <1>4 DEF GoTo, Terminals
  <2> QED
    BY <1>1, <1>3, <2>1, CallingMoves
<1>5. CASE DryRun(p)
  <2>1. CASE Verdict(t.call) = "success"
    BY <1>4, <1>5, <2>1 DEF DryRun, Calling
  <2>2. CASE Verdict(t.call) = "labelSet"
    <3>1. ~IsReveal(t.call) /\ t.call.kind \notin {"commit", "transfer"}
      BY <1>2, <2>2 DEF Verdict, RevealVerdict, IsReveal, CallFits, CommitCall, ClaimCall,
                        SyncCall, TransferCall
    <3> QED
      BY <1>1, <1>5, <2>2, <3>1, AfterCallMoves DEF DryRun
  <2>3. CASE Verdict(t.call) \notin {"success", "labelSet"}
    BY <1>1, <1>5, <2>3, CallFailsMoves DEF DryRun
  <2> QED
    BY <2>1, <2>2, <2>3
<1>6. CASE Sign(p)
  <2>1. Len(ledger) \in Nat
    BY DEF AccountType
  <2>2. proc' = [proc EXCEPT ![p] = [t EXCEPT !.pc = "send", !.nonce = Len(ledger),
                                              !.claims = t.claims]]
    BY <1>1, <1>6 DEF Sign, Terminals
  <2> QED
    BY <1>1, <1>3, <2>1, <2>2, CallingMoves DEF Calling
<1>7. CASE Send(p)
  BY <1>1, <1>4, <1>7, CallFailsMoves DEF Send, Calling
<1>8. CASE Watch(p)
  <2>1. CASE CallFails(p)
    BY <1>1, <2>1, CallFailsMoves
  <2>2. CASE Spent(t.nonce) /\ Finalized(t.call, t.nonce) /\ AfterCall(p)
    BY <1>1, <1>2, <1>3, <2>2, FinalizedExecuted, AfterCallMoves
  <2> QED
    BY <1>8, <2>1, <2>2 DEF Watch
<1> QED
  BY <1>5, <1>6, <1>7, <1>8

\* A terminal at one of these points has a job.
LEMMA PointJob ==
  ASSUME TerminalsInv, NEW p \in Procs, proc[p].pc \in JobPoints
  PROVE  /\ proc[p] \in Terminals /\ Good(proc[p], ledger, owner)
         /\ proc[p].job \in Jobs /\ proc[p].job # NoJob
         /\ HashOf(proc[p].job) \in Hashes /\ proc[p].job.owner \in Owners
BY JobType DEF TerminalsInv, Good

LEMMA CommitMoves ==
  ASSUME TerminalsInv, NEW p \in Procs, proc[p].pc \in JobPoints,
         NEW call \in Calls, Invoke(p, call),
         \/ call = CommitCall(HashOf(proc[p].job))
         \/ IsReveal(call) /\ call.hash = HashOf(proc[p].job)
  PROVE  Moves(p)
<1> DEFINE u == [proc[p] EXCEPT !.pc = "dryrun", !.call = call]
<1>1. u.job = proc[p].job /\ u.call = call
  BY PointJob, Fields
<1>2. CallFits(u, ledger)
  BY <1>1 DEF CallFits
<1> QED
  BY <1>2, PointJob, InvokeMoves

LEMMA QuoteType ==
  ASSUME ContractType, NEW a \in Owners
  PROVE  BufferedPayment(Charge(price, a)) \in Nat
<1>1. Charge(price, a) \in Nat
  BY PricesAssumption DEF ContractType, Charge
<1>2. \A x, y \in Nat : x * y \in Nat
  OBVIOUS
<1>3. \A x \in Nat : x \div 100 \in Nat
  OBVIOUS
<1> QED
  BY <1>1, <1>2, <1>3, CountsAssumption DEF BufferedPayment

LEMMA IntentType ==
  ASSUME NEW i \in Intents \union {NoIntent}
  PROVE  /\ i.owner \in Owners /\ i.owner # Rival
         /\ i.dest \in Owners \union {Nobody} /\ i.governance \in BOOLEAN
<1>1. CASE i \in Intents
  <2>1. i \in [owner : Owners, dest : Owners \union {Nobody}, governance : BOOLEAN]
    BY <1>1, IntentsAssumption
  <2> QED
    BY <1>1, <2>1, IntentsAssumption
<1>2. CASE i = NoIntent
  BY <1>2, AccountsAssumption DEF NoIntent
<1> QED
  BY <1>1, <1>2

LEMMA CheckMoves ==
  ASSUME Inv, NEW p \in Procs, Check(p)
  PROVE  Moves(p)
<1> USE DEF Inv
<1> DEFINE t == proc[p]
           job == NewJob(t.intent)
<1>1. t \in Terminals /\ t.pc = "check"
  BY DEF TerminalsInv, Check
<1>2. CASE Fail(p)
  BY <1>2, FailMoves
<1>3. CASE /\ job.secret \in Secrets
           /\ proc' = [proc EXCEPT ![p] = [t EXCEPT !.pc = "dryrun", !.job = job,
                                                    !.call = CommitCall(HashOf(job))]]
  <2>1. t.intent \in Intents \union {NoIntent}
    BY <1>1 DEF Terminals
  <2>2. /\ t.intent.owner \in Owners /\ t.intent.owner # Rival
        /\ t.intent.dest \in Owners \union {Nobody} /\ t.intent.governance \in BOOLEAN
    BY <2>1, IntentType
  <2>3. job \in Jobs /\ job.owner # Rival
    BY <1>3, <2>2 DEF NewJob, Jobs
  <2>4. job # NoJob
    BY <2>3, AccountsAssumption DEF Jobs, NoJob
  <2>5. HashOf(job) \in Hashes
    BY <2>3, HashType
  <2>6. CommitCall(HashOf(job)) \in Calls
    BY <2>5 DEF Calls
  <2> DEFINE u == [t EXCEPT !.pc = "dryrun", !.job = job, !.call = CommitCall(HashOf(job))]
  <2> HIDE DEF job
  <2>7. u \in Terminals
    BY <1>1, <2>3, <2>6 DEF Terminals, ControlPoints
  <2>8. u.pc = "dryrun" /\ u.job = job /\ u.call = CommitCall(HashOf(job))
    BY <1>1, Fields
  <2>9. Good(u, ledger, owner)
    BY <2>3, <2>4, <2>7, <2>8 DEF Good, CallFits, Calling, Ended
  <2> QED
    BY <1>3, <2>7, <2>9 DEF Moves
<1> QED
  BY <1>2, <1>3 DEF Check

LEMMA RevealStepMoves ==
  ASSUME Inv, NEW p \in Procs, Wait(p) \/ Poll(p) \/ Quote(p) \/ Forget(p)
  PROVE  Moves(p) \/ proc' = proc
<1> USE DEF Inv
<1> DEFINE t == proc[p]
<1>1. t.pc \in JobPoints
  BY DEF Wait, Poll, Quote, Forget, JobPoints, ControlPoints, Ended
<1>3. CASE Wait(p)
  BY <1>1, <1>3, PointJob, PlainMoves, FailMoves DEF Wait, Plain
<1>4. CASE Poll(p)
  <2>1. CASE Fail(p)
    BY <2>1, FailMoves
  <2>2. CASE Reveal(p)
    <3>1. CASE t.job.governance
      <4>1. Invoke(p, ReservedCall(HashOf(t.job))) /\ ReservedCall(HashOf(t.job)) \in Calls
        BY <1>1, <2>2, <3>1, PointJob DEF Reveal, Calls
      <4>2. /\ IsReveal(ReservedCall(HashOf(t.job)))
            /\ ReservedCall(HashOf(t.job)).hash = HashOf(t.job)
        BY DEF IsReveal, ReservedCall
      <4> QED
        BY <1>1, <4>1, <4>2, CommitMoves
    <3>2. CASE ~t.job.governance
      BY <1>1, <2>2, <3>2, PointJob, PlainMoves DEF Reveal, Plain
    <3> QED
      BY <3>1, <3>2
  <2> QED
    BY <1>4, <2>1, <2>2 DEF Poll
<1>5. CASE Quote(p)
  <2> DEFINE h == HashOf(t.job)
             v == BufferedPayment(Charge(price, t.job.owner))
  <2>1. h \in Hashes /\ v \in Nat
    BY <1>1, PointJob, QuoteType
  <2>2. Invoke(p, RegisterCall(h, v))
    BY <1>5 DEF Quote
  <2> HIDE DEF h, v
  <2>3. /\ RegisterCall(h, v) \in Calls /\ IsReveal(RegisterCall(h, v))
        /\ RegisterCall(h, v).hash = h
    BY <2>1 DEF Calls, RegisterCall, IsReveal
  <2> QED
    BY <1>1, <2>2, <2>3, CommitMoves DEF h
<1>6. CASE Forget(p)
  <2>1. (GoTo(p, AfterForget(t)) \/ Erased(p, AfterForget(t))) /\ t.pc = "forget"
    BY <1>6 DEF Forget
  <2>2. CASE t.resuming
    <3>1. HeldIn(ledger, t.job.owner)
      BY <1>1, <2>1, <2>2, PointJob DEF Good
    <3> QED
      BY <1>1, <2>1, <2>2, <3>1, PointJob, HeldMoves DEF AfterForget
  <2>3. CASE ~t.resuming
    BY <1>1, <2>1, <2>3, PointJob, PlainMoves DEF AfterForget, Plain
  <2> QED
    BY <2>2, <2>3
<1> QED
  BY <1>3, <1>4, <1>5, <1>6

\* Saving the record: opening the file, and writing it.
LEMMA SaveMoves ==
  ASSUME Inv, NEW p \in Procs, Save(p) \/ Fill(p)
  PROVE  /\ Moves(p)
         /\ record' \in {proc[p].job, NoJob, record}
<1> USE DEF Inv
<1> DEFINE t == proc[p]
<1>1. t.pc \in {"save", "fill"} /\ t.pc \in JobPoints
  BY DEF Save, Fill, JobPoints, ControlPoints, Ended
<1>2. /\ t \in Terminals /\ Good(t, ledger, owner) /\ t.job # NoJob
      /\ proc \in [Procs -> Terminals]
  BY <1>1, PointJob DEF TerminalsInv
<1>3. ASSUME NEW point \in {"fill", "wait"}, NEW file \in Files,
             NEW u, u = [t EXCEPT !.pc = point, !.file = file],
             proc' = [proc EXCEPT ![p] = u] \/ Becomes(p, u)
      PROVE  Moves(p)
  <2>1. u \in Terminals
    BY <1>2, <1>3 DEF Terminals, ControlPoints
  <2>2. u.pc = point /\ u.job = t.job /\ u.resuming = t.resuming
    BY <1>2, <1>3, Fields
  <2>3. Good(u, ledger, owner)
    BY <1>1, <1>2, <2>1, <2>2 DEF Good, Calling, Ended
  <2> QED
    BY <1>3, <2>1, <2>3 DEF Moves
<1>4. ASSUME Warned(p) PROVE Moves(p)
  <2>1. PICK u : u = [t EXCEPT !.pc = "wait", !.file = "warned"]
    OBVIOUS
  <2>2. proc' = [proc EXCEPT ![p] = u]
    BY <1>2, <1>4, <2>1 DEF Warned
  <2> QED
    BY <1>3, <2>1, <2>2 DEF Files
<1>5. ASSUME NEW point \in {"fill", "wait"}, NEW file \in Files,
             NEW held \in SUBSET {"empty", "saved"},
             proc' = [Leaves(p, held) EXCEPT ![p].pc = point, ![p].file = file]
      PROVE  Moves(p)
  <2>1. Leaves(p, held)[p] = t
    BY DEF Leaves
  <2>2. proc' = [Leaves(p, held) EXCEPT ![p] = [t EXCEPT !.pc = point, !.file = file]]
    BY <1>5, <2>1 DEF Leaves
  <2> QED
    BY <1>2, <1>3, <2>2, LeavesBecomes
<1>6. CASE Save(p)
  <2>1. ASSUME proc' = [Leaves(p, {"saved"}) EXCEPT ![p].pc = "fill", ![p].file = "empty"]
        PROVE  Moves(p)
    BY <1>5, <2>1 DEF Files
  <2> QED
    BY <1>4, <1>6, <2>1 DEF Save
<1>7. CASE Fill(p)
  <2>1. ASSUME NEW held \in {{}, {"empty", "saved"}}, NEW file \in {"saved", "gone"},
               proc' = [Leaves(p, held) EXCEPT ![p].pc = "wait", ![p].file = file]
        PROVE  Moves(p)
    BY <1>5, <2>1 DEF Files
  <2> QED
    BY <1>4, <1>7, <2>1 DEF Fill, Written
<1> QED
  BY <1>6, <1>7 DEF Save, Fill, Written

LEMMA OwnerHeld ==
  ASSUME OwnerInv, NEW a \in Owners, a # Rival, owner = a
  PROVE  HeldIn(ledger, a)
BY AccountsAssumption DEF OwnerInv

\* A terminal that ends well.
LEMMA DoneMoves ==
  ASSUME TerminalsInv, NEW p \in Procs, proc[p].pc \in JobPoints,
         GoTo(p, "done") \/ Erased(p, "done"),
         Registers(proc[p]) =>
            /\ HeldIn(ledger, proc[p].job.owner)
            /\ \/ proc[p].resuming \/ proc[p].job.dest = Nobody
               \/ ExecutedIn(ledger, TransferCall(proc[p].job.dest))
  PROVE  Moves(p)
<1> DEFINE t == proc[p]
           u == [t EXCEPT !.pc = "done"]
<1>1. t \in Terminals /\ Good(t, ledger, owner)
  BY DEF TerminalsInv
<1>2. u \in Terminals
  BY <1>1 DEF Terminals, ControlPoints
<1>3. /\ u.pc = "done" /\ u.job = t.job /\ u.resuming = t.resuming /\ u.cmd = t.cmd
  BY <1>1, Fields
<1>4. Good(u, ledger, owner)
  BY <1>1, <1>2, <1>3 DEF Good, Registers, Calling, JobPoints, Ended
<1> QED
  BY <1>4, GoToMoves DEF ControlPoints

LEMMA AfterStepMoves ==
  ASSUME Inv, NEW p \in Procs, Verify(p) \/ LabelStore(p) \/ Transfer(p) \/ Moved(p)
  PROVE  Moves(p)
<1> USE DEF Inv
<1> DEFINE t == proc[p]
<1>1. t.pc \in JobPoints
  BY DEF Verify, LabelStore, Transfer, Moved, JobPoints, ControlPoints, Ended
<1>2. /\ t \in Terminals /\ Good(t, ledger, owner)
      /\ t.job \in Jobs /\ t.job # NoJob /\ t.job.owner \in Owners
  BY <1>1, PointJob
<1>3. CASE Fail(p)
  BY <1>3, FailMoves
<1>4. CASE Verify(p) /\ owner = t.job.owner
  <2>1. HeldIn(ledger, t.job.owner)
    BY <1>2, <1>4, OwnerHeld DEF Good
  <2>2. CASE t.resuming
    <3> DEFINE u == [t EXCEPT !.pc = "forget"]
    <3>1. u \in Terminals /\ u.pc = "forget" /\ u.job = t.job
      BY <1>2 DEF Terminals, ControlPoints
    <3>2. Good(u, ledger, owner)
      BY <1>2, <1>4, <2>1, <3>1, AccountsAssumption DEF Good, Calling, Ended
    <3> QED
      BY <1>4, <2>2, <3>2, GoToMoves DEF Verify, AfterVerify, ControlPoints
  <2>3. CASE ~t.resuming
    BY <1>2, <1>4, <2>1, <2>3, HeldMoves DEF Verify, AfterVerify
  <2> QED
    BY <2>2, <2>3
<1>5. CASE LabelStore(p)
  <2>1. HeldIn(ledger, t.job.owner)
    BY <1>2, <1>5 DEF LabelStore, Good
  <2>2. CASE GoTo(p, TransferOrDone(t))
    BY <1>2, <2>1, <2>2, HeldMoves
  <2>3. CASE Invoke(p, ClaimCall)
    <3> DEFINE u == [t EXCEPT !.pc = "dryrun", !.call = ClaimCall]
    <3>1. u.job = t.job /\ u.call = ClaimCall
      BY <1>2, Fields
    <3>2. CallFits(u, ledger) /\ ClaimCall \in Calls
      BY <2>1, <3>1 DEF CallFits, Calls
    <3> QED
      BY <1>2, <2>3, <3>2, InvokeMoves
  <2> QED
    BY <1>5, <2>2, <2>3 DEF LabelStore
<1>6. CASE Transfer(p) /\ Invoke(p, SyncCall)
  <2> DEFINE u == [t EXCEPT !.pc = "dryrun", !.call = SyncCall]
  <2>1. u.job = t.job /\ u.call = SyncCall
    BY <1>2, Fields
  <2>2. HeldIn(ledger, t.job.owner) /\ t.job.dest # Nobody
    BY <1>2, <1>6 DEF Transfer, Good
  <2>3. CallFits(u, ledger) /\ SyncCall \in Calls
    BY <2>1, <2>2 DEF CallFits, Calls
  <2> QED
    BY <1>2, <1>6, <2>3, InvokeMoves
<1>7. CASE Moved(p) /\ GoTo(p, "done")
  <2>1. HeldIn(ledger, t.job.owner) /\ ExecutedIn(ledger, TransferCall(t.job.dest))
    BY <1>2, <1>7 DEF Moved, Good
  <2> QED
    BY <1>1, <1>7, <2>1, DoneMoves
<1> QED
  BY <1>3, <1>4, <1>5, <1>6, <1>7 DEF Verify, Transfer, Moved

LEMMA ResumeStepMoves ==
  ASSUME Inv, NEW p \in Procs, Owned(p) \/ Status(p) \/ Clear(p) \/ Choose(p)
  PROVE  Moves(p)
<1> USE DEF Inv
<1> DEFINE t == proc[p]
<1>1. t.pc \in JobPoints
  BY DEF Owned, Status, Clear, Choose, JobPoints, ControlPoints, Ended
<1>2. /\ t \in Terminals /\ Good(t, ledger, owner)
      /\ t.job \in Jobs /\ t.job # NoJob /\ t.job.owner \in Owners
      /\ HashOf(t.job) \in Hashes /\ t.job.owner # Rival
  BY <1>1, PointJob DEF Good
<1>3. CASE Owned(p)
  <2>1. CASE GoTo(p, "status")
    BY <1>2, <2>1, PlainMoves DEF Plain
  <2>2. CASE (GoTo(p, "done") \/ Erased(p, "done")) /\ owner = t.job.owner
    <3>1. t.resuming /\ HeldIn(ledger, t.job.owner)
      BY <1>2, <1>3, <2>2, OwnerHeld DEF Owned, Good
    <3> QED
      BY <1>1, <2>2, <3>1, DoneMoves
  <2> QED
    BY <1>2, <1>3, <2>1, <2>2, AccountsAssumption DEF Owned, OwnerRead, RegisteredTo
<1>4. CASE Status(p)
  <2>1. CASE GoTo(p, "wait")
    BY <1>2, <2>1, PlainMoves DEF Plain
  <2>2. CASE Invoke(p, CommitCall(HashOf(t.job)))
    <3>1. CommitCall(HashOf(t.job)) \in Calls
      BY <1>2 DEF Calls
    <3> QED
      BY <1>1, <2>2, <3>1, CommitMoves
  <2> QED
    BY <1>4, <2>1, <2>2 DEF Status
<1>5. CASE (Clear(p) \/ Choose(p)) /\ (GoTo(p, "done") \/ Erased(p, "done") \/ GoTo(p, "choose"))
  <2>1. ~Registers(t)
    BY <1>2, <1>5 DEF Clear, Choose, Good
  <2>2. CASE GoTo(p, "done") \/ Erased(p, "done")
    BY <1>1, <2>1, <2>2, DoneMoves
  <2>3. CASE GoTo(p, "choose")
    <3> DEFINE u == [t EXCEPT !.pc = "choose"]
    <3>1. /\ u \in Terminals /\ u.pc = "choose" /\ u.job = t.job
          /\ u.cmd = t.cmd /\ u.resuming = t.resuming
      BY <1>2 DEF Terminals, ControlPoints
    <3>2. Good(u, ledger, owner)
      BY <1>2, <2>1, <3>1 DEF Good, Registers, Calling, Ended
    <3> QED
      BY <2>3, <3>2, GoToMoves DEF ControlPoints
  <2> QED
    BY <1>5, <2>2, <2>3
<1>6. CASE Fail(p)
  BY <1>6, FailMoves
<1>7. CASE Choose(p) /\ proc' = [proc EXCEPT ![p] = Resumed(t, t.job)]
  BY <1>2, <1>7, ResumedGood, CountsAssumption DEF Moves
<1> QED
  BY <1>3, <1>4, <1>5, <1>6, <1>7 DEF Clear, Choose

LEMMA StartMoves ==
  ASSUME Inv, NEW p \in Procs, Start(p)
  PROVE  Moves(p)
<1> USE DEF Inv
<1>1. ASSUME NEW cmd \in {"register", "retry", "clear"}
      PROVE  /\ Fresh(cmd) \in Terminals
             /\ Fresh(cmd).pc = "idle" /\ Fresh(cmd).cmd = cmd /\ Fresh(cmd).job = NoJob
             /\ Fresh(cmd).resuming = FALSE
  <2>1. 0 \in 0..(MaxClaims - 1) /\ 0 \in 0..MaxRetries
    BY CountsAssumption
  <2>2. IdleTerminal \in Terminals
    BY <2>1 DEF IdleTerminal, Terminals, ControlPoints, Files
  <2> QED
    BY <2>2 DEF Fresh, IdleTerminal, Terminals
<1>2. ASSUME NEW i \in Intents,
             proc' = [proc EXCEPT ![p] = [Fresh("register") EXCEPT !.pc = "check", !.intent = i,
                                                                   !.left = MaxRetries]]
      PROVE  Moves(p)
  <2> DEFINE u == [Fresh("register") EXCEPT !.pc = "check", !.intent = i, !.left = MaxRetries]
  <2>1. MaxRetries \in 0..MaxRetries
    BY CountsAssumption
  <2>2. u \in Terminals
    BY <1>1, <2>1 DEF Terminals, ControlPoints
  <2>3. u.pc = "check" /\ u.job = NoJob
    BY <1>1, Fields
  <2>4. Good(u, ledger, owner)
    BY <2>2, <2>3 DEF Good, Calling, JobPoints, Ended
  <2> QED
    BY <1>2, <2>2, <2>4 DEF Moves
<1>3. ASSUME record # NoJob, proc' = [proc EXCEPT ![p] = Loaded(Fresh("retry"), record)]
      PROVE  Moves(p)
  BY <1>1, <1>3, LoadedGood, CountsAssumption DEF RecordInv, Moves
<1>4. ASSUME record # NoJob,
             proc' = [proc EXCEPT ![p] = [Fresh("clear") EXCEPT !.pc = "clear", !.job = record,
                                                                !.file = "saved"]]
      PROVE  Moves(p)
  <2> DEFINE u == [Fresh("clear") EXCEPT !.pc = "clear", !.job = record, !.file = "saved"]
  <2>1. u \in Terminals
    BY <1>1 DEF Terminals, ControlPoints, RecordInv, Files
  <2>2. u.pc = "clear" /\ u.job = record /\ u.cmd = "clear" /\ u.resuming = FALSE
    BY <1>1 DEF Terminals
  <2>3. Good(u, ledger, owner)
    BY <1>4, <2>1, <2>2 DEF Good, Registers, RecordInv, Calling, Ended
  <2> QED
    BY <1>4, <2>1, <2>3 DEF Moves
<1> QED
  BY <1>2, <1>3, <1>4 DEF Start

LEMMA FaultCount ==
  ASSUME CountersInv, \/ UNCHANGED faults
                      \/ \E kind \in {"read", "disk", "lag", "timeout", "crash", "drop", "expiry",
                                      "rival", "price"} : Misfortune(kind)
  PROVE  faults' \in 0..MaxFaults
BY CountsAssumption DEF CountersInv, Misfortune

\* A step of a terminal leaves what has happened as it is, but for what it sends.
LEMMA TerminalInv ==
  ASSUME Inv, NEW p \in Procs, Moves(p) \/ proc' = proc,
         UNCHANGED <<ledger, contractVars>>, AccountType', PoolInv', RecordInv', CountersInv'
  PROVE  Inv'
<1> USE DEF Inv
<1>1. TerminalsInv'
  <2>1. CASE Moves(p)
    BY <2>1, MovesInv
  <2>2. CASE proc' = proc
    BY <2>2 DEF TerminalsInv
  <2> QED
    BY <2>1, <2>2
<1>2. ContractType' /\ OwnerInv'
  BY DEF ContractType, OwnerInv
<1> QED
  BY <1>1, <1>2

LEMMA SubmitInv ==
  ASSUME AccountType, PoolInv, NEW call \in Calls, NEW n \in Nat, NEW out,
         Submit(call, n, out), UNCHANGED ledger
  PROVE  AccountType' /\ PoolInv'
<1> HIDE DEF Calls
<1>1. AccountType'
  BY DEF AccountType, Submit
<1>2. CASE pool' = pool
  BY <1>1, <1>2 DEF PoolInv
<1>3. CASE /\ pool' = pool \union {[nonce |-> n, call |-> call]}
           /\ \A t \in pool : t.nonce = n => t.call = call
  <2>1. \A t \in pool : t.nonce = n => t = [nonce |-> n, call |-> call]
    BY <1>3 DEF AccountType
  <2> QED
    BY <1>1, <1>3, <2>1 DEF PoolInv
<1> QED
  BY <1>1, <1>2, <1>3 DEF Submit

LEMMA StepInv == ASSUME Inv, NEW p \in Procs, Step(p) PROVE Inv'
<1> USE DEF Inv
<1>1. CASE DryRun(p) \/ Sign(p) \/ Watch(p)
  <2>1. UNCHANGED <<ledger, pool, contractVars, record, drawn, commands, faults>>
    BY <1>1 DEF DryRun, Sign, Watch
  <2>2. AccountType' /\ PoolInv' /\ RecordInv' /\ CountersInv'
    BY <2>1 DEF AccountType, PoolInv, RecordInv, CountersInv
  <2> QED
    BY <1>1, <2>1, <2>2, CallStepMoves, TerminalInv
<1>2. CASE Send(p)
  <2>1. UNCHANGED <<ledger, contractVars, record, drawn, commands, faults>>
    BY <1>2 DEF Send
  <2>2. proc[p].call \in Calls /\ proc[p].nonce \in Nat
    BY <1>2, CallingJob DEF Send, Calling, TerminalsInv, Terminals
  <2>3. AccountType' /\ PoolInv'
    BY <1>2, <2>1, <2>2, SubmitInv DEF Send
  <2>4. RecordInv' /\ CountersInv'
    BY <2>1 DEF RecordInv, CountersInv
  <2> QED
    BY <1>2, <2>1, <2>3, <2>4, CallStepMoves, TerminalInv
<1>3. CASE Check(p)
  <2>1. UNCHANGED <<ledger, pool, contractVars, record, commands>>
    BY <1>3 DEF Check
  <2>2. drawn' \in Secrets \union {0}
    BY <1>3 DEF Check, NewJob, CountersInv
  <2>3. faults' \in 0..MaxFaults
    BY <1>3, FaultCount DEF Check, OwnerRead
  <2>4. AccountType' /\ PoolInv' /\ RecordInv' /\ CountersInv'
    BY <2>1, <2>2, <2>3 DEF AccountType, PoolInv, RecordInv, CountersInv
  <2> QED
    BY <1>3, <2>1, <2>4, CheckMoves, TerminalInv
<1>4. CASE Save(p) \/ Fill(p) \/ Wait(p) \/ Poll(p) \/ Quote(p) \/ Forget(p)
  <2>1. UNCHANGED <<ledger, pool, contractVars, drawn, commands>>
    BY <1>4 DEF Save, Fill, Wait, Poll, Quote, Forget
  <2>2. faults' \in 0..MaxFaults
    BY <1>4, FaultCount DEF Save, Fill, Wait, Poll, Quote, Forget
  <2>3. AccountType' /\ PoolInv' /\ CountersInv'
    BY <2>1, <2>2 DEF AccountType, PoolInv, CountersInv
  <2>4. RecordInv'
    <3>1. CASE record' \in {record, NoJob}
      BY <2>1, <3>1 DEF RecordInv
    <3>2. CASE (Save(p) \/ Fill(p)) /\ record' = proc[p].job
      <4>1. proc[p].pc \in {"save", "fill"} /\ proc[p].pc \in JobPoints
        BY <3>2 DEF Save, Fill, JobPoints, ControlPoints, Ended
      <4> QED
        BY <2>1, <3>2, <4>1, PointJob DEF Good, RecordInv
    <3>3. CASE Save(p) \/ Fill(p)
      BY <3>1, <3>2, <3>3, SaveMoves
    <3>4. CASE Wait(p) \/ Poll(p) \/ Quote(p) \/ Forget(p)
      BY <3>1, <3>4 DEF Wait, Poll, Quote, Forget, Erased
    <3> QED
      BY <1>4, <3>3, <3>4
  <2> QED
    BY <1>4, <2>1, <2>3, <2>4, RevealStepMoves, SaveMoves, TerminalInv
<1>5. CASE Verify(p) \/ LabelStore(p) \/ Transfer(p) \/ Moved(p)
  <2>1. UNCHANGED <<ledger, pool, contractVars, record, drawn, commands, faults>>
    BY <1>5 DEF Verify, LabelStore, Transfer, Moved
  <2>2. AccountType' /\ PoolInv' /\ RecordInv' /\ CountersInv'
    BY <2>1 DEF AccountType, PoolInv, RecordInv, CountersInv
  <2> QED
    BY <1>5, <2>1, <2>2, AfterStepMoves, TerminalInv
<1>6. CASE Owned(p) \/ Status(p) \/ Clear(p) \/ Choose(p)
  <2>1. UNCHANGED <<ledger, pool, contractVars, drawn, commands>> /\ record' \in {record, NoJob}
    BY <1>6 DEF Owned, Status, Clear, Choose, Erased
  <2>2. faults' \in 0..MaxFaults
    BY <1>6, FaultCount DEF Owned, Status, Clear, Choose, OwnerRead
  <2>3. AccountType' /\ PoolInv' /\ RecordInv' /\ CountersInv'
    BY <2>1, <2>2 DEF AccountType, PoolInv, RecordInv, CountersInv
  <2> QED
    BY <1>6, <2>1, <2>3, ResumeStepMoves, TerminalInv
<1> QED
  BY <1>1, <1>2, <1>3, <1>4, <1>5, <1>6 DEF Step

-----------------------------------------------------------------------------
(***************************************************************************)
(* The chain.                                                              *)
(***************************************************************************)
\* What has happened stays true.
LEMMA Grows ==
  ASSUME AccountType, NEW e, ledger' = Append(ledger, e)
  PROVE  /\ \A call : ExecutedIn(ledger, call) => ExecutedIn(ledger', call)
         /\ \A a : HeldIn(ledger, a) => HeldIn(ledger', a)
<1> DEFINE Entries == [call : Calls, outcome : Verdicts]
<1>1. ledger \in Seq(Entries)
  BY DEF AccountType
<1> HIDE DEF Entries
<1>2. \A i \in DOMAIN ledger : i \in DOMAIN ledger' /\ ledger'[i] = ledger[i]
  BY <1>1
<1>3. ASSUME NEW call, ExecutedIn(ledger, call) PROVE ExecutedIn(ledger', call)
  BY <1>2, <1>3 DEF ExecutedIn
<1>4. ASSUME NEW a, HeldIn(ledger, a) PROVE HeldIn(ledger', a)
  BY <1>2, <1>4 DEF HeldIn
<1> QED
  BY <1>3, <1>4

\* Nothing a terminal relies on is taken back by the chain.
LEMMA ChainKeepsTerminals ==
  ASSUME TerminalsInv, RecordInv, UNCHANGED nodeFrame,
         \A call : ExecutedIn(ledger, call) => ExecutedIn(ledger', call),
         \A a : HeldIn(ledger, a) => HeldIn(ledger', a),
         owner # Nobody => owner' # Nobody
  PROVE  TerminalsInv' /\ RecordInv'
<1>1. ASSUME NEW q \in Procs PROVE Good(proc[q], ledger', owner')
  <2>1. Good(proc[q], ledger, owner)
    BY DEF TerminalsInv
  <2>2. CallFits(proc[q], ledger) => CallFits(proc[q], ledger')
    BY DEF CallFits
  <2> QED
    BY <2>1, <2>2 DEF Good
<1> QED
  BY <1>1 DEF TerminalsInv, RecordInv

LEMMA VerdictType ==
  ASSUME NEW call \in Calls
  PROVE  Verdict(call) \in Verdicts
<1>1. RevealVerdict(call.hash) \in Verdicts
  BY DEF RevealVerdict, Verdicts
<1>2. call.kind \in {"commit", "register", "registerReserved", "claimLabelStore", "syncLabel",
                     "transfer"}
  BY DEF Calls, CommitCall, ReservedCall, ClaimCall, SyncCall
<1> HIDE DEF Calls
<1> QED
  BY <1>1, <1>2 DEF Verdict, Verdicts

\* Whom a call gives the name to.
LEMMA GiverType ==
  ASSUME NEW call \in Calls
  PROVE  /\ IsReveal(call) => call.hash \in Hashes /\ call.hash.owner \in Owners
         /\ call.kind = "transfer" => call.to \in Owners /\ call = TransferCall(call.to)
         /\ call.kind = "commit" => call.hash \in Hashes
BY DEF Calls, IsReveal, Hashes, CommitCall, ReservedCall, ClaimCall, SyncCall, TransferCall

LEMMA GivesOnly ==
  ASSUME NEW call, NEW a, Gives(call, a)
  PROVE  IsReveal(call) \/ call.kind = "transfer"
BY DEF Gives, TransferCall

LEMMA ExecuteInv ==
  ASSUME Inv, Execute, UNCHANGED <<nodeFrame, faults>>
  PROVE  Inv'
<1> USE DEF Inv
<1>1. PICK t \in pool :
         /\ t.nonce = Len(ledger)
         /\ Include(Verdict(t.call))
         /\ IF Verdict(t.call) = "success" THEN Effect(t.call) ELSE UNCHANGED contractVars
  BY DEF Execute
<1> DEFINE call  == t.call
           entry == [call |-> call, outcome |-> Verdict(call)]
<1>2. ledger' = Append(ledger, entry) /\ pool' = pool \ {t}
  BY <1>1 DEF Include, PoolInv
<1>3. call \in Calls
  BY DEF AccountType
<1>4. Verdict(call) \in Verdicts
  BY <1>3, VerdictType
<1>5. AccountType' /\ PoolInv' /\ CountersInv'
  BY <1>2, <1>3, <1>4 DEF AccountType, PoolInv, CountersInv
<1>6. /\ \A c : ExecutedIn(ledger, c) => ExecutedIn(ledger', c)
      /\ \A a : HeldIn(ledger, a) => HeldIn(ledger', a)
  BY <1>2, Grows
<1>7. ContractType'
  <2>1. CASE Verdict(call) = "success"
    <3>1. owner' \in Owners \union {Nobody}
      BY <1>1, <1>3, <2>1, GiverType DEF Effect, ContractType
    <3>2. age' \in [Hashes -> Ages]
      BY <1>1, <1>3, <2>1, GiverType DEF Effect, AgeAfter, ContractType, Ages
    <3> QED
      BY <1>1, <2>1, <3>1, <3>2 DEF Effect, ContractType
  <2>2. CASE Verdict(call) # "success"
    BY <1>1, <2>2 DEF ContractType
  <2> QED
    BY <2>1, <2>2
<1>8. entry = ledger'[Len(ledger) + 1] /\ Len(ledger) + 1 \in DOMAIN ledger'
  BY <1>2 DEF AccountType
<1>9. ASSUME NEW a, HeldIn(ledger', a)
      PROVE  HeldIn(ledger, a) \/ (Verdict(call) = "success" /\ Gives(call, a))
  <2>1. PICK i \in DOMAIN ledger' : ledger'[i].outcome = "success" /\ Gives(ledger'[i].call, a)
    BY <1>9 DEF HeldIn
  <2>2. (i \in DOMAIN ledger /\ ledger'[i] = ledger[i]) \/ i = Len(ledger) + 1
    BY <1>2 DEF AccountType
  <2> QED
    BY <1>8, <2>1, <2>2 DEF HeldIn
<1>10. CASE Verdict(call) = "success" /\ (IsReveal(call) \/ call.kind = "transfer")
  <2>1. owner' \in Owners /\ Gives(call, owner')
    BY <1>1, <1>3, <1>10, GiverType DEF Effect, Gives, IsReveal
  <2>2. HeldIn(ledger', owner')
    BY <1>8, <1>10, <2>1 DEF HeldIn
  <2>3. owner' # Nobody
    BY <2>1, AccountsAssumption
  <2>4. OwnerInv'
    BY <2>2, <2>3 DEF OwnerInv
  <2> QED
    BY <1>5, <1>6, <1>7, <2>3, <2>4, ChainKeepsTerminals
<1>11. CASE ~(Verdict(call) = "success" /\ (IsReveal(call) \/ call.kind = "transfer"))
  <2>1. owner' = owner
    BY <1>1, <1>11 DEF Effect
  <2>2. \A a : HeldIn(ledger', a) => HeldIn(ledger, a)
    BY <1>9, <1>11, GivesOnly
  <2>3. OwnerInv'
    BY <1>6, <2>1, <2>2 DEF OwnerInv
  <2> QED
    BY <1>5, <1>6, <1>7, <2>1, <2>3, ChainKeepsTerminals
<1> QED
  BY <1>10, <1>11

LEMMA ChainInv == ASSUME Inv, Chain PROVE Inv'
<1> USE DEF Inv
<1>1. CASE Execute
  BY <1>1, ExecuteInv DEF Chain
<1>2. CASE Ripens /\ UNCHANGED accountVars /\ UNCHANGED <<nodeFrame, faults>>
  <2>1. ContractType'
    BY <1>2 DEF Ripens, ContractType, Ages
  <2> QED
    BY <1>2, <2>1 DEF Ripens, AccountType, CountersInv, PoolInv, OwnerInv, RecordInv, TerminalsInv
<1> QED
  BY <1>1, <1>2 DEF Chain

LEMMA TroubleInv == ASSUME Inv, Trouble PROVE Inv'
<1> USE DEF Inv
<1>1. ASSUME NEW p \in Procs, TimesOut(p) \/ ReadFails(p) \/ Crash(p) PROVE Inv'
  <2>1. UNCHANGED <<ledger, pool, contractVars, record, drawn, commands>>
    BY <1>1 DEF TimesOut, ReadFails, Crash
  <2>2. faults' \in 0..MaxFaults
    BY <1>1, FaultCount DEF TimesOut, ReadFails, Crash
  <2>3. AccountType' /\ PoolInv' /\ RecordInv' /\ CountersInv'
    BY <2>1, <2>2 DEF AccountType, PoolInv, RecordInv, CountersInv
  <2>4. CASE TimesOut(p) /\ Unsaved(proc[p])
    <3> DEFINE v == [proc[p] EXCEPT !.file = "warned"]
    <3>1. proc[p] \in Terminals /\ Good(proc[p], ledger, owner)
      BY DEF TerminalsInv
    <3>2. v \in Terminals /\ v.job = proc[p].job
      BY <3>1 DEF Terminals, Files
    <3>3. FailAs(p, v)
      BY <2>4 DEF TimesOut
    <3>4. v.job # NoJob => v.job.owner # Rival
      BY <3>1, <3>2 DEF Good
    <3> QED
      BY <2>1, <2>3, <3>2, <3>3, <3>4, FailAsMoves, TerminalInv
  <2>5. Moves(p) \/ (TimesOut(p) /\ Unsaved(proc[p]))
    BY <1>1, CallFailsMoves, FailMoves, EndMoves DEF TimesOut, ReadFails, Crash, Calling
  <2> QED
    BY <2>1, <2>3, <2>4, <2>5, TerminalInv
<1>2. CASE Drop /\ Misfortune("drop") /\ UNCHANGED <<contractVars, nodeFrame>>
  <2>1. ledger' = ledger /\ pool' \subseteq pool
    BY <1>2 DEF Drop
  <2>2. AccountType' /\ PoolInv'
    BY <2>1 DEF AccountType, PoolInv
  <2>3. CountersInv'
    BY <1>2, FaultCount DEF CountersInv
  <2> QED
    BY <1>2, <2>1, <2>2, <2>3 DEF ContractType, OwnerInv, RecordInv, TerminalsInv
<1>3. CASE Expires /\ Misfortune("expiry") /\ UNCHANGED <<accountVars, nodeFrame>>
  <2>1. ContractType'
    BY <1>3 DEF Expires, ContractType, Ages
  <2>2. CountersInv'
    BY <1>3, FaultCount DEF CountersInv
  <2> QED
    BY <1>3, <2>1, <2>2 DEF Expires, AccountType, PoolInv, OwnerInv, RecordInv, TerminalsInv
<1>4. CASE RivalRegisters /\ Misfortune("rival") /\ UNCHANGED <<accountVars, nodeFrame>>
  <2>1. owner' = Rival /\ owner' # Nobody /\ ledger' = ledger
    BY <1>4, AccountsAssumption DEF RivalRegisters
  <2>2. ContractType' /\ OwnerInv'
    BY <1>4, <2>1, AccountsAssumption DEF RivalRegisters, ContractType, OwnerInv
  <2>3. CountersInv'
    BY <1>4, FaultCount DEF CountersInv
  <2>4. TerminalsInv' /\ RecordInv'
    BY <1>4, <2>1, ChainKeepsTerminals
  <2> QED
    BY <1>4, <2>2, <2>3, <2>4 DEF AccountType, PoolInv
<1>5. CASE PriceMoves /\ Misfortune("price") /\ UNCHANGED <<accountVars, nodeFrame>>
  <2>1. ContractType'
    BY <1>5 DEF PriceMoves, ContractType
  <2>2. CountersInv'
    BY <1>5, FaultCount DEF CountersInv
  <2> QED
    BY <1>5, <2>1, <2>2 DEF PriceMoves, AccountType, PoolInv, OwnerInv, RecordInv, TerminalsInv
<1> QED
  BY <1>1, <1>2, <1>3, <1>4, <1>5 DEF Trouble

-----------------------------------------------------------------------------
LEMMA InitInv == Init => Inv
<1> SUFFICES ASSUME Init PROVE Inv
  OBVIOUS
<1> USE DEF Init, ContractsInit
<1>1. AccountType /\ PoolInv
  BY DEF AccountType, PoolInv
<1>2. ContractType
  BY DEF ContractType, Ages
<1>3. CountersInv
  BY CountsAssumption DEF CountersInv
<1>4. OwnerInv
  BY DEF OwnerInv, HeldIn
<1>5. RecordInv
  BY DEF RecordInv
<1>6. TerminalsInv
  <2>1. 0 \in 0..(MaxClaims - 1) /\ 0 \in 0..MaxRetries
    BY CountsAssumption
  <2>2. IdleTerminal \in Terminals
    BY <2>1 DEF IdleTerminal, Terminals, ControlPoints, Files
  <2>3. IdleTerminal.pc = "idle" /\ IdleTerminal.job = NoJob
    BY DEF IdleTerminal
  <2>4. Good(IdleTerminal, ledger, owner)
    BY <2>2, <2>3 DEF Good, Calling, JobPoints, Ended
  <2> QED
    BY <2>2, <2>4 DEF TerminalsInv
<1> QED
  BY <1>1, <1>2, <1>3, <1>4, <1>5, <1>6 DEF Inv

LEMMA NextInv == Inv /\ [Next]_vars => Inv'
<1> SUFFICES ASSUME Inv, [Next]_vars PROVE Inv'
  OBVIOUS
<1> USE DEF Inv
<1>1. ASSUME NEW p \in Procs, Start(p) PROVE Inv'
  <2>1. UNCHANGED <<ledger, pool, contractVars, record, drawn, faults>>
    BY <1>1 DEF Start
  <2>2. commands' = commands + 1 /\ commands < MaxCommands
    BY <1>1 DEF Start
  <2>3. commands' \in 0..MaxCommands
    BY <2>2, CountsAssumption DEF CountersInv
  <2>4. AccountType' /\ PoolInv' /\ RecordInv' /\ CountersInv'
    BY <2>1, <2>3 DEF AccountType, PoolInv, RecordInv, CountersInv
  <2> QED
    BY <1>1, <2>1, <2>4, StartMoves, TerminalInv
<1>2. CASE UNCHANGED vars
  <2>1. UNCHANGED <<ledger, pool, contractVars, record, proc, drawn, commands, faults>>
    BY <1>2 DEF vars
  <2> QED
    BY <2>1 DEF AccountType, ContractType, CountersInv, PoolInv, OwnerInv, RecordInv, TerminalsInv
<1> QED
  BY <1>1, <1>2, StepInv, ChainInv, TroubleInv DEF Next, Quiet

\* What every terminal relies on at its control point holds there, whatever the other
\* terminals, the chain and other registrants do: the inductive invariant.
THEOREM Invariance == Spec => []Inv
BY InitInv, NextInv, PTL DEF Spec

\* Every variable stays within its type: no secret, call or retry is taken that does
\* not exist, and every terminal at a point that needs a job has one.
THEOREM TypeCorrect == Spec => []TypeOK
<1>1. Inv => TypeOK
  BY DEF Inv, TypeOK, CountersInv, RecordInv, TerminalsInv
<1> QED
  BY <1>1, Invariance, PTL

\* However many terminals write, delete and lose the record, what is on disk can be
\* revealed: persistCommitment runs behind a finalized commitment of the same secret.
THEOREM RecordsCommitted == Spec => []RecordIsCommitted
<1>1. Inv => RecordIsCommitted
  BY Translation DEF Inv, RecordInv, RecordIsCommitted
<1> QED
  BY <1>1, Invariance, PTL

\* Success is reported only for a name that was the job's owner's, whatever rivals,
\* failing reads and other terminals do in between.
THEOREM SuccessMeansHeld == Spec => []DoneMeansHeld
<1>1. Inv => DoneMeansHeld
  BY Translation DEF Inv, TerminalsInv, Good, DoneMeansHeld
<1> QED
  BY <1>1, Invariance, PTL

\* A registration that reports success without having resumed has made its transfer.
THEOREM TransfersMade == Spec => []TransferMade
<1>1. Inv => TransferMade
  BY Translation DEF Inv, TerminalsInv, Good, TransferMade
<1> QED
  BY <1>1, Invariance, PTL

LEMMA StepKeepsRecord ==
  ASSUME Inv, [Next]_vars, record # NoJob, record' # record
  PROVE  owner # Nobody \/ \E p \in Procs : Discards(p) \/ Replaces(p)
<1> USE DEF Inv
<1>1. PICK p \in Procs : Save(p) \/ Fill(p) \/ Forget(p) \/ Owned(p) \/ Clear(p) \/ Choose(p)
  BY DEF Next, Step, Chain, Trouble, Quiet, vars, Start, Check, DryRun, Sign, Send, Watch,
         Wait, Poll, Quote, Verify, LabelStore, Transfer, Moved, Status, TimesOut, ReadFails,
         Crash
<1>2. proc[p].pc \in JobPoints
  BY <1>1 DEF Save, Fill, Forget, Owned, Clear, Choose, JobPoints, ControlPoints, Ended
<1>3. CASE Save(p) \/ Fill(p)
  <2>1. proc[p].pc \in {"save", "fill"}
    BY <1>3 DEF Save, Fill
  <2> QED
    BY <1>2, <2>1, PointJob, Translation DEF Good, Replaces
<1>4. CASE Forget(p)
  BY <1>2, <1>4, PointJob DEF Forget, Good
<1>5. CASE Owned(p) \/ Clear(p)
  BY <1>2, <1>5, PointJob, AccountsAssumption DEF Owned, Clear, OwnerRead, RegisteredTo
<1>6. CASE Choose(p)
  <2>1. Erased(p, "done") /\ proc[p].pc = "choose"
    BY <1>6 DEF Choose
  <2>2. proc[p] \in Terminals /\ proc \in [Procs -> Terminals]
    BY <1>2, PointJob DEF TerminalsInv
  <2>3. proc'[p].pc = "done"
    <3>1. proc'[p] = [proc[p] EXCEPT !.pc = "done"]
      BY <2>1, <2>2, ErasedBecomes DEF Becomes
    <3> QED
      BY <2>2, <3>1 DEF Terminals
  <2> QED
    BY <2>1, <2>3 DEF Discards
<1> QED
  BY <1>1, <1>3, <1>4, <1>5, <1>6

\* A record on disk changes, while the name is free, only when the user discards it or
\* under persistCommitment of another commitment, which was executed by then: the file
\* is never emptied for a commitment that may yet fail.
THEOREM RecordsKept == Spec => RecordKept
<1>1. Inv /\ [Next]_vars =>
        [record # NoJob /\ record' # record =>
            owner # Nobody \/ \E p \in Procs : Discards(p) \/ Replaces(p)]_vars
  BY StepKeepsRecord
<1> QED
  BY <1>1, Invariance, PTL DEF Spec, RecordKept

-----------------------------------------------------------------------------
(***************************************************************************)
(* Where the secret of a commitment is: what each terminal knows of its    *)
(* own, for any number of terminals that share account and record.         *)
(***************************************************************************)
Mine(t) == CommitCall(HashOf(t.job))

\* The secret is nowhere but in its terminal.
Own(t) == t.file = "none" /\ t.job # NoJob

\* The commitment is neither on the chain nor on its way there.
Unsent(t) ==
    /\ \A i \in DOMAIN ledger : ledger[i] # [call |-> Mine(t), outcome |-> "success"]
    /\ \A s \in pool : s.call # Mine(t)

\* It is there under the watched nonce only.
Sent(t) ==
    /\ \A i \in DOMAIN ledger :
          ledger[i] = [call |-> Mine(t), outcome |-> "success"] => i = t.nonce + 1
    /\ \A s \in pool : s.call = Mine(t) => s.nonce = t.nonce

\* Before its record is written a terminal only commits, and knows what became of it.
Unwritten(t) ==
    /\ ~t.resuming
    /\ t.pc \in Calling \union {"idle", "check", "save", "failed", "down"}
    /\ t.pc \in {"idle", "check"} => t.job = NoJob
    /\ t.pc \in Calling => t.call = Mine(t)
    /\ t.job # NoJob /\ t.pc \in {"dryrun", "sign", "send", "failed"} => Unsent(t)
    /\ t.job # NoJob /\ t.pc = "watch" => Sent(t)

Kept(t) ==
    /\ t.job.secret <= drawn
    /\ t.pc \in {"send", "watch"} => t.nonce <= Len(ledger)
    /\ t.pc = "check" => t.file = "none"
    /\ t.file = "none" => Unwritten(t)
    /\ t.file = "empty" => t.pc \in {"fill", "down"}
    /\ t.file = "saved" /\ t.pc # "done" /\ owner = Nobody => t.job = record

\* A secret is new when it is drawn.
IsOld(call) == call.kind = "commit" => call.hash.secret <= drawn
SecretsInv ==
    /\ \A i \in DOMAIN ledger : IsOld(ledger[i].call)
    /\ \A s \in pool : IsOld(s.call)
    /\ record.secret <= drawn

\* What is executed leaves the pool.
PoolAhead == \A s \in pool : s.nonce >= Len(ledger)

\* What is nowhere but in one terminal is in no other and not on disk.
Distinct == \A q \in Procs : Own(proc[q]) =>
    /\ record.secret # proc[q].job.secret
    /\ \A r \in Procs \ {q} : proc[r].job.secret # proc[q].job.secret

KeptInv == SecretsInv /\ PoolAhead /\ Distinct /\ \A q \in Procs : Kept(proc[q])

(***************************************************************************)
(* One terminal moves, by its own knowledge and the record it sees.        *)
(***************************************************************************)
Follows(t, u) ==
    /\ Own(u) => Own(t) /\ u.job = t.job
    /\ u.job \in {t.job, record, NoJob}

KeptMoves(p) == \E u \in Terminals : /\ proc' = [proc EXCEPT ![p] = u]
                                     /\ Kept(u) /\ Follows(proc[p], u)

LEMMA SecretTypes ==
  ASSUME Inv
  PROVE  /\ drawn \in Nat /\ record.secret \in Nat /\ NoJob.secret = 0
         /\ \A q \in Procs : /\ proc[q] \in Terminals /\ proc[q].job.secret \in Nat
                             /\ Own(proc[q]) => proc[q].job.secret # 0
<1>1. /\ drawn \in Nat /\ NoJob.secret = 0
      /\ \A job \in Jobs : job.secret \in Nat \ {0}
  BY SecretsAssumption, CountsAssumption DEF Inv, CountersInv, NoJob, Jobs
<1>2. record.secret \in Nat
  BY <1>1 DEF Inv, RecordInv
<1>3. ASSUME NEW q \in Procs
      PROVE  /\ proc[q] \in Terminals /\ proc[q].job.secret \in Nat
             /\ Own(proc[q]) => proc[q].job.secret # 0
  <2>1. proc[q] \in Terminals /\ proc[q].job \in Jobs \union {NoJob}
    BY DEF Inv, TerminalsInv, Terminals
  <2> QED
    BY <1>1, <2>1 DEF Own
<1> QED
  BY <1>1, <1>2, <1>3

\* Nothing but the terminal itself changes.
LEMMA KeptMovesInv ==
  ASSUME Inv, KeptInv, NEW p \in Procs, KeptMoves(p),
         UNCHANGED <<ledger, pool, owner, record, drawn>>
  PROVE  KeptInv'
<1>1. PICK u \in Terminals : /\ proc' = [proc EXCEPT ![p] = u]
                             /\ Kept(u) /\ Follows(proc[p], u)
  BY DEF KeptMoves
<1>2. proc \in [Procs -> Terminals]
  BY DEF Inv, TerminalsInv
<1>3. proc'[p] = u /\ \A q \in Procs \ {p} : proc'[q] = proc[q]
  BY <1>1, <1>2
<1>4. SecretsInv' /\ PoolAhead'
  BY DEF KeptInv, SecretsInv, PoolAhead, IsOld
<1>5. \A q \in Procs : Kept(proc'[q])
  BY <1>1, <1>3 DEF KeptInv
<1>6. \A q \in Procs : Kept(proc[q])'
  BY <1>5 DEF Kept, Unwritten, Unsent, Sent, Mine
<1>7. Distinct'
  <2> SUFFICES ASSUME NEW q \in Procs, Own(proc'[q])
               PROVE  /\ record.secret # proc'[q].job.secret
                      /\ \A r \in Procs \ {q} : proc'[r].job.secret # proc'[q].job.secret
    BY DEF Distinct, Own
  <2>1. Own(proc[q]) /\ proc'[q].job = proc[q].job
    BY <1>1, <1>3 DEF Follows
  <2>2. /\ record.secret # proc[q].job.secret /\ NoJob.secret # proc[q].job.secret
        /\ \A r \in Procs \ {q} : proc[r].job.secret # proc[q].job.secret
    BY <2>1, SecretTypes DEF KeptInv, Distinct
  <2>3. \A r \in Procs \ {q} : proc'[r].job \in {proc[r].job, record, NoJob}
    BY <1>1, <1>3 DEF Follows
  <2> QED
    BY <2>1, <2>2, <2>3
<1> QED
  BY <1>4, <1>6, <1>7 DEF KeptInv

\* An error: the command goes on from the record, starts afresh, or fails.
LEMMA FailAsKept ==
  ASSUME Inv, KeptInv, NEW p \in Procs, NEW v \in Terminals, FailAs(p, v),
         v.job = proc[p].job,
         v.file = "none" =>
            /\ proc[p].file = "none" /\ ~v.resuming
            /\ v.job # NoJob => Unsent(v),
         v.file # "empty",
         v.file = "saved" /\ owner = Nobody => v.job = record
  PROVE  KeptMoves(p)
<1> USE CountsAssumption
<1>1. PICK seen \in RecordsRead : proc' = [proc EXCEPT ![p] = Thrown(v, seen)]
  BY DEF FailAs
<1>2. seen \in {record, NoJob}
  BY DEF RecordsRead
<1>3. /\ proc[p].job.secret <= drawn /\ record.secret <= drawn /\ NoJob.secret <= drawn
      /\ record \in Jobs \union {NoJob} /\ (record # NoJob => record.owner # Rival)
  BY SecretTypes DEF KeptInv, Kept, SecretsInv, Inv, RecordInv
<1>4. ASSUME NEW t \in Terminals, proc' = [proc EXCEPT ![p] = Retried(t, seen)]
      PROVE  KeptMoves(p)
  <2>1. CASE seen # NoJob
    <3>1. PICK u : u = Loaded(t, record)
      OBVIOUS
    <3>2. u \in Terminals /\ u.pc = "owned" /\ u.job = record /\ u.file = "saved"
      BY <1>2, <1>3, <2>1, <3>1, LoadedGood
    <3>3. Kept(u) /\ Follows(proc[p], u)
      BY <1>3, <3>2 DEF Kept, Follows, Own
    <3>4. proc' = [proc EXCEPT ![p] = u]
      BY <1>2, <1>4, <2>1, <3>1 DEF Retried
    <3> QED
      BY <3>2, <3>3, <3>4 DEF KeptMoves
  <2>2. CASE seen = NoJob
    <3>1. PICK u : u = Afresh(t)
      OBVIOUS
    <3>2. /\ u \in Terminals /\ u.pc = "check" /\ u.job = NoJob /\ u.file = "none"
          /\ u.resuming = FALSE
      <4>1. u \in Terminals
        BY <3>1, AfreshGood
      <4>2. Rewound(t) \in Terminals
        BY RewoundType
      <4> QED
        BY <3>1, <4>1, <4>2, Fields DEF Afresh
    <3>3. Kept(u) /\ Follows(proc[p], u)
      BY <1>3, <3>2 DEF Kept, Unwritten, Calling, Follows, Own
    <3>4. proc' = [proc EXCEPT ![p] = u]
      BY <1>4, <2>2, <3>1 DEF Retried
    <3> QED
      BY <3>2, <3>3, <3>4 DEF KeptMoves
  <2> QED
    BY <2>1, <2>2
<1>5. CASE v.left > 0
  <2> DEFINE t == [v EXCEPT !.left = @ - 1]
  <2>1. t \in Terminals
    BY <1>5 DEF Terminals
  <2>2. proc' = [proc EXCEPT ![p] = Retried(t, seen)]
    BY <1>1, <1>5 DEF Thrown
  <2> HIDE DEF t
  <2> QED
    BY <1>4, <2>1, <2>2
<1>6. CASE ~(v.left > 0)
  <2>1. PICK u : u = [v EXCEPT !.pc = "failed", !.call = NoCall]
    OBVIOUS
  <2>2. u \in Terminals
    BY <2>1 DEF Terminals, ControlPoints
  <2>3. /\ u.pc = "failed" /\ u.job = v.job /\ u.file = v.file /\ u.resuming = v.resuming
    BY <2>1, Fields
  <2>4. Unsent(v) => Unsent(u)
    BY <2>3 DEF Unsent, Mine
  <2>5. Kept(u)
    BY <1>3, <2>3, <2>4 DEF Kept, Unwritten, Calling
  <2>6. Follows(proc[p], u)
    BY <2>3 DEF Follows, Own
  <2> QED
    BY <1>1, <1>6, <2>1, <2>2, <2>5, <2>6 DEF KeptMoves, Thrown
<1> QED
  BY <1>5, <1>6

LEMMA FailKept ==
  ASSUME Inv, KeptInv, NEW p \in Procs, Fail(p), proc[p].pc \notin {"fill", "down", "done"},
         Own(proc[p]) => Unsent(proc[p])
  PROVE  KeptMoves(p)
<1>1. proc[p] \in Terminals /\ Kept(proc[p])
  BY DEF Inv, TerminalsInv, KeptInv
<1>2. FailAs(p, proc[p])
  BY DEF Fail
<1> QED
  BY <1>1, <1>2, FailAsKept DEF Kept, Unwritten, Own

Beyond == {"wait", "poll", "quote", "forget", "verify", "store", "transfer", "moved", "owned",
           "status", "clear", "choose"}

\* Where the secret is written the control flow takes none anywhere.
LEMMA GoesOn ==
  ASSUME Inv, KeptInv, NEW p \in Procs, NEW u \in Terminals, proc' = [proc EXCEPT ![p] = u],
         proc[p].file \notin {"none", "empty"}, proc[p].pc # "done",
         u.job = proc[p].job, u.file = proc[p].file,
         u.pc \notin {"check", "send", "watch"}
  PROVE  KeptMoves(p)
<1>1. Kept(proc[p])
  BY DEF KeptInv
<1>2. Kept(u)
  BY <1>1 DEF Kept
<1>3. Follows(proc[p], u)
  BY DEF Follows, Own
<1> QED
  BY <1>2, <1>3 DEF KeptMoves

LEMMA GoToKept ==
  ASSUME Inv, KeptInv, NEW p \in Procs, proc[p].file \notin {"none", "empty"}, proc[p].pc # "done",
         NEW point \in ControlPoints \ {"check", "send", "watch"}, GoTo(p, point)
  PROVE  KeptMoves(p)
<1>1. proc[p] \in Terminals
  BY DEF Inv, TerminalsInv
<1>2. PICK u : u = [proc[p] EXCEPT !.pc = point]
  OBVIOUS
<1>3. u \in Terminals
  BY <1>1, <1>2 DEF Terminals
<1>4. u.pc = point /\ u.job = proc[p].job /\ u.file = proc[p].file
  BY <1>1, <1>2, Fields
<1> QED
  BY <1>2, <1>3, <1>4, GoesOn DEF GoTo

LEMMA InvokeKept ==
  ASSUME Inv, KeptInv, NEW p \in Procs, proc[p].file \notin {"none", "empty"}, proc[p].pc # "done",
         NEW call \in Calls, Invoke(p, call)
  PROVE  KeptMoves(p)
<1>1. proc[p] \in Terminals
  BY DEF Inv, TerminalsInv
<1>2. PICK u : u = [proc[p] EXCEPT !.pc = "dryrun", !.call = call]
  OBVIOUS
<1>3. u \in Terminals
  BY <1>1, <1>2 DEF Terminals, ControlPoints
<1>4. u.pc = "dryrun" /\ u.job = proc[p].job /\ u.file = proc[p].file
  BY <1>1, <1>2, Fields
<1> QED
  BY <1>2, <1>3, <1>4, GoesOn DEF Invoke

\* A terminal whose secret is not written yet calls nothing but its commitment.
LEMMA WrittenFile ==
  ASSUME Inv, KeptInv, NEW p \in Procs,
         proc[p].pc \in Beyond \/ (proc[p].pc \in Calling /\ proc[p].call # Mine(proc[p]))
  PROVE  proc[p].file \notin {"none", "empty"} /\ proc[p].pc \notin {"fill", "down", "done"}
<1>1. Kept(proc[p])
  BY DEF KeptInv
<1> QED
  BY <1>1 DEF Kept, Unwritten, Beyond, Calling

LEMMA CallFailsKept ==
  ASSUME Inv, KeptInv, NEW p \in Procs, CallFails(p), proc[p].pc \in Calling,
         Own(proc[p]) => Unsent(proc[p])
  PROVE  KeptMoves(p)
<1> DEFINE t == proc[p]
<1>1. t \in Terminals
  BY DEF Inv, TerminalsInv
<1>2. CASE t.call.kind # "claimLabelStore"
  BY <1>2, FailKept DEF CallFails, Calling
<1>3. CASE t.call.kind = "claimLabelStore"
  <2>1. t.call # Mine(t)
    BY <1>3 DEF Mine, CommitCall
  <2>2. t.file \notin {"none", "empty"} /\ t.pc # "done"
    BY <2>1, WrittenFile DEF Calling
  <2>3. CASE ClaimAgain(t)
    <3>1. PICK u : u = [t EXCEPT !.pc = "dryrun", !.claims = @ + 1]
      OBVIOUS
    <3>2. t.claims + 1 \in 0..(MaxClaims - 1)
      BY <1>1, <2>3, CountsAssumption DEF ClaimAgain, Terminals
    <3>3. u \in Terminals
      BY <1>1, <3>1, <3>2 DEF Terminals, ControlPoints
    <3>4. u.pc = "dryrun" /\ u.job = t.job /\ u.file = t.file
      BY <1>1, <3>1, Fields
    <3>5. proc' = [proc EXCEPT ![p] = u]
      BY <1>3, <2>3, <3>1 DEF CallFails
    <3> QED
      BY <2>2, <3>3, <3>4, <3>5, GoesOn
  <2>4. CASE ~ClaimAgain(t)
    <3>1. AfterClaims(t) \in ControlPoints \ {"check", "send", "watch"} /\ GoTo(p, AfterClaims(t))
      BY <1>3, <2>4 DEF CallFails, AfterClaims, TransferOrDone, ControlPoints
    <3> QED
      BY <2>2, <3>1, GoToKept
  <2> QED
    BY <2>3, <2>4
<1> QED
  BY <1>2, <1>3

LEMMA AfterCallKept ==
  ASSUME Inv, KeptInv, NEW p \in Procs, AfterCall(p), proc[p].pc \in Calling
  PROVE  KeptMoves(p)
<1> USE DEF AfterCall
<1> DEFINE t == proc[p]
<1>1. /\ t \in Terminals /\ Kept(t) /\ CallFits(t, ledger) /\ t.job \in Jobs /\ t.job # NoJob
      /\ t.pc \notin {"fill", "down", "done"}
  BY CallingJob DEF Inv, TerminalsInv, KeptInv, Calling
<1>2. CASE t.file = "none"
  <2>1. t.call = Mine(t) /\ ~t.resuming
    BY <1>1, <1>2 DEF Kept, Unwritten
  <2>2. GoTo(p, "save")
    BY <2>1 DEF Mine, CommitCall, IsReveal, AfterCommit
  <2>3. PICK u : u = [t EXCEPT !.pc = "save"]
    OBVIOUS
  <2>4. u \in Terminals
    BY <1>1, <2>3 DEF Terminals, ControlPoints
  <2>5. u.pc = "save" /\ u.job = t.job /\ u.file = t.file /\ u.resuming = t.resuming
    BY <1>1, <2>3, Fields
  <2>6. Kept(u) /\ Follows(t, u)
    BY <1>1, <1>2, <2>1, <2>5 DEF Kept, Unwritten, Follows, Own, Calling
  <2> QED
    BY <2>2, <2>3, <2>4, <2>6 DEF KeptMoves, GoTo
<1>3. CASE t.file # "none"
  <2>1. t.file \notin {"none", "empty"} /\ t.pc # "done"
    BY <1>1, <1>3 DEF Kept
  <2>2. ASSUME NEW point \in {"save", "wait", "verify", "forget", "done", "transfer", "moved"},
               GoTo(p, point)
        PROVE  KeptMoves(p)
    BY <2>1, <2>2, GoToKept DEF ControlPoints
  <2>3. CASE t.call.kind = "commit"
    BY <2>2, <2>3 DEF IsReveal, AfterCommit
  <2>4. CASE IsReveal(t.call)
    BY <2>2, <2>4 DEF IsReveal, AfterReveal
  <2>5. CASE t.call = ClaimCall
    BY <2>2, <2>5 DEF ClaimCall, IsReveal, AfterClaims, TransferOrDone
  <2>6. CASE t.call = SyncCall /\ t.job.dest # Nobody
    <3>1. Invoke(p, TransferCall(t.job.dest))
      BY <2>6 DEF SyncCall, IsReveal
    <3>2. TransferCall(t.job.dest) \in Calls
      BY <1>1, <2>6, CallType DEF Jobs, Calls, TransferCall
    <3> QED
      BY <2>1, <3>1, <3>2, InvokeKept
  <2>7. CASE t.call = TransferCall(t.job.dest)
    BY <2>2, <2>7 DEF TransferCall, IsReveal
  <2> QED
    BY <1>1, <2>3, <2>4, <2>5, <2>6, <2>7 DEF CallFits, CommitCall
<1> QED
  BY <1>2, <1>3
\* A call on its way.
LEMMA CallStepKept ==
  ASSUME Inv, KeptInv, NEW p \in Procs,
         DryRun(p) \/ Sign(p) \/ Watch(p) \/ (Send(p) /\ CallFails(p))
  PROVE  KeptMoves(p)
<1> USE DEF Inv
<1> DEFINE t == proc[p]
<1>1. /\ t \in Terminals /\ Kept(t) /\ t.pc \in Calling
      /\ t.job \in Jobs /\ t.job # NoJob /\ t.nonce \in Nat /\ Len(ledger) \in Nat
  BY CallingJob DEF TerminalsInv, KeptInv, Calling, DryRun, Sign, Send, Watch, Terminals, AccountType
<1>2. Own(t) /\ t.pc # "watch" => Unsent(t)
  BY <1>1 DEF Kept, Unwritten, Own, Calling
<1>4. CASE DryRun(p)
  <2>1. CASE Verdict(t.call) = "success"
    <3>1. PICK u : u = [t EXCEPT !.pc = "sign"]
      OBVIOUS
    <3>2. u \in Terminals
      BY <1>1, <3>1 DEF Terminals, ControlPoints
    <3>3. /\ u.pc = "sign" /\ u.job = t.job /\ u.resuming = t.resuming /\ u.call = t.call
          /\ u.file = t.file
      BY <1>1, <3>1, Fields
    <3>4. t.pc = "dryrun" /\ proc' = [proc EXCEPT ![p] = u]
      BY <1>4, <2>1, <3>1 DEF DryRun, GoTo
    <3>5. Unsent(t) => Unsent(u)
      BY <3>3 DEF Unsent, Mine
    <3>6. Unwritten(t) => Unwritten(u)
      BY <3>3, <3>4, <3>5 DEF Unwritten, Calling, Mine
    <3>7. Kept(u) /\ Follows(t, u)
      BY <1>1, <3>3, <3>4, <3>6 DEF Kept, Follows, Own
    <3> QED
      BY <3>2, <3>4, <3>7 DEF KeptMoves
  <2>2. CASE Verdict(t.call) = "labelSet"
    BY <1>1, <1>4, <2>2, AfterCallKept DEF DryRun
  <2>3. CASE Verdict(t.call) \notin {"success", "labelSet"}
    BY <1>1, <1>2, <1>4, <2>3, CallFailsKept DEF DryRun
  <2> QED
    BY <2>1, <2>2, <2>3
<1>5. CASE Sign(p)
  <2>1. PICK u : u = [t EXCEPT !.pc = "send", !.nonce = Len(ledger)]
    OBVIOUS
  <2>2. t.pc = "sign" /\ proc' = [proc EXCEPT ![p] = u]
    BY <1>5, <2>1 DEF Sign
  <2>3. u \in Terminals
    BY <1>1, <2>1 DEF Terminals, ControlPoints
  <2>4. /\ u.pc = "send" /\ u.job = t.job /\ u.resuming = t.resuming /\ u.call = t.call
        /\ u.nonce = Len(ledger) /\ u.file = t.file
    BY <1>1, <2>1, Fields
  <2>5. Unsent(t) => Unsent(u)
    BY <2>4 DEF Unsent, Mine
  <2>6. Unwritten(t) => Unwritten(u)
    BY <2>2, <2>4, <2>5 DEF Unwritten, Calling, Mine
  <2>7. Kept(u) /\ Follows(t, u)
    BY <1>1, <2>2, <2>4, <2>6 DEF Kept, Follows, Own
  <2> QED
    BY <2>2, <2>3, <2>7 DEF KeptMoves
<1>6. CASE Send(p) /\ CallFails(p)
  <2>1. t.pc # "watch"
    BY <1>6 DEF Send
  <2> QED
    BY <1>1, <1>2, <1>6, <2>1, CallFailsKept
<1>7. CASE Watch(p)
  <2>1. t.pc = "watch" /\ t.nonce <= Len(ledger) /\ (Own(t) => Sent(t) /\ t.call = Mine(t))
    BY <1>1, <1>7 DEF Kept, Unwritten, Own, Watch, Calling
  <2>2. CASE Spent(t.nonce) /\ Finalized(t.call, t.nonce) /\ AfterCall(p)
    BY <1>1, <2>2, AfterCallKept
  <2>3. CASE Spent(t.nonce) /\ ~Finalized(t.call, t.nonce) /\ CallFails(p)
    <3>1. ASSUME Own(t) PROVE Unsent(t)
      <4>1. ASSUME NEW i \in DOMAIN ledger, ledger[i] = [call |-> Mine(t), outcome |-> "success"]
            PROVE  FALSE
        BY <2>1, <2>3, <3>1, <4>1 DEF Sent, Finalized, Found, Succeeded
      <4>2. ASSUME NEW s \in pool, s.call = Mine(t) PROVE FALSE
        BY <1>1, <2>1, <2>3, <3>1, <4>2 DEF Sent, Spent, KeptInv, PoolAhead
      <4> QED
        BY <4>1, <4>2 DEF Unsent
    <3> QED
      BY <1>1, <2>3, <3>1, CallFailsKept
  <2>4. CASE Stuck(t.nonce) /\ CallFails(p)
    <3>1. t.nonce = Len(ledger) /\ ~Pooled(t.nonce)
      BY <1>1, <2>1, <2>4 DEF Stuck, Gap
    <3>2. ASSUME Own(t) PROVE Unsent(t)
      <4>1. ASSUME NEW i \in DOMAIN ledger, ledger[i] = [call |-> Mine(t), outcome |-> "success"]
            PROVE  FALSE
        <5>1. i <= Len(ledger)
          BY DEF AccountType
        <5> QED
          BY <1>1, <2>1, <3>1, <3>2, <4>1, <5>1 DEF Sent
      <4>2. ASSUME NEW s \in pool, s.call = Mine(t) PROVE FALSE
        BY <2>1, <3>1, <3>2, <4>2 DEF Sent, Pooled
      <4> QED
        BY <4>1, <4>2 DEF Unsent
    <3> QED
      BY <1>1, <2>4, <3>2, CallFailsKept
  <2> QED
    BY <1>7, <2>2, <2>3, <2>4 DEF Watch
<1> QED
  BY <1>4, <1>5, <1>6, <1>7

\* What a terminal calls is its own or no commitment of another.
LEMMA CallsApart ==
  ASSUME Inv, KeptInv, NEW p \in Procs, proc[p].pc \in Calling,
         NEW q \in Procs \ {p}, Own(proc[q])
  PROVE  proc[p].call # Mine(proc[q])
<1>1. CallFits(proc[p], ledger)
  BY CallingJob DEF Inv
<1>2. proc[p].job.secret # proc[q].job.secret
  BY DEF KeptInv, Distinct
<1>3. HashOf(proc[p].job) # HashOf(proc[q].job)
  BY <1>2 DEF HashOf
<1> QED
  BY <1>1, <1>3 DEF CallFits, Mine, CommitCall, IsReveal, ClaimCall, SyncCall, TransferCall

\* A transaction enters the pool.
LEMMA SendKept ==
  ASSUME Inv, KeptInv, NEW p \in Procs, Send(p), GoTo(p, "watch"),
         Submit(proc[p].call, proc[p].nonce, "inflight")
  PROVE  KeptInv'
<1> USE DEF Inv
<1> DEFINE t == proc[p]
<1>1. /\ t.pc = "send" /\ GoTo(p, "watch") /\ t.nonce >= Len(ledger)
      /\ pool' = pool \union {[nonce |-> t.nonce, call |-> t.call]}
      /\ UNCHANGED <<ledger, owner, record, drawn>>
  BY DEF Send, Submit
<1>2. /\ t \in Terminals /\ Kept(t) /\ CallFits(t, ledger) /\ t.job # NoJob
      /\ t.nonce \in Nat /\ Len(ledger) \in Nat
      /\ proc \in [Procs -> Terminals]
  BY <1>1, CallingJob DEF TerminalsInv, KeptInv, Calling, Terminals, AccountType
<1>3. t.nonce = Len(ledger)
  BY <1>1, <1>2 DEF Kept
<1>4. PoolAhead'
  BY <1>1, <1>2, <1>3 DEF PoolAhead, KeptInv
<1>5. SecretsInv'
  <2>1. t.call.kind = "commit" => t.call = CommitCall(HashOf(t.job))
    BY <1>2 DEF CallFits, CommitCall, IsReveal, ClaimCall, SyncCall, TransferCall
  <2>2. IsOld(t.call)
    BY <1>2, <2>1 DEF IsOld, Kept, CommitCall, HashOf
  <2> QED
    BY <1>1, <2>2 DEF KeptInv, SecretsInv, IsOld
<1>6. PICK u : u = [t EXCEPT !.pc = "watch"]
  OBVIOUS
<1>7. /\ u.pc = "watch" /\ u.job = t.job /\ u.resuming = t.resuming /\ u.file = t.file
      /\ u.call = t.call /\ u.nonce = t.nonce
  BY <1>2, <1>6, Fields
<1>8. proc'[p] = u /\ \A q \in Procs \ {p} : proc'[q] = proc[q]
  BY <1>1, <1>2, <1>6 DEF GoTo
<1>9. Kept(u)'
  <2>1. Mine(u) = Mine(t)
    BY <1>7 DEF Mine
  <2>2. ASSUME u.file = "none" PROVE Unwritten(u)'
    <3>1. Unwritten(t) /\ Unsent(t) /\ t.call = Mine(t)
      BY <1>1, <1>2, <1>7, <2>2 DEF Kept, Unwritten, Calling
    <3>2. Sent(u)'
      BY <1>1, <1>7, <2>1, <3>1 DEF Sent, Unsent
    <3> QED
      BY <1>1, <1>7, <2>1, <3>1, <3>2 DEF Unwritten, Calling
  <2> QED
    BY <1>1, <1>2, <1>3, <1>7, <2>2 DEF Kept
<1>10. ASSUME NEW q \in Procs \ {p} PROVE Kept(proc[q])'
  <2>1. PICK w : w = proc[q]
    OBVIOUS
  <2>2. Kept(w) /\ w = proc'[q]
    BY <1>8, <2>1 DEF KeptInv
  <2>3. w.file = "none" /\ w.job # NoJob => t.call # Mine(w)
    BY <1>1, <2>1, CallsApart DEF Calling, Own
  <2>4. w.job # NoJob /\ w.file = "none" => (Unsent(w) => Unsent(w)') /\ (Sent(w) => Sent(w)')
    BY <1>1, <2>3 DEF Unsent, Sent, Mine
  <2>5. Kept(w)'
    BY <1>1, <2>2, <2>4 DEF Kept, Unwritten, Mine
  <2> QED
    BY <2>2, <2>5 DEF Kept, Unwritten, Unsent, Sent, Mine
<1>11. Kept(proc[p])'
  BY <1>8, <1>9 DEF Kept, Unwritten, Unsent, Sent, Mine
<1>12. Distinct'
  <2>1. \A q \in Procs : proc'[q].job = proc[q].job /\ proc'[q].file = proc[q].file
    BY <1>7, <1>8
  <2> QED
    BY <1>1, <2>1 DEF KeptInv, Distinct, Own
<1> QED
  BY <1>4, <1>5, <1>10, <1>11, <1>12 DEF KeptInv

\* Steps behind the record that change nothing but the terminal.
LEMMA PlainStepKept ==
  ASSUME Inv, KeptInv, NEW p \in Procs,
         \/ Wait(p) \/ Poll(p) \/ Quote(p)
         \/ Verify(p) \/ LabelStore(p) \/ Transfer(p) \/ Moved(p) \/ Status(p)
  PROVE  KeptInv'
<1> USE DEF Inv
<1> DEFINE t == proc[p]
<1>1. UNCHANGED <<ledger, pool, owner, record, drawn>>
  BY DEF Wait, Poll, Quote, Verify, LabelStore, Transfer, Moved, Status
<1>2. t.pc \in Beyond
  BY DEF Wait, Poll, Quote, Verify, LabelStore, Transfer, Moved, Status, Beyond
<1>3. /\ t.file \notin {"none", "empty"} /\ t.pc \notin {"fill", "down", "done"}
      /\ HashOf(t.job) \in Hashes /\ t.job.owner \in Owners
  BY <1>2, WrittenFile, PointJob DEF Beyond, JobPoints, ControlPoints, Ended
<1>4. CASE Fail(p)
  BY <1>1, <1>3, <1>4, FailKept, KeptMovesInv DEF Own
<1>5. ASSUME NEW point \in {"poll", "quote", "wait", "forget", "store", "transfer", "done"},
             GoTo(p, point)
      PROVE  KeptInv'
  BY <1>1, <1>3, <1>5, GoToKept, KeptMovesInv DEF ControlPoints
<1>6. ASSUME NEW call \in Calls, Invoke(p, call) PROVE KeptInv'
  BY <1>1, <1>3, <1>6, InvokeKept, KeptMovesInv
<1>7. CASE proc' = proc
  BY <1>1, <1>7 DEF KeptInv, SecretsInv, IsOld, PoolAhead, Distinct, Own, Kept, Unwritten,
                    Unsent, Sent, Mine
<1>8. /\ TransferOrDone(t) \in {"done", "transfer"}
      /\ AfterVerify(t) \in {"forget", "store", "done", "transfer"}
  BY DEF TransferOrDone, AfterVerify
<1>9. {ClaimCall, SyncCall, CommitCall(HashOf(t.job)), ReservedCall(HashOf(t.job))} \subseteq Calls
  BY <1>3 DEF Calls
<1>10. CASE Wait(p) \/ Poll(p)
  BY <1>4, <1>5, <1>6, <1>7, <1>9, <1>10 DEF Wait, Poll, Reveal
<1>11. CASE Quote(p)
  <2>1. BufferedPayment(Charge(price, t.job.owner)) \in Nat
    BY <1>3, QuoteType
  <2>2. RegisterCall(HashOf(t.job), BufferedPayment(Charge(price, t.job.owner))) \in Calls
    BY <1>3, <2>1, CallType DEF Calls, RegisterCall
  <2> QED
    BY <1>6, <1>11, <2>2 DEF Quote
<1>12. CASE Verify(p) \/ LabelStore(p) \/ Transfer(p) \/ Moved(p) \/ Status(p)
  BY <1>4, <1>5, <1>6, <1>8, <1>9, <1>12 DEF Verify, LabelStore, Transfer, Moved, Status
<1> QED
  BY <1>10, <1>11, <1>12

\* A terminal whose record another one has taken.
LEMMA RobbedKept ==
  ASSUME NEW t \in Terminals, Kept(t), t.file \in {"empty", "saved"}
  PROVE  Kept(Robbed(t)) /\ Robbed(t).job = t.job /\ Robbed(t).file = "gone"
<1>1. PICK u : u = Robbed(t)
  OBVIOUS
<1>2. u.pc = t.pc /\ u.job = t.job /\ u.nonce = t.nonce /\ u.file = "gone"
  BY <1>1, Fields DEF Robbed
<1>3. Kept(u)
  BY <1>2 DEF Kept
<1> QED
  BY <1>1, <1>2, <1>3

\* Terminal p changes the file, and what it knows of it; who thought its own record
\* there learns of it, in the model's terms.
LEMMA FileMoves ==
  ASSUME Inv, KeptInv, NEW p \in Procs, NEW u \in Terminals, Becomes(p, u),
         UNCHANGED <<ledger, pool, owner, drawn>>,
         record' \in {record, NoJob, proc[p].job},
         record' # record => \A q \in Procs \ {p} : proc'[q].file # "saved",
         u.job = proc[p].job, u.file # "none", u.pc \notin {"check", "send", "watch"},
         u.file = "empty" => u.pc \in {"fill", "down"},
         u.file = "saved" /\ u.pc # "done" /\ owner = Nobody => u.job = record'
  PROVE  KeptInv'
<1>1. SecretsInv' /\ PoolAhead'
  BY SecretTypes DEF KeptInv, SecretsInv, PoolAhead, IsOld, Kept
<1>2. ASSUME NEW q \in Procs \ {p}
      PROVE  /\ proc'[q].job = proc[q].job
             /\ proc'[q] = proc[q] \/ proc'[q].file = "gone"
             /\ Kept(proc'[q])
  BY <1>2, RobbedKept, SecretTypes DEF Becomes, KeptInv
<1>3. ASSUME NEW q \in Procs PROVE Kept(proc[q])'
  <2>1. PICK w : w = proc'[q]
    OBVIOUS
  <2>2. CASE q = p
    <3>1. w = u /\ u.job.secret <= drawn
      BY <2>1, <2>2 DEF Becomes, KeptInv, Kept
    <3>2. Kept(w)'
      BY <3>1 DEF Kept
    <3> QED
      BY <2>1, <3>2 DEF Kept, Unwritten, Unsent, Sent, Mine
  <2>3. CASE q # p
    <3>1. Kept(w) /\ (record' # record => w.file # "saved")
      BY <1>2, <2>1, <2>3
    <3>2. Kept(w)'
      BY <3>1 DEF Kept, Unwritten, Unsent, Sent, Mine
    <3> QED
      BY <2>1, <3>2 DEF Kept, Unwritten, Unsent, Sent, Mine
  <2> QED
    BY <2>2, <2>3
<1>4. Distinct'
  <2> SUFFICES ASSUME NEW q \in Procs, Own(proc'[q])
               PROVE  /\ record'.secret # proc'[q].job.secret
                      /\ \A r \in Procs \ {q} : proc'[r].job.secret # proc'[q].job.secret
    BY DEF Distinct, Own
  <2>1. q # p /\ proc'[q] = proc[q]
    BY <1>2 DEF Own, Becomes
  <2>2. /\ Own(proc[q]) /\ proc[q].job.secret # 0 /\ record.secret # proc[q].job.secret
        /\ \A r \in Procs \ {q} : proc[r].job.secret # proc[q].job.secret
    BY <2>1, SecretTypes DEF KeptInv, Distinct
  <2>3. \A r \in Procs : proc'[r].job = proc[r].job
    BY <1>2 DEF Becomes
  <2> QED
    BY <2>1, <2>2, <2>3, SecretTypes
<1> QED
  BY <1>1, <1>3, <1>4 DEF KeptInv

\* The file is removed.
LEMMA ErasedKept ==
  ASSUME Inv, KeptInv, NEW p \in Procs, proc[p].file \notin {"none", "empty"},
         NEW point \in {"done", "verify", "transfer"}, Erased(p, point),
         UNCHANGED <<ledger, pool, owner, drawn>>, point = "done" \/ owner # Nobody
  PROVE  KeptInv'
<1>1. proc[p] \in Terminals /\ proc \in [Procs -> Terminals]
  BY DEF Inv, TerminalsInv
<1>2. PICK u : u = [proc[p] EXCEPT !.pc = point]
  OBVIOUS
<1>3. u \in Terminals
  BY <1>1, <1>2 DEF Terminals, ControlPoints
<1>4. u.pc = point /\ u.job = proc[p].job /\ u.file = proc[p].file
  BY <1>1, <1>2, Fields
<1>5. Becomes(p, u)
  BY <1>1, <1>2, ErasedBecomes
<1>6. ASSUME NEW q \in Procs \ {p} PROVE proc'[q].file # "saved"
  <2>1. proc'[q] = Leaves(p, {"empty", "saved"})[q]
    BY <1>1 DEF Erased, Leaves
  <2>2. [proc[q] EXCEPT !.file = "gone"].file = "gone"
    BY <1>1 DEF Terminals
  <2> QED
    BY <2>1, <2>2 DEF Leaves
<1> QED
  BY <1>3, <1>4, <1>5, <1>6, FileMoves DEF Erased

\* persistCommitment gives up: the user is warned, or the process has written.
LEMMA WarnedKept ==
  ASSUME Inv, KeptInv, NEW p \in Procs, Warned(p), UNCHANGED <<ledger, pool, owner, drawn, record>>
  PROVE  KeptInv'
<1>1. proc[p] \in Terminals /\ proc \in [Procs -> Terminals]
  BY DEF Inv, TerminalsInv
<1>2. PICK u : u = [proc[p] EXCEPT !.pc = "wait", !.file = "warned"]
  OBVIOUS
<1>3. u \in Terminals
  BY <1>1, <1>2 DEF Terminals, ControlPoints, Files
<1>4. u.pc = "wait" /\ u.job = proc[p].job /\ u.file = "warned"
  BY <1>1, <1>2, Fields
<1>5. proc' = [proc EXCEPT ![p] = u]
  BY <1>1, <1>2 DEF Warned
<1>6. Becomes(p, u)
  BY <1>1, <1>5 DEF Becomes
<1> QED
  BY <1>3, <1>4, <1>6, FileMoves

LEMMA SaveKept ==
  ASSUME Inv, KeptInv, NEW p \in Procs, Save(p)
  PROVE  KeptInv'
<1>1. proc[p] \in Terminals /\ proc \in [Procs -> Terminals]
  BY DEF Inv, TerminalsInv
<1>2. UNCHANGED <<ledger, pool, owner, drawn>>
  BY DEF Save
<1>3. CASE record' = NoJob /\ proc' = [Leaves(p, {"saved"}) EXCEPT ![p].pc = "fill", ![p].file = "empty"]
  <2>1. PICK u : u = [proc[p] EXCEPT !.pc = "fill", !.file = "empty"]
    OBVIOUS
  <2>2. u \in Terminals
    BY <1>1, <2>1 DEF Terminals, ControlPoints, Files
  <2>3. u.pc = "fill" /\ u.job = proc[p].job /\ u.file = "empty"
    BY <1>1, <2>1, Fields
  <2>4. proc' = [Leaves(p, {"saved"}) EXCEPT ![p] = u]
    BY <1>3, <2>1 DEF Leaves
  <2>5. Becomes(p, u)
    BY <1>1, <2>4, LeavesBecomes
  <2>6. ASSUME NEW q \in Procs \ {p} PROVE proc'[q].file # "saved"
    <3>1. proc'[q] = Leaves(p, {"saved"})[q]
      BY <2>4 DEF Leaves
    <3>2. [proc[q] EXCEPT !.file = "gone"].file = "gone"
      BY <1>1 DEF Terminals
    <3> QED
      BY <3>1, <3>2 DEF Leaves
  <2> QED
    BY <1>2, <1>3, <2>2, <2>3, <2>5, <2>6, FileMoves
<1>4. CASE Warned(p) /\ UNCHANGED record
  BY <1>2, <1>4, WarnedKept
<1> QED
  BY <1>3, <1>4 DEF Save

LEMMA FillKept ==
  ASSUME Inv, KeptInv, NEW p \in Procs, Fill(p)
  PROVE  KeptInv'
<1>1. proc[p] \in Terminals /\ proc \in [Procs -> Terminals]
  BY DEF Inv, TerminalsInv
<1>2. UNCHANGED <<ledger, pool, owner, drawn>>
  BY DEF Fill
<1> DEFINE others == IF record' = record THEN {} ELSE {"empty", "saved"}
           mine   == IF record' = proc[p].job THEN "saved" ELSE "gone"
<1>3. CASE /\ record' \in Written(proc[p])
           /\ proc' = [Leaves(p, others) EXCEPT ![p].pc = "wait", ![p].file = mine]
  <2>0. PICK m \in {"saved", "gone"} : m = mine
    OBVIOUS
  <2>1. PICK u : u = [proc[p] EXCEPT !.pc = "wait", !.file = m]
    OBVIOUS
  <2>2. u \in Terminals
    BY <1>1, <2>1 DEF Terminals, ControlPoints, Files
  <2>3. u.pc = "wait" /\ u.job = proc[p].job /\ u.file = mine
    BY <1>1, <2>0, <2>1, Fields
  <2>4. proc' = [Leaves(p, others) EXCEPT ![p] = u]
    BY <1>3, <2>0, <2>1 DEF Leaves
  <2>5. Becomes(p, u)
    BY <1>1, <2>4, LeavesBecomes
  <2>6. ASSUME NEW q \in Procs \ {p}, record' # record PROVE proc'[q].file # "saved"
    <3>1. proc'[q] = Leaves(p, {"empty", "saved"})[q]
      BY <2>4, <2>6 DEF Leaves
    <3>2. [proc[q] EXCEPT !.file = "gone"].file = "gone"
      BY <1>1 DEF Terminals
    <3> QED
      BY <3>1, <3>2 DEF Leaves
  <2>7. record' \in {record, NoJob, proc[p].job}
    BY <1>3 DEF Written
  <2> QED
    BY <1>2, <2>2, <2>3, <2>5, <2>6, <2>7, FileMoves
<1>4. CASE Warned(p) /\ UNCHANGED record
  BY <1>2, <1>4, WarnedKept
<1> QED
  BY <1>3, <1>4 DEF Fill

LEMMA ForgetKept ==
  ASSUME Inv, KeptInv, NEW p \in Procs, Forget(p)
  PROVE  KeptInv'
<1>1. UNCHANGED <<ledger, pool, owner, drawn>> /\ proc[p].pc = "forget"
  BY DEF Forget
<1>2. proc[p].file \notin {"none", "empty"} /\ proc[p].pc # "done"
  BY <1>1, WrittenFile DEF Beyond
<1>3. owner # Nobody
  BY <1>1 DEF Inv, TerminalsInv, Good
<1>4. AfterForget(proc[p]) \in {"done", "verify", "transfer"}
  BY DEF AfterForget, TransferOrDone
<1>5. CASE Erased(p, AfterForget(proc[p]))
  BY <1>1, <1>2, <1>3, <1>4, <1>5, ErasedKept
<1>6. CASE GoTo(p, AfterForget(proc[p])) /\ UNCHANGED record
  BY <1>1, <1>2, <1>4, <1>6, GoToKept, KeptMovesInv DEF ControlPoints
<1> QED
  BY <1>5, <1>6 DEF Forget

LEMMA ResumeStepKept ==
  ASSUME Inv, KeptInv, NEW p \in Procs, Owned(p) \/ Clear(p) \/ Choose(p)
  PROVE  KeptInv'
<1> DEFINE t == proc[p]
<1>1. UNCHANGED <<ledger, pool, owner, drawn>> /\ t.pc \in {"owned", "clear", "choose"}
  BY DEF Owned, Clear, Choose
<1>2. t.file \notin {"none", "empty"} /\ t.pc \notin {"fill", "down", "done"}
  BY <1>1, WrittenFile DEF Beyond
<1>3. CASE Erased(p, "done")
  BY <1>1, <1>2, <1>3, ErasedKept
<1>4. ASSUME NEW point \in {"done", "status", "choose"}, GoTo(p, point), UNCHANGED record
      PROVE  KeptInv'
  BY <1>1, <1>2, <1>4, GoToKept, KeptMovesInv DEF ControlPoints
<1>5. CASE Fail(p) /\ UNCHANGED record
  BY <1>1, <1>2, <1>5, FailKept, KeptMovesInv DEF Own
<1>6. CASE Choose(p) /\ proc' = [proc EXCEPT ![p] = Resumed(t, t.job)] /\ UNCHANGED record
  <2>1. /\ t \in Terminals /\ t.job \in Jobs /\ t.job # NoJob
        /\ t.job.owner # Rival /\ Kept(t)
    BY <1>1, PointJob, JobType DEF Inv, TerminalsInv, Good, KeptInv, JobPoints, ControlPoints, Ended
  <2>2. PICK u : u = Resumed(t, t.job)
    OBVIOUS
  <2>3. u \in Terminals
    BY <2>1, <2>2, ResumedGood, CountsAssumption
  <2>4. PICK w \in Terminals : w = Rewound(t)
    BY <2>1, RewoundType, CountsAssumption
  <2>5. w.file = t.file
    BY <2>1, <2>4, Fields DEF Rewound
  <2>6. u = [w EXCEPT !.pc = "owned", !.resuming = TRUE, !.job = t.job]
    BY <2>2, <2>4 DEF Resumed
  <2>7. u.pc = "owned" /\ u.job = t.job /\ u.file = t.file
    BY <2>5, <2>6, Fields
  <2> QED
    BY <1>1, <1>2, <1>6, <2>2, <2>3, <2>7, GoesOn, KeptMovesInv
<1> QED
  BY <1>3, <1>4, <1>5, <1>6 DEF Owned, Clear, Choose

\* A secret is drawn, larger than all before.
LEMMA CheckKept ==
  ASSUME Inv, KeptInv, NEW p \in Procs, Check(p)
  PROVE  KeptInv'
<1> USE DEF Inv
<1>1. PICK t : t = proc[p]
  OBVIOUS
<1>2. UNCHANGED <<ledger, pool, owner, record>> /\ drawn \in Nat
  BY SecretTypes DEF Check
<1>3. /\ t \in Terminals /\ Kept(t) /\ t.pc = "check" /\ t.job = NoJob /\ ~t.resuming
      /\ t.file = "none" /\ proc \in [Procs -> Terminals]
  BY <1>1 DEF Check, TerminalsInv, KeptInv, Kept, Unwritten
<1>4. CASE Fail(p) /\ UNCHANGED drawn
  BY <1>1, <1>2, <1>3, <1>4, FailKept, KeptMovesInv DEF Own
<1>5. ASSUME NEW job, job = NewJob(t.intent), drawn' = drawn + 1,
             proc' = [proc EXCEPT ![p].pc = "dryrun", ![p].job = job,
                                  ![p].call = CommitCall(HashOf(job))]
      PROVE  KeptInv'
  <2>1. PICK u : u = [t EXCEPT !.pc = "dryrun", !.job = job, !.call = CommitCall(HashOf(job))]
    OBVIOUS
  <2>2. /\ u.pc = "dryrun" /\ u.job = job /\ u.resuming = t.resuming
        /\ u.call = CommitCall(HashOf(job)) /\ u.file = t.file
    BY <1>3, <2>1, Fields
  <2>3. job.secret = drawn + 1
    BY <1>5 DEF NewJob
  <2>4. Mine(u).kind = "commit" /\ Mine(u).hash.secret = drawn + 1
    BY <2>2, <2>3 DEF Mine, CommitCall, HashOf
  <2>5. ASSUME NEW i \in DOMAIN ledger, ledger[i] = [call |-> Mine(u), outcome |-> "success"]
        PROVE  FALSE
    <3>1. ledger[i].call = Mine(u) /\ IsOld(ledger[i].call)
      BY <2>5 DEF KeptInv, SecretsInv
    <3> QED
      BY <1>2, <2>4, <3>1 DEF IsOld
  <2>6. ASSUME NEW s \in pool, s.call = Mine(u) PROVE FALSE
    BY <1>2, <2>4, <2>6 DEF KeptInv, SecretsInv, IsOld
  <2>7. Unsent(u)'
    BY <1>2, <2>5, <2>6 DEF Unsent, Mine
  <2>8. Kept(u)'
    BY <1>2, <1>3, <1>5, <2>2, <2>3, <2>7 DEF Kept, Unwritten, Mine, Calling
  <2>9. proc'[p] = u /\ \A q \in Procs \ {p} : proc'[q] = proc[q]
    BY <1>1, <1>3, <1>5, <2>1
  <2>10. \A q \in Procs : Kept(proc[q])'
    <3>1. ASSUME NEW q \in Procs PROVE Kept(proc[q])'
      <4>1. PICK w : w = proc'[q]
        OBVIOUS
      <4>2. CASE q = p
        BY <2>8, <2>9, <4>2 DEF Kept, Unwritten, Unsent, Sent, Mine
      <4>3. CASE q # p
        <5>1. Kept(w) /\ w.job.secret \in Nat
          BY <2>9, <4>1, <4>3, SecretTypes DEF KeptInv
        <5>2. Kept(w)'
          BY <1>2, <1>5, <5>1 DEF Kept, Unwritten, Unsent, Sent, Mine
        <5> QED
          BY <4>1, <5>2 DEF Kept, Unwritten, Unsent, Sent, Mine
      <4> QED
        BY <4>2, <4>3
    <3> QED
      BY <3>1
  <2>11. SecretsInv'
    <3>1. ASSUME NEW c, IsOld(c), c \in Calls PROVE IsOld(c)'
      <4>1. c.kind = "commit" => c.hash \in Hashes
        BY <3>1, GiverType
      <4>2. c.kind = "commit" => c.hash.secret \in Nat
        BY <4>1, SecretsAssumption, CountsAssumption DEF Hashes
      <4> QED
        BY <1>2, <1>5, <3>1, <4>2 DEF IsOld
    <3>2. \A i \in DOMAIN ledger : ledger[i].call \in Calls
      <4> DEFINE Entries == [call : Calls, outcome : Verdicts]
      <4>1. ledger \in Seq(Entries)
        BY DEF AccountType
      <4>2. \A e \in Entries : e.call \in Calls
        OBVIOUS
      <4> HIDE DEF Entries
      <4> QED
        BY <4>1, <4>2
    <3>3. \A s \in pool : s.call \in Calls
      BY DEF AccountType
    <3>4. record.secret \in Nat
      BY SecretTypes
    <3>5. record.secret <= drawn'
      BY <1>2, <1>5, <3>4 DEF KeptInv, SecretsInv
    <3> QED
      BY <1>2, <3>1, <3>2, <3>3, <3>5 DEF KeptInv, SecretsInv
  <2>12. PoolAhead'
    BY <1>2 DEF KeptInv, PoolAhead
  <2>13. Distinct'
    <3> SUFFICES ASSUME NEW q \in Procs, Own(proc'[q])
                 PROVE  /\ record.secret # proc'[q].job.secret
                        /\ \A r \in Procs \ {q} : proc'[r].job.secret # proc'[q].job.secret
      BY <1>2 DEF Distinct, Own
    <3>1. /\ record.secret \in Nat /\ record.secret <= drawn
          /\ \A r \in Procs : proc[r].job.secret \in Nat /\ proc[r].job.secret <= drawn
      BY SecretTypes DEF KeptInv, SecretsInv, Kept
    <3>2. CASE q = p
      BY <1>2, <2>2, <2>3, <2>9, <3>1, <3>2
    <3>3. CASE q # p
      BY <1>2, <2>2, <2>3, <2>9, <3>1, <3>3 DEF KeptInv, Distinct
    <3> QED
      BY <3>2, <3>3
  <2> QED
    BY <2>10, <2>11, <2>12, <2>13 DEF KeptInv
<1> QED
  BY <1>1, <1>4, <1>5 DEF Check

LEMMA StartKept ==
  ASSUME Inv, KeptInv, NEW p \in Procs, Start(p)
  PROVE  KeptInv'
<1> USE DEF Inv
<1>1. UNCHANGED <<ledger, pool, owner, drawn, record>>
  BY DEF Start
<1>2. /\ NoJob.secret <= drawn /\ record.secret <= drawn /\ proc \in [Procs -> Terminals]
      /\ record \in Jobs \union {NoJob} /\ (record # NoJob => record.owner # Rival)
  BY SecretTypes DEF KeptInv, SecretsInv, TerminalsInv, RecordInv
<1>3. ASSUME NEW u \in Terminals, proc' = [proc EXCEPT ![p] = u],
             \/ u.pc = "check" /\ u.job = NoJob /\ u.file = "none" /\ ~u.resuming
             \/ u.pc \in {"owned", "clear"} /\ u.job = record /\ u.file = "saved"
      PROVE  KeptInv'
  <2>1. Kept(u)
    BY <1>2, <1>3 DEF Kept, Unwritten, Calling
  <2>2. Follows(proc[p], u)
    BY <1>3 DEF Follows, Own
  <2> QED
    BY <1>1, <1>3, <2>1, <2>2, KeptMovesInv DEF KeptMoves
<1>4. ASSUME NEW cmd \in {"register", "retry", "clear"}
      PROVE  /\ Fresh(cmd) \in Terminals
             /\ Fresh(cmd).job = NoJob /\ Fresh(cmd).resuming = FALSE /\ Fresh(cmd).file = "none"
  <2>1. 0 \in 0..(MaxClaims - 1) /\ 0 \in 0..MaxRetries
    BY CountsAssumption
  <2>2. Fresh(cmd) = [IdleTerminal EXCEPT !.cmd = cmd]
    BY DEF Fresh
  <2>3. IdleTerminal \in Terminals
    BY <2>1 DEF IdleTerminal, Terminals, ControlPoints, Files
  <2>4. Fresh(cmd) \in Terminals
    BY <2>2, <2>3 DEF Terminals
  <2> QED
    BY <2>4 DEF Fresh, IdleTerminal
<1>5. ASSUME NEW i \in Intents,
             proc' = [proc EXCEPT ![p] = [Fresh("register") EXCEPT !.pc = "check", !.intent = i,
                                                                   !.left = MaxRetries]]
      PROVE  KeptInv'
  <2>1. PICK f \in Terminals : f = Fresh("register")
    BY <1>4
  <2>2. PICK u : u = [f EXCEPT !.pc = "check", !.intent = i, !.left = MaxRetries]
    OBVIOUS
  <2>3. u \in Terminals
    <3>1. MaxRetries \in 0..MaxRetries
      BY CountsAssumption
    <3> QED
      BY <2>2, <3>1 DEF Terminals, ControlPoints
  <2>4. u.pc = "check" /\ u.job = f.job /\ u.resuming = f.resuming /\ u.file = f.file
    BY <2>2, Fields
  <2> QED
    BY <1>3, <1>4, <1>5, <2>1, <2>2, <2>3, <2>4
<1>6. ASSUME record # NoJob, proc' = [proc EXCEPT ![p] = Loaded(Fresh("retry"), record)]
      PROVE  KeptInv'
  BY <1>2, <1>3, <1>4, <1>6, LoadedGood, CountsAssumption
<1>7. ASSUME record # NoJob,
             proc' = [proc EXCEPT ![p] = [Fresh("clear") EXCEPT !.pc = "clear", !.job = record,
                                                                !.file = "saved"]]
      PROVE  KeptInv'
  <2>1. PICK f \in Terminals : f = Fresh("clear")
    BY <1>4
  <2>2. PICK u : u = [f EXCEPT !.pc = "clear", !.job = record, !.file = "saved"]
    OBVIOUS
  <2>3. u \in Terminals
    BY <1>2, <2>2 DEF Terminals, ControlPoints, Files
  <2>4. u.pc = "clear" /\ u.job = record /\ u.file = "saved"
    BY <2>2, Fields
  <2> QED
    BY <1>3, <1>7, <2>1, <2>2, <2>3, <2>4
<1> QED
  BY <1>5, <1>6, <1>7 DEF Start

\* The next transaction of the account executes, perhaps the watched one.
LEMMA ExecuteKept ==
  ASSUME Inv, KeptInv, Execute, UNCHANGED <<nodeFrame, faults>>
  PROVE  KeptInv'
<1> USE DEF Inv
<1>1. PICK s \in pool :
         /\ s.nonce = Len(ledger)
         /\ Include(Verdict(s.call))
         /\ IF Verdict(s.call) = "success" THEN Effect(s.call) ELSE UNCHANGED contractVars
  BY DEF Execute
<1> DEFINE Entries == [call : Calls, outcome : Verdicts]
<1>2. PICK e : e = [call |-> s.call, outcome |-> Verdict(s.call)]
  OBVIOUS
<1>3. /\ ledger' = Append(ledger, e) /\ pool' = pool \ {s} /\ UNCHANGED <<record, proc, drawn>>
  BY <1>1, <1>2 DEF Include, PoolInv
<1>4. ledger \in Seq(Entries) /\ s.call \in Calls /\ pool \subseteq [nonce : Nat, call : Calls]
  BY DEF AccountType
<1> HIDE DEF Entries
<1>5. /\ Len(ledger') = Len(ledger) + 1 /\ Len(ledger) \in Nat
      /\ DOMAIN ledger' = DOMAIN ledger \union {Len(ledger) + 1}
      /\ \A i \in DOMAIN ledger : ledger'[i] = ledger[i]
      /\ ledger'[Len(ledger) + 1] = e
  BY <1>3, <1>4
<1>6. e.call = s.call /\ IsOld(s.call)
  BY <1>2 DEF KeptInv, SecretsInv
<1>7. SecretsInv'
  BY <1>3, <1>5, <1>6 DEF KeptInv, SecretsInv, IsOld
<1>8. PoolAhead'
  BY <1>1, <1>3, <1>4, <1>5 DEF KeptInv, PoolAhead, PoolInv
<1>9. owner' = Nobody => owner = Nobody
  BY <1>1, <1>4, GiverType, AccountsAssumption DEF Effect
<1>10. ASSUME NEW t, t \in Terminals, Kept(t) PROVE Kept(t)'
  <2>1. t.nonce \in Nat
    BY <1>10 DEF Terminals
  <2>2. Unsent(t) => Unsent(t)'
    BY <1>3, <1>5, <1>6 DEF Unsent, Mine
  <2>3. ASSUME Sent(t) PROVE Sent(t)'
    <3>1. ASSUME NEW i \in DOMAIN ledger',
                 ledger'[i] = [call |-> Mine(t), outcome |-> "success"]
          PROVE  i = t.nonce + 1
      <4>1. CASE i \in DOMAIN ledger
        BY <1>5, <2>3, <3>1, <4>1 DEF Sent
      <4>2. CASE i = Len(ledger) + 1
        <5>1. s.call = Mine(t)
          BY <1>5, <1>6, <3>1, <4>2
        <5> QED
          BY <1>1, <2>3, <4>2, <5>1 DEF Sent
      <4> QED
        BY <1>5, <4>1, <4>2
    <3>2. \A v \in pool' : v.call = Mine(t) => v.nonce = t.nonce
      BY <1>3, <2>3 DEF Sent
    <3> QED
      BY <3>1, <3>2 DEF Sent, Mine
  <2>4. Unwritten(t) => Unwritten(t)'
    BY <2>2, <2>3 DEF Unwritten, Mine
  <2> QED
    BY <1>3, <1>5, <1>9, <1>10, <2>1, <2>4 DEF Kept
<1>11. \A q \in Procs : Kept(proc[q])'
  <2>1. ASSUME NEW q \in Procs PROVE Kept(proc[q])'
    <3>1. PICK t : t = proc[q]
      OBVIOUS
    <3>2. t \in Terminals /\ Kept(t) /\ t = proc'[q]
      BY <1>3, <3>1 DEF TerminalsInv, KeptInv
    <3>3. Kept(t)'
      BY <1>10, <3>2
    <3> QED
      BY <3>2, <3>3 DEF Kept, Unwritten, Unsent, Sent, Mine
  <2> QED
    BY <2>1
<1>12. Distinct'
  BY <1>3 DEF KeptInv, Distinct, Own
<1> QED
  BY <1>7, <1>8, <1>11, <1>12 DEF KeptInv

\* What happens elsewhere: the node forgets a transaction, or the contracts change.
LEMMA ElsewhereKept ==
  ASSUME Inv, KeptInv, UNCHANGED <<ledger, record, proc, drawn>>, pool' \subseteq pool,
         owner' = Nobody => owner = Nobody
  PROVE  KeptInv'
<1>1. SecretsInv' /\ PoolAhead' /\ Distinct'
  BY DEF KeptInv, SecretsInv, PoolAhead, IsOld, Distinct, Own
<1>2. ASSUME NEW q \in Procs PROVE Kept(proc[q])'
  <2>1. PICK t : t = proc[q] /\ t = proc'[q] /\ Kept(t)
    BY DEF KeptInv
  <2>2. Unsent(t) => Unsent(t)'
    BY DEF Unsent, Mine
  <2>3. Sent(t) => Sent(t)'
    BY DEF Sent, Mine
  <2>4. Kept(t)'
    BY <2>1, <2>2, <2>3 DEF Kept, Unwritten, Mine
  <2> QED
    BY <2>1, <2>4 DEF Kept, Unwritten, Unsent, Sent, Mine
<1> QED
  BY <1>1, <1>2 DEF KeptInv

\* A call that is not answered in time: only a watched commitment may be out.
LEMMA TimesOutKept ==
  ASSUME Inv, KeptInv, NEW p \in Procs, TimesOut(p)
  PROVE  KeptInv'
<1>1. PICK t : t = proc[p]
  OBVIOUS
<1>2. /\ UNCHANGED <<ledger, pool, owner, drawn, record>>
      /\ t.pc \in Calling /\ t \in Terminals /\ Kept(t)
  BY <1>1 DEF TimesOut, Calling, Inv, TerminalsInv, KeptInv
<1>3. CASE Unsaved(t)
  <2>1. PICK v : v = [t EXCEPT !.file = "warned"]
    OBVIOUS
  <2>2. v \in Terminals
    BY <1>2, <2>1 DEF Terminals, Files
  <2>3. v.job = t.job /\ v.file = "warned"
    BY <1>2, <2>1, Fields
  <2>4. FailAs(p, v)
    BY <1>1, <1>3, <2>1 DEF TimesOut
  <2> QED
    BY <1>1, <1>2, <2>2, <2>3, <2>4, FailAsKept, KeptMovesInv
<1>4. CASE ~Unsaved(t)
  <2>1. CallFails(p)
    BY <1>1, <1>4 DEF TimesOut
  <2>2. ASSUME Own(t) PROVE Unsent(t)
    <3>1. Unwritten(t) /\ t.call = Mine(t)
      BY <1>2, <2>2 DEF Kept, Own, Unwritten
    <3>2. t.pc # "watch"
      BY <1>4, <3>1 DEF Unsaved, Unwritten, Mine, CommitCall
    <3> QED
      BY <1>2, <2>2, <3>1, <3>2 DEF Unwritten, Calling, Own
  <2> QED
    BY <1>1, <1>2, <2>1, <2>2, CallFailsKept, KeptMovesInv
<1> QED
  BY <1>3, <1>4

LEMMA TroubleKept ==
  ASSUME Inv, KeptInv, Trouble
  PROVE  KeptInv'
<1>1. ASSUME NEW p \in Procs, ReadFails(p) PROVE KeptInv'
  <2>1. UNCHANGED <<ledger, pool, owner, drawn, record>> /\ Fail(p)
    BY <1>1 DEF ReadFails
  <2>2. Kept(proc[p]) /\ proc[p].pc \notin {"fill", "down", "done"}
    BY <1>1 DEF ReadFails, KeptInv
  <2>3. ~Own(proc[p])
    BY <1>1, <2>2 DEF ReadFails, Kept, Own, Unwritten, Calling
  <2> QED
    BY <2>1, <2>2, <2>3, FailKept, KeptMovesInv
<1>2. ASSUME NEW p \in Procs, Crash(p) PROVE KeptInv'
  <2>1. PICK t \in Terminals : t = proc[p] /\ Kept(t)
    BY DEF Inv, TerminalsInv, KeptInv
  <2>2. PICK u : u = [t EXCEPT !.pc = "down"]
    OBVIOUS
  <2>3. u \in Terminals
    BY <2>2 DEF Terminals, ControlPoints
  <2>4. u.pc = "down" /\ u.job = t.job /\ u.file = t.file /\ u.resuming = t.resuming
    BY <2>2, Fields
  <2>5. t.pc # "done"
    BY <1>2, <2>1 DEF Crash, Busy, Ended
  <2>6. Kept(u)
    BY <2>1, <2>4, <2>5 DEF Kept, Unwritten, Calling
  <2>7. Follows(t, u)
    BY <2>4 DEF Follows, Own
  <2>8. UNCHANGED <<ledger, pool, owner, drawn, record>> /\ proc' = [proc EXCEPT ![p] = u]
    BY <1>2, <2>1, <2>2 DEF Crash, GoTo
  <2> QED
    BY <2>1, <2>3, <2>6, <2>7, <2>8, KeptMovesInv DEF KeptMoves
<1>3. CASE Drop /\ UNCHANGED <<contractVars, nodeFrame>>
  BY <1>3, ElsewhereKept DEF Drop
<1>4. CASE (Expires \/ PriceMoves) /\ UNCHANGED <<accountVars, nodeFrame>>
  BY <1>4, ElsewhereKept DEF Expires, PriceMoves
<1>5. CASE RivalRegisters /\ UNCHANGED <<accountVars, nodeFrame>>
  BY <1>5, ElsewhereKept DEF RivalRegisters
<1> QED
  BY <1>1, <1>2, <1>3, <1>4, <1>5, TimesOutKept DEF Trouble

LEMMA NextKept ==
  ASSUME Inv, KeptInv, [Next]_vars
  PROVE  KeptInv'
<1>1. ASSUME NEW p \in Procs, Step(p) PROVE KeptInv'
  <2>1. CASE DryRun(p) \/ Sign(p) \/ Watch(p)
    BY <2>1, CallStepKept, KeptMovesInv DEF DryRun, Sign, Watch
  <2>2. CASE Send(p)
    <3>1. PICK out \in {"stale", "pool", "inflight"} :
             /\ Submit(proc[p].call, proc[p].nonce, out)
             /\ IF out = "inflight" THEN GoTo(p, "watch") ELSE CallFails(p)
      BY <2>2 DEF Send
    <3>2. CASE out = "inflight"
      BY <2>2, <3>1, <3>2, SendKept
    <3>3. CASE out # "inflight"
      <4>1. UNCHANGED <<ledger, pool, owner, record, drawn>>
        BY <2>2, <3>1, <3>3 DEF Send, Submit
      <4> QED
        BY <2>2, <3>1, <3>3, <4>1, CallStepKept, KeptMovesInv
    <3> QED
      BY <3>2, <3>3
  <2> QED
    BY <1>1, <2>1, <2>2, PlainStepKept, SaveKept, FillKept, ForgetKept, ResumeStepKept,
       CheckKept DEF Step
<1>2. ASSUME Chain PROVE KeptInv'
  <2>1. CASE Execute
    BY <1>2, <2>1, ExecuteKept DEF Chain
  <2>2. CASE Ripens /\ UNCHANGED accountVars
    BY <1>2, <2>2, ElsewhereKept DEF Chain, Ripens
  <2> QED
    BY <1>2, <2>1, <2>2 DEF Chain
<1>3. CASE UNCHANGED vars
  BY <1>3, ElsewhereKept DEF vars
<1> QED
  BY <1>1, <1>2, <1>3, StartKept, TroubleKept DEF Next, Quiet

LEMMA InitKept == Init => KeptInv
<1> SUFFICES ASSUME Init PROVE KeptInv
  OBVIOUS
<1>1. SecretsInv /\ PoolAhead
  BY DEF Init, SecretsInv, PoolAhead, IsOld, NoJob
<1>2. ASSUME NEW p \in Procs PROVE Kept(proc[p]) /\ ~Own(proc[p])
  <2>1. /\ proc[p].pc = "idle" /\ proc[p].job = NoJob /\ proc[p].file = "none"
        /\ proc[p].resuming = FALSE /\ drawn = 0
    BY DEF Init, IdleTerminal
  <2>2. NoJob.secret <= drawn
    BY <2>1 DEF NoJob
  <2> QED
    BY <2>1, <2>2 DEF Kept, Unwritten, Own, Calling
<1> QED
  BY <1>1, <1>2 DEF KeptInv, Distinct

LEMMA KeptInvariance == Spec => [](Inv /\ KeptInv)
<1>1. Inv /\ KeptInv /\ [Next]_vars => Inv' /\ KeptInv'
  BY NextKept, NextInv
<1> QED
  BY <1>1, InitInv, InitKept, PTL DEF Spec

\* README: a reveal that is interrupted can be resumed.  For any number of terminals that
\* share account and records, and any timeouts, failing disks, dropped transactions, rivals
\* and failing reads: a command that fails after its commitment was executed, with the
\* name still free, has left the record of this commitment, or has reported that it could
\* not be saved or that the commitment was not answered, or another terminal has taken
\* the record away since.
THEOREM FailuresResumable == Spec => []FailedIsResumable
<1>1. Inv /\ KeptInv => FailedIsResumable
  <2> SUFFICES ASSUME Inv, KeptInv, NEW p \in Procs, proc[p].pc = "failed", owner = Nobody,
                      proc[p].job # NoJob, Executed(Mine(proc[p]))
               PROVE  record = proc[p].job \/ Excused(proc[p])
    BY DEF FailedIsResumable, Mine
  <2>1. Kept(proc[p]) /\ proc[p].file \in Files
    BY DEF KeptInv, Inv, TerminalsInv, Terminals
  <2>2. ~Unsent(proc[p])
    BY DEF Unsent, Executed
  <2>3. proc[p].file \notin {"none", "empty"}
    BY <2>1, <2>2 DEF Kept, Unwritten
  <2> QED
    BY <2>1, <2>3 DEF Kept, Excused, Files
<1> QED
  BY <1>1, KeptInvariance, PTL

\* register.ts persists the commitment only behind its finalization.  For any number of
\* terminals, retries and misfortunes: a process that dies after its commitment was
\* executed, with the name still free, takes the only copy of the secret with it between
\* the submission of the commitment and the end of persistCommitment, and at no other
\* time, unless it said that it could not be saved or another terminal took the record.
THEOREM CrashesKeepSecrets == Spec => CrashKeepsSecret
<1> DEFINE Dies(p) == /\ Busy(p) /\ proc'[p].pc = "down" /\ owner = Nobody
                      /\ proc[p].job # NoJob /\ Executed(CommitCall(HashOf(proc[p].job)))
           Safe(p) == \/ record = proc[p].job \/ Excused(proc[p])
                      \/ proc[p].pc \in {"watch", "save", "fill"} /\ ~proc[p].resuming
<1>1. ASSUME Inv, KeptInv, NEW p \in Procs, Dies(p)
      PROVE  Safe(p)
  <2>1. /\ Kept(proc[p]) /\ proc[p].file \in Files /\ proc[p].pc \notin Ended
        /\ Good(proc[p], ledger, owner)
    BY <1>1 DEF KeptInv, Inv, TerminalsInv, Terminals, Busy
  <2>2. ~Unsent(proc[p])
    BY <1>1 DEF Unsent, Executed, Mine
  <2>3. CASE proc[p].file = "none"
    BY <1>1, <2>1, <2>2, <2>3 DEF Kept, Unwritten, Calling, Ended
  <2>4. CASE proc[p].file = "empty"
    BY <1>1, <2>1, <2>4 DEF Kept, Good, Ended
  <2>5. CASE proc[p].file \notin {"none", "empty"}
    BY <1>1, <2>1, <2>5 DEF Kept, Excused, Files, Ended
  <2> QED
    BY <2>3, <2>4, <2>5
<1>2. Inv /\ KeptInv /\ [Next]_vars => [\A p \in Procs : Dies(p) => Safe(p)]_vars
  BY <1>1
<1> QED
  BY <1>2, KeptInvariance, PTL DEF Spec, CrashKeepsSecret
=============================================================================
