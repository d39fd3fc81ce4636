-------------------------- MODULE BrowserContentProofs --------------------------
(***************************************************************************)
(* Proofs about BrowserContent, for any files and documents, any addresses *)
(* and any number of uploads, fetches, retries and misfortunes.            *)
(***************************************************************************)
EXTENDS BrowserContent, WellFoundedInduction, SequenceTheorems, TLAPS

(***************************************************************************)
(* The inductive invariant.                                                *)
(***************************************************************************)
\* What the variables hold.
FileCids  == {CidOf(f) : f \in Files}
RunPoints == {"prepare", "store", "backoff", "stored", "verify", "cache"} \union Over
Dones     == UNION {[D -> Blocks] : D \in SUBSET Nat}
Runs      ==
    [file : Files, pc : RunPoints, done : Dones, cid : FileCids \union {NoCid},
     attempt : 0..StoreRetries, timer : BOOLEAN, worker : BOOLEAN]
PageStates ==
    [uploading : BOOLEAN, stage : {"idle", "working", "caching", "done", "error"},
     error : BOOLEAN, cid : FileCids \union {NoCid}, verified : BOOLEAN]
Forms     ==
    [mounted : BOOLEAN, selected : Files \union {NoFile}, expected : Files \union {NoFile},
     pending : Files \union {NoFile}, dialog : {"closed", "waits", "over"}]
Sites     == Blocks \union Places
Views     ==
    [loading : BOOLEAN, error : BOOLEAN, shown : Sites \union {NoCid}, blocked : BOOLEAN, active : Nat]
Fetches   ==
    [cid : Sites, aborted : BOOLEAN, pc : {"cached", "walks", "over"}, content : Blocks \union {NoCid}]
Ids       == {"upload", "preview"} \X Nat \X Seq(Nat)

StoreType == page \in PageStates /\ form \in Forms /\ faults \in 0..MaxFaults
             /\ preimages \subseteq Blocks

\* A lookup that found a block found one the host has.
LookupOf(cid) == [cid : {cid}, value : Values, subscribed : BOOLEAN, timer : BOOLEAN]
IsLookup(l) ==
    /\ l \in LookupOf(l.cid)
    /\ LookupType(l) /\ (l.value = "opening" => ~l.subscribed /\ ~l.timer)
IsFunction(f) == f = [x \in DOMAIN f |-> f[x]]
LookupsOk(ls) ==
    /\ DOMAIN ls \subseteq Ids /\ IsFunction(ls)
    /\ \A id \in DOMAIN ls :
          /\ IsLookup(ls[id]) /\ Len(id[3]) <= MaxDagDepth
          /\ ls[id].value = "block" => ls[id].cid \in preimages
LookupInv == LookupsOk(lookups)

\* What is recorded of a file are chunks of it that the host has.
Sound(f, done) ==
    /\ DOMAIN done \subseteq DOMAIN ChunksOf[f]
    /\ \A i \in DOMAIN done : done[i] = ChunksOf[f][i] /\ done[i] \in preimages
Published(r) ==
    r.cid # NoCid => /\ r.cid = CidOf(r.file) /\ r.cid \in preimages
                     /\ \A i \in DOMAIN r.cid.links : r.cid.links[i] \in preimages

RunInv(u) ==
    LET r == uploads[u]
    IN  /\ Sound(r.file, r.done) /\ (~IsChunked(r.file) => r.done = NoChunks)
        /\ r.pc = "stored" => Block(u) \in preimages
        /\ r.pc = "backoff" => r.attempt < StoreRetries
        /\ r.pc \in {"verify", "cache"} => r.cid # NoCid
        /\ Published(r)
UploadsInv ==
    /\ uploads \in Seq(Runs) /\ \A u \in DOMAIN uploads : RunInv(u)
ResumeInv ==
    \/ resume = NoRecord
    \/ /\ resume.file \in Files /\ resume.done \in Dones
       /\ resume = [file |-> resume.file, done |-> resume.done] /\ Sound(resume.file, resume.done)
HandOffInv ==
    \/ handOff = NoEntry
    \/ handOff.file \in Files /\ handOff = [cid |-> CidOf(handOff.file), file |-> handOff.file]

\* The last fetch, as long as it may still come back and be shown.
Live == fetch # <<>> /\ fetch[Len(fetch)].pc # "over" /\ ~fetch[Len(fetch)].aborted
ViewType ==
    /\ view \in Views /\ fetch \in Seq(Fetches) /\ route \in Sites
    /\ view.active <= Len(fetch) /\ Len(fetch) <= MaxFetches
ViewInv ==
    /\ view.shown # NoCid => route = Malformed \/ view.shown = route
    /\ route = Malformed => view.error
    /\ \A r \in DOMAIN fetch : fetch[r].pc = "cached" => fetch[r].content = fetch[r].cid
    /\ Live => view.active = Len(fetch) /\ (route = Malformed \/ fetch[Len(fetch)].cid = route)
    /\ route = Elsewhere => ~Live

IInv ==
    StoreType /\ LookupInv /\ UploadsInv /\ ResumeInv /\ HandOffInv /\ ViewType /\ ViewInv

USE DEF NoFile, NoRecord, NoEntry, Over, uploadVars, previewVars, hostVars, formFrame,
        previewFrame, others

(***************************************************************************)
(* Blocks and the chunks of a file.                                        *)
(***************************************************************************)
LEMMA Least ==
  ASSUME NEW T, T \subseteq Nat, T # {}
  PROVE  \E i \in T : \A j \in T : i <= j
<1>1. PICK i \in T : \A j \in T : <<j, i>> \notin OpToRel(<, Nat)
  BY NatLessThanWellFounded, WFMin, Zenon
<1>2. \A j \in T : ~(j < i)
  BY <1>1 DEF OpToRel
<1> QED
  BY <1>2

LEMMA Leaves ==
  /\ \A n : Leaf(n).links = <<>> /\ Leaf(n).declared = 1 /\ Leaf(n).name = n
  /\ \A ls, d : Node(ls, d).links = ls /\ Node(ls, d).name = "node"
  /\ Elsewhere.name = "elsewhere" /\ Elsewhere.declared = 0 /\ Elsewhere.links = <<>>
BY DEF Leaf, Node, Elsewhere, Place

\* A file is a sequence of leaves.
LEMMA FileChunks ==
  ASSUME NEW f \in Files
  PROVE  /\ f # NoFile /\ Len(ChunksOf[f]) \in Nat \ {0}
         /\ DOMAIN ChunksOf[f] = 1..Len(ChunksOf[f])
         /\ ChunksOf[f] = [i \in DOMAIN ChunksOf[f] |-> ChunksOf[f][i]]
         /\ \A i \in DOMAIN ChunksOf[f] :
               /\ ChunksOf[f][i] \in Blocks /\ ChunksOf[f][i] # NoCid
               /\ ChunksOf[f][i].links = <<>> /\ ChunksOf[f][i].declared = 1
         /\ 1 \in DOMAIN ChunksOf[f] /\ DOMAIN ChunksOf[f] \subseteq Nat
<1> DEFINE chunks == Range(ChunksOf[f])
<1>1. ChunksOf[f] \in Seq(chunks) /\ Len(ChunksOf[f]) > 0 /\ f # NoFile
      /\ \A c \in chunks : c = Leaf(c.name) /\ c # NoCid
  BY FilesAssumption
<1>2. \A i \in DOMAIN ChunksOf[f] : ChunksOf[f][i] \in chunks
  BY DEF Range
<1>3. chunks \subseteq Blocks
  BY DEF Blocks
<1> HIDE DEF chunks
<1>4. /\ Len(ChunksOf[f]) \in Nat /\ DOMAIN ChunksOf[f] = 1..Len(ChunksOf[f])
      /\ ChunksOf[f] \in [1..Len(ChunksOf[f]) -> chunks]
  BY <1>1
<1>5. 1 \in DOMAIN ChunksOf[f] /\ DOMAIN ChunksOf[f] \subseteq Nat
  BY <1>1, <1>4
<1>6. ASSUME NEW i \in DOMAIN ChunksOf[f]
      PROVE  ChunksOf[f][i].links = <<>> /\ ChunksOf[f][i].declared = 1
  BY <1>1, <1>2, Leaves
<1> QED
  BY <1>1, <1>2, <1>3, <1>4, <1>5, <1>6

LEMMA FileCid ==
  ASSUME NEW f \in Files
  PROVE  /\ CidOf(f) \in Blocks /\ CidOf(f) # NoCid /\ CidOf(f) # Elsewhere
         /\ CidOf(f) \in FileCids
<1>1. CidOf(f) \in Blocks /\ CidOf(f) \in FileCids
  BY DEF Blocks, FileCids
<1>2. CASE IsChunked(f)
  <2>1. CidOf(f).links = ChunksOf[f] /\ CidOf(f).name = "node"
    BY <1>2, Leaves DEF CidOf, RootOf
  <2>2. ChunksOf[f] # <<>>
    BY FileChunks
  <2>3. NoCid.links = <<>>
    BY Leaves DEF NoCid
  <2> QED
    BY <1>1, <2>1, <2>2, <2>3, Leaves
<1>3. CASE ~IsChunked(f)
  <2>1. 1 \in DOMAIN ChunksOf[f] /\ CidOf(f) = ChunksOf[f][1]
    BY <1>3, FileChunks DEF CidOf
  <2>2. ChunksOf[f][1] # NoCid /\ ChunksOf[f][1].declared = 1
    BY <2>1, FileChunks
  <2> QED
    BY <1>1, <2>1, <2>2, Leaves
<1> QED
  BY <1>2, <1>3

\* What is a block has a sequence of links, and is not the mark of having none.
LEMMA BlockLinks ==
  ASSUME NEW b \in Blocks
  PROVE  b # NoCid /\ DOMAIN b.links \subseteq Nat
<1>1. CASE b \in Shared
  <2>1. b.links \in Seq(Range(b.links)) /\ b # NoCid
    BY <1>1, PreviewAssumption
  <2>2. DOMAIN b.links = 1..Len(b.links) /\ Len(b.links) \in Nat
    BY <2>1
  <2> QED
    BY <2>1, <2>2
<1>2. CASE \E f \in Files : b = CidOf(f)
  <2>1. PICK f \in Files : b = CidOf(f)
    BY <1>2
  <2>2. DOMAIN ChunksOf[f] \subseteq Nat /\ 1 \in DOMAIN ChunksOf[f]
    BY FileChunks
  <2>3. b.links = ChunksOf[f] \/ b.links = <<>>
    BY <2>1, <2>2, FileChunks, Leaves DEF CidOf, RootOf
  <2>4. DOMAIN <<>> \subseteq Nat
    OBVIOUS
  <2> QED
    BY <2>1, <2>2, <2>3, <2>4, FileCid
<1>3. CASE \E f \in Files : b \in Range(ChunksOf[f])
  <2>1. PICK f \in Files : b \in Range(ChunksOf[f])
    BY <1>3
  <2>2. PICK i \in DOMAIN ChunksOf[f] : b = ChunksOf[f][i]
    BY <2>1 DEF Range
  <2>3. b # NoCid /\ b.links = <<>>
    BY <2>2, FileChunks, Leaves
  <2>4. DOMAIN <<>> \subseteq Nat
    OBVIOUS
  <2> QED
    BY <2>3, <2>4
<1> QED
  BY <1>1, <1>2, <1>3 DEF Blocks

LEMMA NoneRecorded ==
  /\ NoChunks \in Dones /\ DOMAIN NoChunks = {} /\ \A f \in Files : Sound(f, NoChunks)
<1>1. DOMAIN NoChunks = {} /\ NoChunks \in [{} -> Blocks]
  BY DEF NoChunks
<1>2. {} \in SUBSET Nat
  OBVIOUS
<1>3. NoChunks \in Dones
  BY <1>1, <1>2 DEF Dones
<1> QED
  BY <1>1, <1>3 DEF Sound

(***************************************************************************)
(* What an upload stores.                                                  *)
(***************************************************************************)
\* What was read of an upload that is there.
LEMMA RunTypes ==
  ASSUME UploadsInv, NEW u \in DOMAIN uploads
  PROVE  /\ uploads[u] \in Runs /\ uploads[u].file \in Files /\ RunInv(u)
         /\ Sound(uploads[u].file, uploads[u].done)
<1>1. uploads[u] \in Runs /\ RunInv(u)
  BY DEF UploadsInv
<1> QED
  BY <1>1 DEF RunInv, Runs

LEMMA NextIsMissing ==
  ASSUME UploadsInv, NEW u \in DOMAIN uploads, ~AllStored(u)
  PROVE  NextChunk(u) \in Missing(u) /\ NextChunk(u) \in DOMAIN ChunksOf[uploads[u].file]
<1>1. Missing(u) \subseteq Nat /\ Missing(u) # {}
  BY RunTypes, FileChunks DEF Missing, AllStored
<1>2. \E i \in Missing(u) : \A j \in Missing(u) : i <= j
  BY <1>1, Least
<1>3. NextChunk(u) \in Missing(u)
  BY <1>2 DEF NextChunk
<1> QED
  BY <1>3 DEF Missing

\* When every chunk is recorded, what is recorded is the file.
LEMMA AllOfIt ==
  ASSUME UploadsInv, NEW u \in DOMAIN uploads, AllStored(u)
  PROVE  /\ Links(u) = ChunksOf[uploads[u].file] /\ IsChunked(uploads[u].file)
         /\ Block(u) = CidOf(uploads[u].file)
         /\ \A i \in DOMAIN ChunksOf[uploads[u].file] : ChunksOf[uploads[u].file][i] \in preimages
<1> DEFINE f == uploads[u].file
           done == uploads[u].done
<1>1. f \in Files /\ Sound(f, done) /\ (~IsChunked(f) => done = NoChunks)
  BY RunTypes DEF RunInv
<1>2. DOMAIN ChunksOf[f] = DOMAIN done
  BY <1>1 DEF AllStored, Missing, Sound
<1>3. IsChunked(f)
  BY <1>1, <1>2, FileChunks, NoneRecorded
<1>4. \A i \in DOMAIN ChunksOf[f] : done[i] = ChunksOf[f][i] /\ done[i] \in preimages
  BY <1>1, <1>2 DEF Sound
<1>5. Links(u) = ChunksOf[f]
  BY <1>1, <1>4, FileChunks DEF Links
<1>6. Block(u) = CidOf(f)
  BY <1>3, <1>5 DEF Block, CidOf
<1> QED
  BY <1>3, <1>4, <1>5, <1>6

LEMMA ChunkOfIt ==
  ASSUME UploadsInv, NEW u \in DOMAIN uploads, ~AllStored(u)
  PROVE  /\ Block(u) = ChunksOf[uploads[u].file][NextChunk(u)]
         /\ ~IsChunked(uploads[u].file) => Block(u) = CidOf(uploads[u].file)
<1>1. Block(u) = ChunksOf[uploads[u].file][NextChunk(u)]
  BY DEF Block
<1>2. CASE ~IsChunked(uploads[u].file)
  <2>1. NextChunk(u) \in DOMAIN ChunksOf[uploads[u].file] /\ uploads[u].file \in Files
    BY NextIsMissing, RunTypes
  <2>2. Len(ChunksOf[uploads[u].file]) \in Nat /\ ~(Len(ChunksOf[uploads[u].file]) > 1)
        /\ DOMAIN ChunksOf[uploads[u].file] = 1..Len(ChunksOf[uploads[u].file])
    BY <1>2, <2>1, FileChunks DEF IsChunked
  <2>3. NextChunk(u) = 1
    BY <2>1, <2>2
  <2> QED
    BY <1>1, <1>2, <2>3 DEF CidOf
<1> QED
  BY <1>1, <1>2

LEMMA BlockIsBlock ==
  ASSUME UploadsInv, NEW u \in DOMAIN uploads
  PROVE  Block(u) \in Blocks
<1>1. uploads[u].file \in Files
  BY RunTypes
<1>2. CASE AllStored(u)
  BY <1>1, <1>2, AllOfIt, FileCid
<1>3. CASE ~AllStored(u)
  BY <1>1, <1>3, ChunkOfIt, NextIsMissing, FileChunks
<1> QED
  BY <1>2, <1>3

(***************************************************************************)
(* What a step of an upload leaves.                                        *)
(***************************************************************************)
LEMMA StageType ==
  ASSUME NEW stage \in {"working", "caching", "done", "error"}, NEW p \in PageStates,
         form \in Forms, Stage(stage, p)
  PROVE  page' \in PageStates /\ form' \in Forms
<1>1. page' \in PageStates
  BY DEF Stage, PageStates
<1>2. [form EXCEPT !.dialog = "waits"] \in Forms /\ [form EXCEPT !.dialog = "over"] \in Forms
  BY DEF Forms
<1>3. \/ form' = form \/ form' = [form EXCEPT !.dialog = "waits"]
      \/ form' = [form EXCEPT !.dialog = "over"]
  BY DEF Stage
<1> QED
  BY <1>1, <1>2, <1>3

LEMMA MoreIsStored ==
  ASSUME preimages \subseteq preimages'
  PROVE  \A f, done : Sound(f, done) => Sound(f, done)'
BY DEF Sound

LEMMA SameBlock ==
  ASSUME NEW u, uploads'[u].file = uploads[u].file, uploads'[u].done = uploads[u].done
  PROVE  Block(u)' = Block(u)
BY DEF Block, AllStored, Links, NextChunk, Missing

\* One upload changes, the others see only that more is stored.
LEMMA RunsKeep ==
  ASSUME UploadsInv, NEW u \in DOMAIN uploads, NEW r \in Runs,
         uploads' = [uploads EXCEPT ![u] = r], preimages \subseteq preimages', RunInv(u)'
  PROVE  UploadsInv'
<1>1. uploads \in Seq(Runs)
  BY DEF UploadsInv
<1>2. uploads' \in Seq(Runs) /\ DOMAIN uploads' = DOMAIN uploads
  BY <1>1
<1>3. ASSUME NEW v \in DOMAIN uploads', v # u
      PROVE  RunInv(v)'
  <2>1. uploads'[v] = uploads[v] /\ RunInv(v)
    BY <1>1, <1>2, <1>3 DEF UploadsInv
  <2>2. Block(v)' = Block(v)
    BY <2>1, SameBlock
  <2> QED
    BY <2>1, <2>2, MoreIsStored DEF RunInv, Published
<1> QED
  BY <1>2, <1>3 DEF UploadsInv

\* A step that stores and records nothing, or that forgets what was recorded.
LEMMA RunStays ==
  ASSUME UploadsInv, NEW u \in DOMAIN uploads, NEW r \in Runs,
         uploads' = [uploads EXCEPT ![u] = r], preimages \subseteq preimages',
         r.file = uploads[u].file, r.cid = uploads[u].cid,
         \/ r.done = uploads[u].done /\ (r.pc = "stored" => Block(u) \in preimages')
         \/ r.done = NoChunks /\ r.pc # "stored",
         r.pc = "backoff" => r.attempt < StoreRetries,
         r.pc \in {"verify", "cache"} => r.cid # NoCid
  PROVE  UploadsInv'
<1>1. uploads'[u] = r /\ RunInv(u) /\ uploads[u].file \in Files
  BY RunTypes DEF UploadsInv
<1>2. Sound(r.file, r.done)' /\ (~IsChunked(r.file) => r.done = NoChunks)
  BY <1>1, MoreIsStored, NoneRecorded DEF RunInv
<1>3. Published(r)'
  BY <1>1 DEF RunInv, Published
<1>4. r.pc = "stored" => Block(u)' \in preimages'
  BY <1>1, SameBlock
<1>5. RunInv(u)'
  BY <1>1, <1>2, <1>3, <1>4 DEF RunInv
<1> QED
  BY <1>5, RunsKeep

(***************************************************************************)
(* Lookups: some become others, and some are added.                        *)
(***************************************************************************)
LEMMA LookupsBecome ==
  ASSUME NEW ls, LookupsOk(ls), lookups' = ls, preimages \subseteq preimages'
  PROVE  LookupInv'
BY DEF LookupInv, LookupsOk, IsLookup, LookupOf, LookupType, Settled

LEMMA IdsAre ==
  /\ \A n \in Nat, p \in Seq(Nat) : Walk(n, p) \in Ids /\ Walk(n, p)[3] = p
  /\ \A n \in Nat : /\ Verifying(n) \in Ids /\ Len(Verifying(n)[3]) <= MaxDagDepth
                   /\ Walk(n, <<>>) \in Ids /\ Len(Walk(n, <<>>)[3]) <= MaxDagDepth
<1>1. \A n \in Nat, p \in Seq(Nat) :
         <<"preview", n, p>> \in Ids /\ <<"upload", n, p>> \in Ids
  BY DEF Ids
<1>2. <<>> \in Seq(Nat) /\ Len(<<>>) = 0
  OBVIOUS
<1>3. \A n, p : Walk(n, p) = <<"preview", n, p>> /\ Walk(n, p)[3] = p
  BY DEF Walk
<1>4. \A n : Verifying(n) = <<"upload", n, <<>> >> /\ Verifying(n)[3] = <<>>
  BY DEF Verifying
<1>5. 0 <= MaxDagDepth
  BY PreviewAssumption
<1>6. \A n \in Nat, p \in Seq(Nat) : Walk(n, p) \in Ids /\ Walk(n, p)[3] = p
  BY <1>1, <1>3
<1>7. \A n \in Nat : Verifying(n) \in Ids /\ Verifying(n)[3] = <<>>
  BY <1>1, <1>2, <1>4
<1> QED
  BY <1>2, <1>5, <1>6, <1>7

LEMMA OneIsOk ==
  ASSUME NEW id \in Ids, Len(id[3]) <= MaxDagDepth, NEW cid
  PROVE  LookupsOk(OneLookup(id, cid))
<1> DEFINE ls == OneLookup(id, cid)
<1>1. DOMAIN ls = {id} /\ ls[id] = NewLookup(cid) /\ IsFunction(ls)
  BY DEF OneLookup, IsFunction
<1>2. IsLookup(NewLookup(cid)) /\ NewLookup(cid).value = "opening"
  BY DEF IsLookup, LookupOf, NewLookup, LookupType, Values, Settled
<1> HIDE DEF ls
<1>3. LookupsOk(ls)
  BY <1>1, <1>2 DEF LookupsOk
<1> QED
  BY <1>3 DEF ls

LEMMA MoreIsOk ==
  ASSUME NEW ls, NEW more, LookupsOk(ls), LookupsOk(more)
  PROVE  LookupsOk(MoreLookups(ls, more))
<1> DEFINE all == MoreLookups(ls, more)
<1>1. DOMAIN all = DOMAIN ls \union DOMAIN more /\ IsFunction(all)
  BY DEF MoreLookups, IsFunction
<1>2. \A i \in DOMAIN all :
         \/ i \in DOMAIN ls /\ all[i] = ls[i]
         \/ i \in DOMAIN more /\ all[i] = more[i]
  BY DEF MoreLookups
<1> HIDE DEF all
<1>3. LookupsOk(all)
  BY <1>1, <1>2 DEF LookupsOk
<1> QED
  BY <1>3 DEF all

LEMMA AbortKeeps ==
  ASSUME NEW ls, LookupsOk(ls), NEW r
  PROVE  LookupsOk(AbortLookups(ls, r))
<1> DEFINE all == AbortLookups(ls, r)
<1>1. DOMAIN all = DOMAIN ls /\ IsFunction(all)
  BY DEF AbortLookups, IsFunction
<1>2. \A i \in DOMAIN ls : all[i] = ls[i] \/ all[i] = Aborted(ls[i])
  BY DEF AbortLookups
<1>3. \A l : IsLookup(l) => IsLookup(Aborted(l)) /\ (Aborted(l).value = "block" => Aborted(l) = l)
  BY DEF IsLookup, LookupOf, Aborted, Finish, LookupType, Settled, Values
<1> HIDE DEF all
<1>4. LookupsOk(all)
  BY <1>1, <1>2, <1>3 DEF LookupsOk
<1> QED
  BY <1>4 DEF all

\* What changes nothing else.
LEMMA LookupsStay ==
  ASSUME LookupInv, UNCHANGED lookups, preimages \subseteq preimages'
  PROVE  LookupInv'
BY LookupsBecome DEF LookupInv

LEMMA ResumeStays ==
  ASSUME ResumeInv, UNCHANGED resume, preimages \subseteq preimages'
  PROVE  ResumeInv'
BY MoreIsStored DEF ResumeInv

LEMMA UploadsStay ==
  ASSUME UploadsInv, UNCHANGED uploads, preimages \subseteq preimages'
  PROVE  UploadsInv'
<1>1. \A u : Block(u)' = Block(u)
  BY SameBlock
<1> QED
  BY <1>1, MoreIsStored DEF UploadsInv, RunInv, Published

LEMMA ViewStays ==
  ASSUME ViewType, ViewInv, UNCHANGED previewVars
  PROVE  ViewType' /\ ViewInv'
BY DEF ViewType, ViewInv, Live

(***************************************************************************)
(* The steps of an upload.                                                 *)
(***************************************************************************)
LEMMA FaultsType ==
  ASSUME faults \in 0..MaxFaults, Fortune \/ Misfortune
  PROVE  faults' \in 0..MaxFaults
BY LimitsAssumption DEF Fortune, Misfortune

\* What an upload may do to the state, when it stores nothing wrong.
LEMMA UploadKeeps ==
  ASSUME IInv, UploadsInv', ResumeInv', HandOffInv', LookupInv', page' \in PageStates, form' \in Forms,
         preimages' \subseteq Blocks, Fortune \/ Misfortune, UNCHANGED previewVars
  PROVE  IInv'
BY FaultsType, ViewStays DEF IInv, StoreType

LEMMA ThrowKeeps ==
  ASSUME IInv, NEW u \in DOMAIN uploads, Throw(u), Fortune \/ Misfortune, UNCHANGED previewVars
  PROVE  IInv'
<1> DEFINE r == [uploads[u] EXCEPT !.pc = "failed", !.timer = FALSE, !.worker = FALSE,
                                   !.attempt = 0, !.done = NoChunks]
<1>1. UploadsInv /\ uploads[u] \in Runs /\ page \in PageStates /\ form \in Forms
  BY RunTypes DEF IInv, StoreType
<1>2. r \in Runs /\ r.file = uploads[u].file /\ r.cid = uploads[u].cid /\ r.done = NoChunks
      /\ r.pc = "failed"
  <2>1. 0 \in 0..StoreRetries
    BY LimitsAssumption
  <2>2. \A d \in Dones :
           LET s == [uploads[u] EXCEPT !.pc = "failed", !.timer = FALSE, !.worker = FALSE,
                                       !.attempt = 0, !.done = d]
           IN  s \in Runs /\ s.file = uploads[u].file /\ s.cid = uploads[u].cid /\ s.done = d
               /\ s.pc = "failed"
    BY <1>1, <2>1 DEF Runs, RunPoints
  <2> QED
    BY <2>2, NoneRecorded
<1>3. uploads' = [uploads EXCEPT ![u] = r]
  BY <1>1 DEF Throw, UploadsInv
<1> HIDE DEF r
<1>4. UNCHANGED <<preimages, lookups, resume, handOff>>
  BY DEF Throw
<1>5. UploadsInv'
  BY <1>1, <1>2, <1>3, <1>4, RunStays
<1>6. [page EXCEPT !.error = TRUE, !.uploading = FALSE] \in PageStates
  BY <1>1 DEF PageStates
<1>7. page' \in PageStates /\ form' \in Forms
  BY <1>1, <1>6, StageType DEF Throw
<1> QED
  BY <1>4, <1>5, <1>7, UploadKeeps, LookupsStay, ResumeStays DEF IInv, StoreType, HandOffInv

LEMMA PreparedKeeps ==
  ASSUME IInv, NEW u \in DOMAIN uploads, Prepared(u), UNCHANGED previewVars
  PROVE  IInv'
<1> DEFINE r == [uploads[u] EXCEPT !.pc = "store"]
<1>1. UploadsInv /\ uploads[u] \in Runs /\ page \in PageStates /\ form \in Forms
  BY RunTypes DEF IInv, StoreType
<1>2. r \in Runs /\ r.file = uploads[u].file /\ r.cid = uploads[u].cid /\ r.done = uploads[u].done
      /\ r.pc = "store"
  BY <1>1 DEF Runs, RunPoints
<1>3. uploads' = [uploads EXCEPT ![u] = r]
  BY <1>1 DEF Prepared, UploadsInv
<1> HIDE DEF r
<1>4. UNCHANGED <<preimages, lookups, resume, handOff>>
  BY DEF Prepared
<1>5. UploadsInv'
  BY <1>1, <1>2, <1>3, <1>4, RunStays
<1>6. page' \in PageStates /\ form' \in Forms
  BY <1>1, StageType DEF Prepared
<1> QED
  BY <1>4, <1>5, <1>6, UploadKeeps, LookupsStay, ResumeStays DEF IInv, StoreType, HandOffInv, Prepared

LEMMA StoringKeeps ==
  ASSUME IInv, NEW u \in DOMAIN uploads, Store(u) \/ StoreErrs(u) \/ RetryStore(u),
         UNCHANGED previewVars
  PROVE  IInv'
<1>1. UploadsInv /\ uploads[u] \in Runs /\ page \in PageStates /\ form \in Forms
      /\ uploads \in Seq(Runs) /\ RunInv(u)
  BY RunTypes DEF IInv, StoreType, UploadsInv
<1>2. UNCHANGED <<lookups, page, form, resume, handOff>> /\ (Fortune \/ Misfortune)
  BY DEF Store, StoreErrs, RetryStore
<1>3. preimages' = preimages \/ preimages' = preimages \union {Block(u)}
  BY DEF Store, StoreErrs, RetryStore
<1>4. preimages \subseteq preimages' /\ preimages' \subseteq Blocks
  BY <1>1, <1>3, BlockIsBlock DEF IInv, StoreType
<1>5. UploadsInv'
  <2>1. CASE Store(u)
    <3> DEFINE r == [uploads[u] EXCEPT !.pc = "stored", !.attempt = 0]
    <3>1. r \in Runs /\ r.file = uploads[u].file /\ r.cid = uploads[u].cid /\ r.done = uploads[u].done
          /\ r.pc = "stored"
      <4>1. 0 \in 0..StoreRetries
        BY LimitsAssumption
      <4> QED
        BY <1>1, <4>1 DEF Runs, RunPoints
    <3>2. uploads' = [uploads EXCEPT ![u] = r] /\ Block(u) \in preimages'
      BY <1>1, <2>1 DEF Store
    <3> HIDE DEF r
    <3> QED
      BY <1>1, <1>4, <3>1, <3>2, RunStays
  <2>2. CASE StoreErrs(u)
    <3> DEFINE r == [uploads[u] EXCEPT !.pc = "backoff"]
    <3>1. r \in Runs /\ r.file = uploads[u].file /\ r.cid = uploads[u].cid /\ r.done = uploads[u].done
          /\ r.pc = "backoff" /\ r.attempt = uploads[u].attempt
      BY <1>1 DEF Runs, RunPoints
    <3>2. uploads' = [uploads EXCEPT ![u] = r] /\ uploads[u].attempt < StoreRetries
      BY <1>1, <2>2 DEF StoreErrs
    <3> HIDE DEF r
    <3> QED
      BY <1>1, <1>4, <3>1, <3>2, RunStays
  <2>3. CASE RetryStore(u)
    <3>1. uploads[u].attempt + 1 \in 0..StoreRetries
      BY <1>1, <2>3, LimitsAssumption DEF RetryStore, RunInv, Runs
    <3>2. \A k \in 0..StoreRetries :
             LET r == [uploads[u] EXCEPT !.pc = "store", !.attempt = k]
             IN  r \in Runs /\ r.file = uploads[u].file /\ r.cid = uploads[u].cid
                 /\ r.done = uploads[u].done /\ r.pc = "store"
      BY <1>1 DEF Runs, RunPoints
    <3> DEFINE r == [uploads[u] EXCEPT !.pc = "store", !.attempt = uploads[u].attempt + 1]
    <3>3. r \in Runs /\ r.file = uploads[u].file /\ r.cid = uploads[u].cid /\ r.done = uploads[u].done
          /\ r.pc = "store"
      BY <3>1, <3>2
    <3>4. uploads' = [uploads EXCEPT ![u] = r]
      BY <1>1, <2>3 DEF RetryStore
    <3> HIDE DEF r
    <3> QED
      BY <1>1, <1>4, <3>3, <3>4, RunStays
  <2> QED
    BY <2>1, <2>2, <2>3
<1> QED
  BY <1>1, <1>2, <1>4, <1>5, UploadKeeps, LookupsStay, ResumeStays DEF IInv, HandOffInv

\* A file's chunk or root is known: the host is asked for it.
LEMMA VerifyKeeps ==
  ASSUME IInv, NEW u \in DOMAIN uploads, Record(u), AllStored(u) \/ ~IsChunked(uploads[u].file),
         UNCHANGED previewVars
  PROVE  IInv'
<1> DEFINE f == uploads[u].file
           cid == Block(u)
           r == [uploads[u] EXCEPT !.pc = "verify", !.cid = cid, !.worker = FALSE, !.done = NoChunks]
<1>1. UploadsInv /\ uploads[u] \in Runs /\ page \in PageStates /\ form \in Forms
      /\ uploads \in Seq(Runs) /\ RunInv(u) /\ f \in Files /\ ResumeInv /\ LookupInv
  BY RunTypes DEF IInv, StoreType, UploadsInv
<1>2. /\ Verify(u, cid) /\ (resume' = NoRecord \/ resume' = resume)
      /\ UNCHANGED <<preimages, handOff>> /\ Fortune
  BY DEF Record
<1>3. cid \in preimages /\ cid = CidOf(f)
  BY <1>1, AllOfIt, ChunkOfIt DEF Record, RunInv
<1>4. \A i \in DOMAIN cid.links : cid.links[i] \in preimages
  <2>1. CASE IsChunked(f)
    <3>1. AllStored(u) /\ cid.links = ChunksOf[f]
      BY <1>3, <2>1, Leaves DEF CidOf, RootOf
    <3> QED
      BY <1>1, <3>1, AllOfIt
  <2>2. CASE ~IsChunked(f)
    <3>1. cid = ChunksOf[f][1]
      BY <1>3, <2>2 DEF CidOf
    <3>2. ChunksOf[f][1].links = <<>>
      BY <1>1, FileChunks
    <3> QED
      BY <3>1, <3>2
  <2> QED
    BY <2>1, <2>2
<1>5. cid \in FileCids /\ cid # NoCid
  BY <1>1, <1>3, FileCid
<1>6. /\ r \in Runs /\ r.file = f /\ r.cid = cid /\ r.done = NoChunks /\ r.pc = "verify"
  <2>1. \A d \in Dones, c \in FileCids :
           LET s == [uploads[u] EXCEPT !.pc = "verify", !.cid = c, !.worker = FALSE, !.done = d]
           IN  s \in Runs /\ s.file = f /\ s.cid = c /\ s.done = d /\ s.pc = "verify"
    BY <1>1 DEF Runs, RunPoints
  <2> QED
    BY <1>5, <2>1, NoneRecorded
<1>7. uploads' = [uploads EXCEPT ![u] = r] /\ uploads'[u] = r
  BY <1>1, <1>2 DEF Verify
<1>8. page' \in PageStates /\ form' \in Forms
  <2>1. Stage("working", [page EXCEPT !.cid = cid])
    BY <1>2 DEF Verify
  <2>2. \A c \in FileCids : [page EXCEPT !.cid = c] \in PageStates
    BY <1>1 DEF PageStates
  <2> QED
    BY <1>1, <1>5, <2>1, <2>2, StageType
<1>9. LookupInv'
  <2>1. lookups' = MoreLookups(lookups, OneLookup(Verifying(u), cid)) /\ preimages' = preimages
    BY <1>2 DEF Verify
  <2>2. Verifying(u) \in Ids /\ Len(Verifying(u)[3]) <= MaxDagDepth
    <3>1. u \in Nat
      BY <1>1
    <3> QED
      BY <3>1, IdsAre
  <2>3. LookupsOk(MoreLookups(lookups, OneLookup(Verifying(u), cid)))
    BY <1>1, <2>2, OneIsOk, MoreIsOk DEF LookupInv
  <2> QED
    BY <2>1, <2>3, LookupsBecome
<1> HIDE DEF r, cid
<1>10. RunInv(u)'
  BY <1>2, <1>1, <1>3, <1>4, <1>5, <1>6, <1>7, NoneRecorded DEF RunInv, Published, Sound
<1>11. UploadsInv'
  BY <1>1, <1>2, <1>6, <1>7, <1>10, RunsKeep
<1>12. ResumeInv'
  BY <1>1, <1>2, ResumeStays DEF ResumeInv
<1> QED
  BY <1>2, <1>8, <1>9, <1>11, <1>12, UploadKeeps DEF IInv, HandOffInv, StoreType

\* A chunk is recorded, and now and then the record is saved.
LEMMA ChunkKeeps ==
  ASSUME IInv, NEW u \in DOMAIN uploads, Record(u), ~AllStored(u), IsChunked(uploads[u].file),
         UNCHANGED previewVars
  PROVE  IInv'
<1> DEFINE f == uploads[u].file
           r == [uploads[u] EXCEPT !.done = Recorded(u), !.pc = "prepare"]
<1>1. UploadsInv /\ uploads[u] \in Runs /\ page \in PageStates /\ form \in Forms
      /\ uploads \in Seq(Runs) /\ RunInv(u) /\ f \in Files /\ ResumeInv /\ Sound(f, uploads[u].done)
  BY RunTypes DEF IInv, StoreType, UploadsInv
<1>2. /\ uploads' = [uploads EXCEPT ![u] = r] /\ resume' = SaveProgress(u, Recorded(u))
      /\ Stage("working", page) /\ UNCHANGED <<preimages, lookups, handOff>> /\ Fortune
  <2>1. /\ uploads' = [uploads EXCEPT ![u].done = Recorded(u), ![u].pc = "prepare"]
        /\ resume' = SaveProgress(u, Recorded(u))
        /\ Stage("working", page) /\ UNCHANGED <<preimages, lookups, handOff>> /\ Fortune
    BY DEF Record
  <2> QED
    BY <1>1, <2>1
<1>3. Sound(f, Recorded(u)) /\ Recorded(u) \in Dones
  <2> DEFINE i == NextChunk(u)
             done == uploads[u].done
  <2>1. i \in DOMAIN ChunksOf[f] /\ ChunksOf[f][i] \in preimages
    BY <1>1, NextIsMissing, ChunkOfIt DEF Record, RunInv
  <2>2. /\ DOMAIN Recorded(u) = DOMAIN done \union {i} /\ Recorded(u)[i] = ChunksOf[f][i]
        /\ \A j \in DOMAIN done : Recorded(u)[j] = done[j] \/ Recorded(u)[j] = ChunksOf[f][j]
        /\ Recorded(u) = [j \in DOMAIN done \union {i} |-> Recorded(u)[j]]
    BY DEF Recorded
  <2> HIDE DEF i, done
  <2>3. Sound(f, Recorded(u))
    BY <1>1, <2>1, <2>2 DEF Sound, done
  <2>4. DOMAIN Recorded(u) \subseteq Nat
    BY <1>1, <2>3, FileChunks DEF Sound
  <2>5. \A j \in DOMAIN Recorded(u) : Recorded(u)[j] \in Blocks
    BY <1>1, <2>3, FileChunks DEF Sound
  <2>6. Recorded(u) \in [DOMAIN Recorded(u) -> Blocks]
    BY <2>2, <2>5
  <2> QED
    BY <2>3, <2>4, <2>6 DEF Dones
<1>4. r \in Runs /\ r.file = f /\ r.cid = uploads[u].cid /\ r.done = Recorded(u) /\ r.pc = "prepare"
  <2>1. \A d \in Dones :
           LET s == [uploads[u] EXCEPT !.done = d, !.pc = "prepare"]
           IN  s \in Runs /\ s.file = f /\ s.cid = uploads[u].cid /\ s.done = d /\ s.pc = "prepare"
    BY <1>1 DEF Runs, RunPoints
  <2> QED
    BY <1>3, <2>1
<1> HIDE DEF r
<1>5. uploads'[u] = r
  BY <1>1, <1>2
<1>6. RunInv(u)'
  <2>1. uploads'[u].file = f /\ uploads'[u].cid = uploads[u].cid /\ uploads'[u].done = Recorded(u)
        /\ uploads'[u].pc = "prepare" /\ preimages' = preimages
    BY <1>2, <1>4, <1>5
  <2>2. Published(uploads[u]) /\ IsChunked(f)
    BY <1>1 DEF RunInv
  <2> HIDE DEF f
  <2> QED
    BY <1>3, <2>1, <2>2 DEF RunInv, Published, Sound, f
<1>7. UploadsInv'
  BY <1>1, <1>2, <1>4, <1>6, RunsKeep
<1>8. ResumeInv'
  <2>1. CASE resume' = resume
    BY <1>1, <1>2, <2>1, ResumeStays
  <2>2. CASE resume' = [file |-> f, done |-> Recorded(u)]
    BY <1>1, <1>2, <1>3, <2>2 DEF ResumeInv, Sound
  <2> QED
    BY <1>2, <2>1, <2>2 DEF SaveProgress
<1>9. page' \in PageStates /\ form' \in Forms
  BY <1>1, <1>2, StageType
<1> QED
  BY <1>2, <1>7, <1>8, <1>9, UploadKeeps, LookupsStay DEF IInv, HandOffInv, StoreType

\* An upload comes to its end, and hands its file over.
LEMMA EndKeeps ==
  ASSUME IInv, NEW u \in DOMAIN uploads, uploads[u].pc \in {"verify", "cache"},
         NEW verified \in BOOLEAN, Finish1(u, verified),
         UNCHANGED <<preimages, resume>>, LookupInv', Fortune, UNCHANGED previewVars
  PROVE  IInv'
<1> DEFINE r == [uploads[u] EXCEPT !.pc = "done", !.timer = FALSE]
<1>1. UploadsInv /\ uploads[u] \in Runs /\ page \in PageStates /\ form \in Forms
      /\ uploads \in Seq(Runs) /\ RunInv(u) /\ uploads[u].file \in Files
  BY RunTypes DEF IInv, StoreType, UploadsInv
<1>2. r \in Runs /\ r.file = uploads[u].file /\ r.cid = uploads[u].cid /\ r.done = uploads[u].done
      /\ r.pc = "done"
  BY <1>1 DEF Runs, RunPoints
<1>3. uploads' = [uploads EXCEPT ![u] = r]
  BY <1>1 DEF Finish1
<1> HIDE DEF r
<1>4. UploadsInv'
  BY <1>1, <1>2, <1>3, RunStays
<1>5. page' \in PageStates /\ form' \in Forms
  <2>1. [page EXCEPT !.uploading = FALSE, !.verified = verified] \in PageStates
    BY <1>1 DEF PageStates
  <2> QED
    BY <1>1, <2>1, StageType DEF Finish1
<1>6. HandOffInv'
  <2>1. uploads[u].cid = CidOf(uploads[u].file)
    BY <1>1 DEF RunInv, Published
  <2>2. handOff' = [cid |-> CidOf(uploads[u].file), file |-> uploads[u].file]
    BY <2>1 DEF Finish1, HandedOver
  <2> QED
    BY <1>1, <2>2 DEF HandOffInv
<1> QED
  BY <1>4, <1>5, <1>6, UploadKeeps, ResumeStays DEF IInv, StoreType

LEMMA VerifiedKeeps ==
  ASSUME IInv, NEW u \in DOMAIN uploads, Verified(u) \/ Cached(u), UNCHANGED previewVars
  PROVE  IInv'
<1>1. UploadsInv /\ uploads[u] \in Runs /\ page \in PageStates /\ form \in Forms
      /\ uploads \in Seq(Runs) /\ RunInv(u) /\ uploads[u].file \in Files /\ LookupInv
  BY RunTypes DEF IInv, StoreType, UploadsInv
<1>2. UNCHANGED <<preimages, resume>> /\ Fortune
  BY DEF Verified, Cached
<1>3. CASE Cached(u)
  <2>1. Finish1(u, page.verified) /\ uploads[u].pc = "cache" /\ LookupInv' /\ page.verified \in BOOLEAN
    BY <1>1, <1>3, LookupsStay DEF Cached, PageStates
  <2> QED
    BY <1>2, <2>1, EndKeeps
<1>4. CASE Verified(u)
  <2>1. uploads[u].pc = "verify"
    BY <1>4 DEF Verified
  <2>2. LookupInv'
    <3> DEFINE ls == Restrict(lookups, DOMAIN lookups \ {Verifying(u)})
    <3>1. DOMAIN ls \subseteq DOMAIN lookups /\ IsFunction(ls)
          /\ \A id \in DOMAIN ls : ls[id] = lookups[id]
      BY DEF Restrict, IsFunction
    <3>2. lookups' = ls
      BY <1>4 DEF Verified
    <3> HIDE DEF ls
    <3>3. LookupsOk(ls)
      BY <1>1, <3>1 DEF LookupInv, LookupsOk
    <3> QED
      BY <1>2, <3>2, <3>3, LookupsBecome
  <2>3. CASE Finish1(u, lookups[Verifying(u)].value = "block")
    <3>1. (lookups[Verifying(u)].value = "block") \in BOOLEAN
      OBVIOUS
    <3> QED
      BY <1>2, <2>1, <2>2, <2>3, <3>1, EndKeeps
  <2>4. CASE /\ uploads' = [uploads EXCEPT ![u].pc = "cache"] /\ UNCHANGED handOff
             /\ Stage("caching", [page EXCEPT !.verified = TRUE])
    <3> DEFINE r == [uploads[u] EXCEPT !.pc = "cache"]
    <3>1. r \in Runs /\ r.file = uploads[u].file /\ r.cid = uploads[u].cid
          /\ r.done = uploads[u].done /\ r.pc = "cache"
      BY <1>1 DEF Runs, RunPoints
    <3>2. uploads' = [uploads EXCEPT ![u] = r] /\ uploads[u].cid # NoCid
      BY <1>1, <2>1, <2>4 DEF RunInv
    <3> HIDE DEF r
    <3>3. UploadsInv'
      BY <1>1, <1>2, <3>1, <3>2, RunStays
    <3>4. [page EXCEPT !.verified = TRUE] \in PageStates
      BY <1>1 DEF PageStates
    <3>5. page' \in PageStates /\ form' \in Forms
      BY <1>1, <2>4, <3>4, StageType
    <3> QED
      BY <1>2, <2>2, <2>4, <3>3, <3>5, UploadKeeps, ResumeStays DEF IInv, StoreType, HandOffInv
  <2> QED
    BY <1>4, <2>3, <2>4 DEF Verified
<1> QED
  BY <1>3, <1>4

LEMMA TimeoutKeeps ==
  ASSUME IInv, NEW u \in DOMAIN uploads, GlobalTimeout(u), UNCHANGED previewVars
  PROVE  IInv'
<1> DEFINE r == [uploads[u] EXCEPT !.timer = FALSE]
<1>1. UploadsInv /\ uploads[u] \in Runs /\ page \in PageStates /\ form \in Forms
      /\ uploads \in Seq(Runs) /\ RunInv(u)
  BY RunTypes DEF IInv, StoreType, UploadsInv
<1>2. r \in Runs /\ r.file = uploads[u].file /\ r.cid = uploads[u].cid /\ r.done = uploads[u].done
      /\ r.pc = uploads[u].pc /\ r.attempt = uploads[u].attempt
  BY <1>1 DEF Runs
<1>3. uploads' = [uploads EXCEPT ![u] = r]
  BY <1>1 DEF GlobalTimeout
<1> HIDE DEF r
<1>4. UNCHANGED <<preimages, lookups, resume, handOff>> /\ Fortune
  BY DEF GlobalTimeout
<1>5. UploadsInv'
  BY <1>1, <1>2, <1>3, <1>4, RunStays DEF RunInv
<1>6. page' \in PageStates /\ form' \in Forms
  <2>1. [page EXCEPT !.error = TRUE, !.uploading = FALSE] \in PageStates
    BY <1>1 DEF PageStates
  <2> QED
    BY <1>1, <2>1, StageType DEF GlobalTimeout
<1> QED
  BY <1>4, <1>5, <1>6, UploadKeeps, LookupsStay, ResumeStays DEF IInv, StoreType, HandOffInv

LEMMA UploadStepKeeps ==
  ASSUME IInv, NEW u \in DOMAIN uploads, UploadStep(u), UNCHANGED previewVars
  PROVE  IInv'
<1>1. CASE Throw(u) /\ Misfortune
  BY <1>1, ThrowKeeps
<1>2. CASE Record(u)
  BY <1>2, VerifyKeeps, ChunkKeeps
<1>3. CASE ~Record(u) /\ ~(Throw(u) /\ Misfortune)
  BY <1>3, PreparedKeeps, StoringKeeps, VerifiedKeeps, TimeoutKeeps
     DEF UploadStep, Worker, Tab, Host, Failure, WorkerFails, StoreRefused
<1> QED
  BY <1>1, <1>2, <1>3

(***************************************************************************)
(* The form.                                                               *)
(***************************************************************************)
LEMMA ResumedFile ==
  ASSUME ResumeInv
  PROVE  resume.file \in Files \union {NoFile}
BY DEF ResumeInv

LEMMA ClosedType ==
  ClosedForm \in Forms /\ FreshPage \in PageStates
BY DEF ClosedForm, FreshPage, Forms, PageStates

\* What the form does to the page, the record and itself.
LEMMA FormKeeps ==
  ASSUME IInv, page' \in PageStates, form' \in Forms, ResumeInv', UNCHANGED formFrame,
         UNCHANGED previewVars
  PROVE  IInv'
BY UploadsStay, ViewStays, LookupsStay DEF IInv, StoreType, HandOffInv

LEMMA FormMounts ==
  ASSUME ResumeInv, form \in Forms, page \in PageStates, MountForm \/ UnmountForm
  PROVE  form' \in Forms /\ page' \in PageStates
<1>1. \A f \in Files \union {NoFile} :
         [ClosedForm EXCEPT !.mounted = TRUE, !.pending = f] \in Forms
  BY ClosedType DEF Forms
<1> QED
  BY <1>1, ResumedFile, ClosedType DEF MountForm, UnmountForm

LEMMA StartKeeps ==
  ASSUME IInv, StartUpload, UNCHANGED previewVars
  PROVE  IInv'
<1>0. SUFFICES ASSUME NEW n \in Nat, n = Len(uploads)
               PROVE  IInv'
  <2>1. Len(uploads) \in Nat
    BY DEF IInv, UploadsInv
  <2> QED
    BY <2>1
<1> DEFINE f == form.selected
           done == IF IsChunked(f) THEN LoadResumeState(f) ELSE NoChunks
<1>1. UploadsInv /\ ResumeInv /\ uploads \in Seq(Runs) /\ form \in Forms /\ f \in Files
  BY DEF IInv, StoreType, UploadsInv, StartUpload, Forms
<1>2. /\ uploads' = Append(uploads, NewUpload(f, done))
      /\ page' = [FreshPage EXCEPT !.uploading = TRUE, !.stage = "working"]
      /\ UNCHANGED <<preimages, lookups, form, resume, handOff, faults>>
  BY DEF StartUpload
<1>3. done \in Dones /\ Sound(f, done) /\ (~IsChunked(f) => done = NoChunks)
  <2>1. CASE resume.file = f
    BY <1>1, <2>1, FileChunks, NoneRecorded DEF ResumeInv, LoadResumeState
  <2>2. CASE resume.file # f
    BY <1>1, <2>2, NoneRecorded DEF LoadResumeState
  <2> QED
    BY <2>1, <2>2
<1> HIDE DEF done
<1>4. NewUpload(f, done) \in Runs
  <2>1. 0 \in 0..StoreRetries
    BY LimitsAssumption
  <2> QED
    BY <1>1, <1>3, <2>1 DEF NewUpload, Runs, RunPoints
<1>5. /\ uploads' \in Seq(Runs) /\ DOMAIN uploads' = 1..(n + 1)
      /\ uploads'[n + 1] = NewUpload(f, done) /\ \A u \in 1..n : uploads'[u] = uploads[u]
      /\ DOMAIN uploads = 1..n
  BY <1>0, <1>1, <1>2, <1>4
<1>6. RunInv(n + 1)'
  <2>1. uploads'[n + 1].file = f /\ uploads'[n + 1].done = done /\ uploads'[n + 1].pc = "prepare"
        /\ uploads'[n + 1].cid = NoCid
    BY <1>5 DEF NewUpload
  <2> HIDE DEF f
  <2> QED
    BY <1>2, <1>3, <2>1 DEF RunInv, Published, Sound
<1>7. ASSUME NEW u \in 1..n
      PROVE  RunInv(u)'
  <2>1. RunInv(u) /\ uploads'[u] = uploads[u] /\ preimages' = preimages
    BY <1>1, <1>2, <1>5 DEF UploadsInv
  <2>2. Block(u)' = Block(u)
    BY <2>1, SameBlock
  <2> QED
    BY <2>1, <2>2, MoreIsStored DEF RunInv, Published
<1>8. UploadsInv'
  <2>1. \A u \in DOMAIN uploads' : u = n + 1 \/ u \in 1..n
    BY <1>5
  <2> QED
    BY <1>5, <1>6, <1>7, <2>1 DEF UploadsInv
<1>9. page' \in PageStates
  BY <1>2, ClosedType DEF PageStates
<1> QED
  BY <1>2, <1>8, <1>9, UploadKeeps, LookupsStay, ResumeStays DEF IInv, StoreType, HandOffInv, Fortune

LEMMA FormStepKeeps ==
  ASSUME IInv, FormStep, UNCHANGED previewVars
  PROVE  IInv'
<1>1. form \in Forms /\ page \in PageStates /\ ResumeInv
  BY DEF IInv, StoreType
<1>2. CASE StartUpload
  BY <1>2, StartKeeps
<1>3. \A f \in Files \union {NoFile} :
         /\ [form EXCEPT !.expected = f, !.pending = NoFile] \in Forms
         /\ [form EXCEPT !.pending = NoFile] \in Forms
         /\ [form EXCEPT !.selected = f, !.expected = NoFile] \in Forms
         /\ [form EXCEPT !.selected = NoFile] \in Forms
         /\ [form EXCEPT !.dialog = "closed"] \in Forms
  BY <1>1 DEF Forms
<1>4. CASE ResumePending \/ CloseDialog
  <2>1. form' \in Forms /\ UNCHANGED <<page, resume, formFrame>>
    <3>1. form.pending \in Files \union {NoFile}
      BY <1>1 DEF Forms
    <3> QED
      BY <1>3, <1>4, <3>1 DEF ResumePending, CloseDialog
  <2> QED
    BY <1>1, <2>1, FormKeeps, ResumeStays
<1>5. CASE DiscardPending \/ RemoveFile
  <2>1. form' \in Forms /\ (page' = page \/ page' = FreshPage) /\ (resume' = resume \/ resume' = NoRecord)
        /\ UNCHANGED formFrame
    BY <1>3, <1>5 DEF DiscardPending, RemoveFile
  <2>2. ResumeInv'
    BY <1>1, <2>1, ResumeStays DEF ResumeInv
  <2> QED
    BY <1>1, <2>1, <2>2, ClosedType, FormKeeps
<1>6. CASE \E f \in Files : SelectFile(f)
  <2>1. form' \in Forms /\ page' = FreshPage /\ (resume' = resume \/ resume' = NoRecord)
        /\ UNCHANGED formFrame
    BY <1>3, <1>6 DEF SelectFile
  <2>2. ResumeInv'
    BY <1>1, <2>1, ResumeStays DEF ResumeInv
  <2> QED
    BY <2>1, <2>2, ClosedType, FormKeeps
<1> QED
  BY <1>2, <1>4, <1>5, <1>6 DEF FormStep

(***************************************************************************)
(* The view and its fetches.                                               *)
(***************************************************************************)
LEMMA SitesAre ==
  /\ NoCid \notin Sites /\ Blocks \subseteq Sites
  /\ Landing \in Sites /\ Malformed \in Sites /\ Elsewhere \in Sites
  /\ Landing # Malformed /\ Landing # Elsewhere /\ Malformed # Elsewhere
<1>1. NoCid \notin Places /\ Landing # Malformed /\ Landing # Elsewhere /\ Malformed # Elsewhere
  BY DEF NoCid, Leaf, Places, Landing, Malformed, Elsewhere, Place
<1> QED
  BY <1>1, BlockLinks DEF Sites, Places

\* Aborting the view's fetch leaves none that may still be shown.
LEMMA AbortedFetch ==
  ASSUME fetch \in Seq(Fetches), NEW k \in Nat, k <= Len(fetch), Live => k = Len(fetch), NEW fs,
         fs = AbortFetch(fetch, k)
  PROVE  /\ fs \in Seq(Fetches) /\ Len(fs) = Len(fetch)
         /\ \A r \in DOMAIN fetch :
               fs[r].pc = fetch[r].pc /\ fs[r].cid = fetch[r].cid /\ fs[r].content = fetch[r].content
         /\ fs # <<>> => fs[Len(fs)].pc = "over" \/ fs[Len(fs)].aborted
<1>1. \A r \in DOMAIN fetch :
         LET s == [fetch[r] EXCEPT !.aborted = TRUE]
         IN  s \in Fetches /\ s.pc = fetch[r].pc /\ s.cid = fetch[r].cid
             /\ s.content = fetch[r].content /\ s.aborted
  <2>1. \A f \in Fetches :
           LET s == [f EXCEPT !.aborted = TRUE]
           IN  s \in Fetches /\ s.pc = f.pc /\ s.cid = f.cid /\ s.content = f.content /\ s.aborted
    BY DEF Fetches
  <2> QED
    BY <2>1
<1>2. CASE k = 0
  BY <1>2 DEF AbortFetch, Live
<1>3. CASE k # 0
  <2>1. k \in DOMAIN fetch /\ fs = [fetch EXCEPT ![k] = [fetch[k] EXCEPT !.aborted = TRUE]]
    BY <1>3 DEF AbortFetch
  <2>2. /\ fs \in Seq(Fetches) /\ Len(fs) = Len(fetch) /\ DOMAIN fs = DOMAIN fetch
        /\ fs[k] = [fetch[k] EXCEPT !.aborted = TRUE]
        /\ \A r \in DOMAIN fetch : r # k => fs[r] = fetch[r]
    BY <1>1, <2>1
  <2>3. fs # <<>> => fs[Len(fs)].pc = "over" \/ fs[Len(fs)].aborted
    <3>1. CASE k = Len(fetch)
      BY <1>1, <2>1, <2>2, <3>1
    <3>2. CASE k # Len(fetch)
      <4>1. ~Live /\ Len(fetch) \in DOMAIN fetch /\ fetch # <<>>
        BY <2>1, <3>2
      <4> QED
        BY <2>2, <3>2, <4>1 DEF Live
    <3> QED
      BY <3>1, <3>2
  <2> QED
    BY <1>1, <2>1, <2>2, <2>3
<1> QED
  BY <1>2, <1>3

\* What an instance of the view may hand to a new fetch.
Shows(v) == v \in Views /\ v.active <= Len(fetch) /\ (Live => v.active = Len(fetch))

LEMMA ContentKeeps ==
  ASSUME ViewType, ViewInv, HandOffInv, LookupInv, UNCHANGED preimages,
         NEW cid \in Sites, cid # Elsewhere, NEW v, Shows(v), FetchContent(cid, v), route' = cid
  PROVE  ViewType' /\ ViewInv' /\ LookupInv'
<1>1. v \in Views /\ v.active \in Nat /\ fetch \in Seq(Fetches) /\ Len(fetch) \in Nat
      /\ LookupsOk(lookups)
  BY DEF Shows, Views, ViewType, LookupInv
<1>2. CASE cid = Malformed
  <2>1. view' = [v EXCEPT !.error = TRUE, !.loading = FALSE] /\ fetch' = fetch /\ lookups' = lookups
    BY <1>2 DEF FetchContent
  <2>2. view' \in Views /\ view'.error /\ view'.active = v.active
    BY <1>1, <2>1 DEF Views
  <2>3. ViewType'
    BY <1>1, <2>1, <2>2 DEF ViewType, Shows
  <2>4. ViewInv'
    BY <1>2, <2>1, <2>2, SitesAre DEF ViewInv, Live, Shows
  <2> QED
    BY <1>1, <2>1, <2>3, <2>4, LookupsBecome
<1>3. CASE cid # Malformed
  <2> DEFINE r == Len(fetch) + 1
             fs == AbortFetch(fetch, v.active)
             cached == handOff.cid = cid
             new == [cid |-> cid, aborted |-> FALSE, pc |-> IF cached THEN "cached" ELSE "walks",
                     content |-> IF cached THEN CidOf(handOff.file) ELSE NoCid]
  <2>1. /\ r <= MaxFetches /\ fetch' = Append(fs, new)
        /\ view' = [Emptied(v) EXCEPT !.loading = TRUE, !.error = FALSE, !.active = r]
        /\ lookups' = IF cached THEN AbortLookups(lookups, v.active)
                      ELSE MoreLookups(AbortLookups(lookups, v.active), OneLookup(Walk(r, <<>>), cid))
    BY <1>3 DEF FetchContent
  <2>2. cached => CidOf(handOff.file) = cid /\ cid \in Blocks
    <3>1. CASE handOff = NoEntry
      BY <3>1, SitesAre
    <3>2. CASE handOff.file \in Files /\ handOff = [cid |-> CidOf(handOff.file), file |-> handOff.file]
      BY <3>2, FileCid
    <3> QED
      BY <3>1, <3>2 DEF HandOffInv
  <2>3. new \in Fetches /\ new.cid = cid /\ (new.pc = "cached" => new.content = cid)
    BY <2>2 DEF Fetches
  <2>4. /\ fs \in Seq(Fetches) /\ Len(fs) = Len(fetch)
        /\ \A q \in DOMAIN fetch : fs[q].pc = fetch[q].pc /\ fs[q].cid = fetch[q].cid
                                   /\ fs[q].content = fetch[q].content
    BY <1>1, AbortedFetch DEF Shows
  <2> HIDE DEF fs, new
  <2>5. /\ fetch' \in Seq(Fetches) /\ Len(fetch') = r /\ fetch'[r] = new /\ DOMAIN fetch' = 1..r
        /\ \A q \in DOMAIN fetch : fetch'[q] = fs[q]
        /\ \A q \in DOMAIN fetch' : q \in DOMAIN fetch \/ q = r
    BY <1>1, <2>1, <2>3, <2>4
  <2>6. view' \in Views /\ view'.active = r /\ view'.shown = NoCid
    <3>1. r \in Nat
      BY <1>1
    <3>2. \A k \in Nat : LET w == [Emptied(v) EXCEPT !.loading = TRUE, !.error = FALSE, !.active = k]
                         IN  w \in Views /\ w.active = k /\ w.shown = NoCid
      BY <1>1 DEF Views, Emptied
    <3> QED
      BY <2>1, <3>1, <3>2
  <2>7. ViewType'
    BY <1>1, <2>1, <2>5, <2>6 DEF ViewType
  <2>8. ViewInv'
    <3>1. \A q \in DOMAIN fetch' : fetch'[q].pc = "cached" => fetch'[q].content = fetch'[q].cid
      BY <2>3, <2>4, <2>5 DEF ViewInv
    <3>2. view'.shown = NoCid /\ route' # Malformed /\ route' # Elsewhere
      BY <1>3, <2>6
    <3>3. view'.active = Len(fetch') /\ fetch'[Len(fetch')].cid = route'
      BY <2>3, <2>5, <2>6
    <3> QED
      BY <3>1, <3>2, <3>3 DEF ViewInv
  <2>9. LookupInv'
    <3>1. LookupsOk(AbortLookups(lookups, v.active))
      BY <1>1, AbortKeeps
    <3>2. LookupsOk(OneLookup(Walk(r, <<>>), cid))
      <4>1. r \in Nat
        BY <1>1
      <4> QED
        BY <4>1, IdsAre, OneIsOk
    <3> QED
      BY <2>1, <3>1, <3>2, MoreIsOk, LookupsBecome
  <2> QED
    BY <2>7, <2>8, <2>9
<1> QED
  BY <1>2, <1>3

\* The view shows nothing, and no fetch may come back to it.
LEMMA WatchKeeps ==
  ASSUME ViewType, ViewInv, HandOffInv, LookupInv, UNCHANGED preimages,
         NEW place \in Sites, place # Elsewhere, NEW v, Shows(v), Watch(place, v), route' = place
  PROVE  ViewType' /\ ViewInv' /\ LookupInv'
<1>1. CASE place = Landing
  <2>1. /\ view' = [Emptied(v) EXCEPT !.active = 0] /\ fetch' = AbortFetch(fetch, v.active)
        /\ lookups' = AbortLookups(lookups, v.active)
    BY <1>1 DEF Watch
  <2>2. v \in Views /\ v.active \in Nat /\ fetch \in Seq(Fetches) /\ Len(fetch) \in Nat
    BY DEF Shows, Views, ViewType
  <2>3. view' \in Views /\ view'.active = 0 /\ view'.shown = NoCid
    BY <2>1, <2>2 DEF Views, Emptied
  <2>4. /\ fetch' \in Seq(Fetches) /\ Len(fetch') = Len(fetch)
        /\ \A r \in DOMAIN fetch : fetch'[r].pc = fetch[r].pc /\ fetch'[r].cid = fetch[r].cid
                                   /\ fetch'[r].content = fetch[r].content
        /\ fetch' # <<>> => fetch'[Len(fetch')].pc = "over" \/ fetch'[Len(fetch')].aborted
    BY <2>1, <2>2, AbortedFetch DEF Shows
  <2>5. ViewType'
    BY <2>2, <2>3, <2>4 DEF ViewType
  <2>6. ~Live'
    BY <2>4 DEF Live
  <2>7. DOMAIN fetch' = DOMAIN fetch
    BY <2>2, <2>4
  <2>8. ViewInv'
    BY <1>1, <2>3, <2>4, <2>6, <2>7, SitesAre DEF ViewInv
  <2>9. LookupInv'
    BY <2>1, AbortKeeps, LookupsBecome DEF LookupInv
  <2> QED
    BY <2>5, <2>8, <2>9
<1>2. CASE place # Landing
  <2>1. FetchContent(place, v)
    BY <1>2 DEF Watch
  <2> QED
    BY <2>1, ContentKeeps
<1> QED
  BY <1>1, <1>2

\* The view there is, and a new one.
LEMMA Instances ==
  ASSUME ViewType, ViewInv
  PROVE  Shows(view) /\ (route = Elsewhere => Shows(EmptyView))
<1>1. EmptyView \in Views /\ EmptyView.active = 0
  BY DEF EmptyView, Views
<1>2. Len(fetch) \in Nat
  BY DEF ViewType
<1> QED
  BY <1>1, <1>2 DEF ViewType, ViewInv, Shows

\* Every fetch is over, and the view is new.
LEMMA GoneKeeps ==
  ASSUME ViewType, ViewInv, NEW fs \in Seq(Fetches), Len(fs) = Len(fetch),
         fetch' = [r \in DOMAIN fetch |-> [fs[r] EXCEPT !.pc = "over"]],
         view' = EmptyView, route' = Elsewhere
  PROVE  ViewType' /\ ViewInv'
<1>1. fetch \in Seq(Fetches) /\ Len(fetch) \in Nat /\ DOMAIN fetch = 1..Len(fetch) /\ DOMAIN fs = DOMAIN fetch
  BY DEF ViewType
<1>2. \A f \in Fetches : [f EXCEPT !.pc = "over"] \in Fetches /\ [f EXCEPT !.pc = "over"].pc = "over"
  BY DEF Fetches
<1>3. \A r \in DOMAIN fetch : [fs[r] EXCEPT !.pc = "over"] \in Fetches
  BY <1>1, <1>2
<1>4. fetch' \in [1..Len(fetch) -> Fetches]
  BY <1>1, <1>3
<1>5. fetch' \in Seq(Fetches) /\ Len(fetch') = Len(fetch)
  BY <1>1, <1>4
<1>6. \A r \in DOMAIN fetch' : fetch'[r].pc = "over"
  <2>1. \A r \in DOMAIN fetch : fs[r] \in Fetches /\ fetch'[r] = [fs[r] EXCEPT !.pc = "over"]
    BY <1>1
  <2> QED
    BY <1>2, <2>1
<1>7. ~Live'
  <2>1. ASSUME fetch' # <<>>
        PROVE  Len(fetch') \in DOMAIN fetch'
    BY <1>1, <1>5, <2>1
  <2> QED
    BY <1>6, <2>1 DEF Live
<1>8. view' \in Views /\ view'.active = 0 /\ view'.shown = NoCid
  BY DEF EmptyView, Views
<1>9. ViewType'
  BY <1>1, <1>5, <1>8, SitesAre DEF ViewType
<1>10. ViewInv'
  BY <1>6, <1>7, <1>8, SitesAre DEF ViewInv
<1> QED
  BY <1>9, <1>10

LEMMA UnmountKeeps ==
  ASSUME ViewType, ViewInv, LookupInv, UNCHANGED preimages, Unmount, route' = Elsewhere
  PROVE  ViewType' /\ ViewInv' /\ LookupInv'
<1>1. fetch \in Seq(Fetches) /\ view.active \in Nat /\ Shows(view)
  BY Instances DEF ViewType, Views
<1>2. AbortFetch(fetch, view.active) \in Seq(Fetches)
      /\ Len(AbortFetch(fetch, view.active)) = Len(fetch)
  BY <1>1, AbortedFetch DEF Shows
<1>3. ViewType' /\ ViewInv'
  BY <1>2, GoneKeeps DEF Unmount
<1>4. LookupInv'
  BY AbortKeeps, LookupsBecome DEF LookupInv, Unmount
<1> QED
  BY <1>3, <1>4

LEMMA HideKeeps ==
  ASSUME ViewType, ViewInv, LookupInv, HidePage
  PROVE  ViewType' /\ ViewInv' /\ LookupInv'
<1>1. /\ view \in Views /\ view.active \in Nat /\ fetch \in Seq(Fetches) /\ Len(fetch) \in Nat
      /\ Shows(view) /\ route \in Sites
  BY Instances DEF ViewType, Views
<1>2. /\ view' = [view EXCEPT !.active = 0] /\ fetch' = AbortFetch(fetch, view.active)
      /\ lookups' = AbortLookups(lookups, view.active) /\ route' = route /\ preimages' = preimages
  BY DEF HidePage
<1>3. view' \in Views /\ view'.active = 0 /\ view'.shown = view.shown /\ view'.error = view.error
  BY <1>1, <1>2 DEF Views
<1>4. /\ fetch' \in Seq(Fetches) /\ Len(fetch') = Len(fetch)
      /\ \A r \in DOMAIN fetch : fetch'[r].pc = fetch[r].pc /\ fetch'[r].cid = fetch[r].cid
                                 /\ fetch'[r].content = fetch[r].content
      /\ fetch' # <<>> => fetch'[Len(fetch')].pc = "over" \/ fetch'[Len(fetch')].aborted
  BY <1>1, <1>2, AbortedFetch DEF Shows
<1>5. ViewType'
  BY <1>1, <1>2, <1>3, <1>4 DEF ViewType
<1>6. ~Live' /\ DOMAIN fetch' = DOMAIN fetch
  BY <1>1, <1>4 DEF Live
<1>7. ViewInv'
  BY <1>2, <1>3, <1>4, <1>6 DEF ViewInv
<1>8. LookupInv'
  BY <1>2, AbortKeeps, LookupsBecome DEF LookupInv
<1> QED
  BY <1>5, <1>7, <1>8

\* A fetch comes to its end: only the last one, when nothing aborted it, is shown.
LEMMA SettleKeeps ==
  ASSUME ViewType, ViewInv, NEW r \in DOMAIN fetch, fetch[r].pc # "over",
         NEW shown \in Sites \union {NoCid}, NEW blocked \in BOOLEAN,
         shown # NoCid => shown = fetch[r].cid, Settle(r, shown, blocked)
  PROVE  ViewType' /\ ViewInv'
<1> DEFINE n == Len(fetch)
           seen == [view EXCEPT !.shown = shown, !.blocked = blocked,
                                !.error = @ \/ (shown = NoCid /\ ~blocked)]
           w == IF r # n \/ fetch[r].aborted THEN view ELSE seen
<1>1. view \in Views /\ view.active \in Nat /\ fetch \in Seq(Fetches) /\ n \in Nat /\ route \in Sites
      /\ view.active <= n /\ n <= MaxFetches /\ DOMAIN fetch = 1..n
  BY DEF ViewType, Views
<1>2. /\ fetch' = [fetch EXCEPT ![r].pc = "over"] /\ route' = route
      /\ view' = [w EXCEPT !.active = IF @ = r THEN 0 ELSE @, !.loading = IF r = n THEN FALSE ELSE @]
  BY DEF Settle
<1>3. seen \in Views /\ seen.active = view.active /\ seen.shown = shown /\ (view.error => seen.error)
  BY <1>1 DEF Views
<1> HIDE DEF seen
<1>4. /\ w \in Views /\ w.active = view.active /\ (view.error => w.error)
      /\ w.shown = view.shown \/ (w.shown = shown /\ r = n /\ ~fetch[r].aborted)
  BY <1>1, <1>3
<1> HIDE DEF w
<1>5. /\ view' \in Views /\ view'.shown = w.shown /\ view'.error = w.error
      /\ view'.active = IF view.active = r THEN 0 ELSE view.active
  BY <1>2, <1>4 DEF Views
<1>6. [fetch[r] EXCEPT !.pc = "over"] \in Fetches
  <2>1. \A f \in Fetches : [f EXCEPT !.pc = "over"] \in Fetches
    BY DEF Fetches
  <2> QED
    BY <1>1, <2>1
<1>7. /\ fetch' \in Seq(Fetches) /\ Len(fetch') = n /\ DOMAIN fetch' = DOMAIN fetch
      /\ fetch'[r].pc = "over" /\ \A q \in DOMAIN fetch : q # r => fetch'[q] = fetch[q]
  <2>1. fetch[r] \in Fetches
    BY <1>1
  <2>2. [fetch[r] EXCEPT !.pc = "over"].pc = "over"
    BY <2>1 DEF Fetches
  <2> QED
    BY <1>1, <1>2, <1>6, <2>2
<1>8. ViewType'
  BY <1>1, <1>2, <1>5, <1>7 DEF ViewType
<1>9. Live' => Live /\ r # n /\ fetch'[n] = fetch[n]
  <2>1. ASSUME Live'
        PROVE  r # n /\ n \in DOMAIN fetch
    BY <1>1, <1>7, <2>1 DEF Live
  <2> QED
    BY <1>1, <1>7, <2>1 DEF Live
<1>10. r = n /\ ~fetch[r].aborted => Live
  BY <1>1 DEF Live
<1>11. view'.shown # NoCid => route' = Malformed \/ view'.shown = route'
  BY <1>2, <1>4, <1>5, <1>10 DEF ViewInv
<1>12. route' = Malformed => view'.error
  BY <1>2, <1>4, <1>5 DEF ViewInv
<1>13. \A q \in DOMAIN fetch' : fetch'[q].pc = "cached" => fetch'[q].content = fetch'[q].cid
  BY <1>7 DEF ViewInv
<1>14. Live' => /\ view'.active = Len(fetch')
                /\ route' = Malformed \/ fetch'[Len(fetch')].cid = route'
                /\ route' # Elsewhere
  BY <1>1, <1>2, <1>5, <1>7, <1>9 DEF ViewInv
<1> QED
  BY <1>8, <1>11, <1>12, <1>13, <1>14 DEF ViewInv

(***************************************************************************)
(* The lookups.                                                            *)
(***************************************************************************)
\* One lookup changes.
LEMMA LookupChanges ==
  ASSUME LookupInv, NEW id \in DOMAIN lookups, IsFunction(lookups'), DOMAIN lookups' = DOMAIN lookups,
         IsLookup(lookups'[id]), lookups'[id].value = "block" => lookups'[id].cid \in preimages,
         \A i \in DOMAIN lookups : i # id => lookups'[i] = lookups[i], UNCHANGED preimages
  PROVE  LookupInv'
<1>1. LookupsOk(lookups')
  BY DEF LookupInv, LookupsOk
<1> QED
  BY <1>1, LookupsBecome

LEMMA LookupBecomes ==
  ASSUME NEW c, NEW l \in LookupOf(c)
  PROVE  /\ Waiting(l) \in LookupOf(c) /\ Waiting(l).value = "pending"
         /\ Subscribed(l) \in LookupOf(c) /\ Subscribed(l).value = l.value
         /\ Subscribed(l).timer = l.timer /\ Subscribed(l).subscribed = ~Settled(l)
         /\ \A v \in {"block", "null", "error"} :
               /\ Finish(l, v) \in LookupOf(c) /\ (Settled(l) => Finish(l, v) = l)
               /\ ~Settled(l) => Finish(l, v).value = v /\ ~Finish(l, v).subscribed
                                 /\ ~Finish(l, v).timer
<1>1. Waiting(l) \in LookupOf(c) /\ Waiting(l).value = "pending"
  BY DEF LookupOf, Waiting, Values
<1>2. /\ Subscribed(l) \in LookupOf(c) /\ Subscribed(l).value = l.value
      /\ Subscribed(l).timer = l.timer /\ Subscribed(l).subscribed = ~Settled(l)
  BY DEF LookupOf, Subscribed, Settled, Values
<1>3. ASSUME NEW v \in {"block", "null", "error"}
      PROVE  /\ Finish(l, v) \in LookupOf(c) /\ (Settled(l) => Finish(l, v) = l)
             /\ ~Settled(l) => Finish(l, v).value = v /\ ~Finish(l, v).subscribed
                               /\ ~Finish(l, v).timer
  BY DEF LookupOf, Finish, Values
<1> QED
  BY <1>1, <1>2, <1>3

LEMMA SettlesAs ==
  ASSUME NEW l, IsLookup(l)
  PROVE  /\ \A v \in {"block", "null", "error"} :
               /\ IsLookup(Finish(l, v)) /\ Finish(l, v).cid = l.cid
               /\ Finish(l, v).value = "block" => v = "block" \/ l.value = "block"
         /\ IsLookup(Subscribed(Waiting(l))) /\ Subscribed(Waiting(l)).cid = l.cid
         /\ Subscribed(Waiting(l)).value = "pending"
         /\ \A v \in {"block", "null"} :
               LET f == Finish(Waiting(l), v)
               IN  /\ IsLookup(f) /\ IsLookup(Subscribed(f))
                   /\ f.cid = l.cid /\ Subscribed(f).cid = l.cid
                   /\ f.value = v /\ Subscribed(f).value = v
<1> DEFINE c == l.cid
<1>1. l \in LookupOf(c) /\ LookupType(l)
  BY DEF IsLookup
<1> HIDE DEF c
<1>2. \A k \in LookupOf(c) : k.cid = c /\ k.value \in Values /\ k.timer \in BOOLEAN /\ k.subscribed \in BOOLEAN
  BY DEF LookupOf
<1>3. \A k \in LookupOf(c) :
         IsLookup(k) <=> /\ Settled(k) => ~k.subscribed /\ ~k.timer
                         /\ k.value = "opening" => ~k.subscribed /\ ~k.timer
  BY <1>2 DEF IsLookup, LookupType
<1>4. Waiting(l) \in LookupOf(c) /\ Waiting(l).value = "pending" /\ ~Settled(Waiting(l))
  BY <1>1, LookupBecomes DEF Settled
<1>5. Subscribed(Waiting(l)) \in LookupOf(c) /\ Subscribed(Waiting(l)).value = "pending"
  BY <1>4, LookupBecomes
<1>6. ASSUME NEW v \in {"block", "null", "error"}
      PROVE  /\ IsLookup(Finish(l, v)) /\ Finish(l, v).cid = l.cid
             /\ Finish(l, v).value = "block" => v = "block" \/ l.value = "block"
  <2>1. CASE Settled(l)
    BY <1>1, <2>1, LookupBecomes
  <2>2. CASE ~Settled(l)
    <3>1. Finish(l, v) \in LookupOf(c) /\ Finish(l, v).value = v /\ ~Finish(l, v).subscribed
          /\ ~Finish(l, v).timer
      BY <1>1, <2>2, LookupBecomes
    <3> QED
      BY <1>2, <1>3, <3>1 DEF c
  <2> QED
    BY <2>1, <2>2
<1>7. ASSUME NEW v \in {"block", "null"}, NEW f, f = Finish(Waiting(l), v)
      PROVE  /\ IsLookup(f) /\ IsLookup(Subscribed(f)) /\ f.cid = l.cid /\ Subscribed(f).cid = l.cid
             /\ f.value = v /\ Subscribed(f).value = v
  <2>1. f \in LookupOf(c) /\ f.value = v /\ ~f.subscribed /\ ~f.timer
    BY <1>4, <1>7, LookupBecomes
  <2>2. Settled(f)
    BY <2>1 DEF Settled
  <2>3. Subscribed(f) \in LookupOf(c) /\ Subscribed(f).value = v /\ ~Subscribed(f).subscribed
        /\ ~Subscribed(f).timer
    BY <2>1, <2>2, LookupBecomes
  <2> QED
    BY <1>2, <1>3, <2>1, <2>3 DEF c
<1>8. IsLookup(Subscribed(Waiting(l))) /\ Subscribed(Waiting(l)).cid = l.cid
  <2>1. ~Settled(Subscribed(Waiting(l))) /\ Subscribed(Waiting(l)).value # "opening"
    BY <1>5 DEF Settled
  <2> QED
    BY <1>2, <1>3, <1>5, <2>1 DEF c
<1> QED
  BY <1>5, <1>6, <1>7, <1>8

LEMMA HostKeeps ==
  ASSUME IInv, NEW id \in DOMAIN lookups,
         HostLookup(id) \/ LookupError(id) \/ Opens(id) \/ TimesOut(id)
  PROVE  IInv'
<1> DEFINE l == lookups[id]
<1>1. LookupInv /\ IsLookup(l) /\ (l.value = "block" => l.cid \in preimages)
  BY DEF IInv, LookupInv, LookupsOk
<1>2. UNCHANGED <<preimages, page, form, resume, uploads, handOff, previewVars>>
      /\ (Fortune \/ Misfortune)
  BY DEF HostLookup, LookupError, Opens, TimesOut, Deliver, LookupFails, OpenLookup, LookupTimesOut
<1>3. IsFunction(lookups') /\ DOMAIN lookups' = DOMAIN lookups
      /\ \A i \in DOMAIN lookups : i # id => lookups'[i] = lookups[i]
  BY DEF HostLookup, LookupError, Opens, TimesOut, Deliver, LookupFails, OpenLookup, LookupTimesOut,
         IsFunction
<1>4. ASSUME Deliver(id) \/ LookupTimesOut(id)
      PROVE  LookupInv'
  <2>1. \/ lookups'[id] = Finish(l, "block") /\ l.cid \in preimages
        \/ lookups'[id] = Finish(l, "null")
    BY <1>4 DEF Deliver, LookupTimesOut
  <2> HIDE DEF l
  <2>2. IsLookup(lookups'[id]) /\ (lookups'[id].value = "block" => lookups'[id].cid \in preimages)
    BY <1>1, <2>1, SettlesAs
  <2> QED
    BY <1>1, <1>2, <1>3, <2>2, LookupChanges
<1>5. ASSUME LookupFails(id)
      PROVE  LookupInv'
  <2> DEFINE e == [l EXCEPT !.value = "error"]
  <2>1. \/ lookups'[id] = e /\ l.value = "opening"
        \/ lookups'[id] = Finish(l, "error")
    BY <1>5 DEF LookupFails
  <2> HIDE DEF l
  <2>2. l.value = "opening" => IsLookup(e) /\ e.value # "block"
    BY <1>1 DEF IsLookup, LookupOf, LookupType, Settled, Values
  <2> HIDE DEF e
  <2>3. IsLookup(lookups'[id]) /\ (lookups'[id].value = "block" => lookups'[id].cid \in preimages)
    BY <1>1, <2>1, <2>2, SettlesAs
  <2> QED
    BY <1>1, <1>2, <1>3, <2>3, LookupChanges
<1>6. ASSUME OpenLookup(id, Aborting(id))
      PROVE  LookupInv'
  <2>1. Waiting(l).cid = l.cid
    BY <1>1 DEF Waiting, IsLookup, LookupOf
  <2>2. \/ lookups'[id] = Finish(Waiting(l), "null") \/ lookups'[id] = Subscribed(Waiting(l))
        \/ lookups'[id] = Subscribed(Finish(Waiting(l), "block")) /\ l.cid \in preimages
    BY <1>6, <2>1 DEF OpenLookup
  <2> HIDE DEF l
  <2>3. IsLookup(lookups'[id]) /\ (lookups'[id].value = "block" => lookups'[id].cid \in preimages)
    BY <1>1, <2>2, SettlesAs
  <2> QED
    BY <1>1, <1>2, <1>3, <2>3, LookupChanges
<1>7. LookupInv'
  BY <1>4, <1>5, <1>6 DEF HostLookup, LookupError, Opens, TimesOut
<1> QED
  BY <1>2, <1>7, UploadsStay, UploadKeeps, ResumeStays DEF IInv, StoreType, HandOffInv

LEMMA ExpandKeeps ==
  ASSUME LookupInv, preimages \subseteq Blocks, NEW id \in DOMAIN lookups, Expand(id)
  PROVE  LookupInv'
<1> DEFINE cid == lookups[id].cid
           children == {Walk(id[2], Append(id[3], i)) : i \in DOMAIN cid.links}
           more == [child \in children |-> NewLookup(cid.links[LinkOf(child)])]
<1>1. lookups' = MoreLookups(lookups, more) /\ preimages' = preimages /\ ~Deepest(id)
      /\ lookups[id].value = "block"
  BY DEF Expand
<1>2. cid \in Blocks /\ Len(id[3]) <= MaxDagDepth
  BY <1>1 DEF LookupInv, LookupsOk
<1>3. DOMAIN cid.links \subseteq Nat
  BY <1>2, BlockLinks
<1>4. id[2] \in Nat /\ id[3] \in Seq(Nat)
  <2>1. id \in Ids
    BY DEF LookupInv, LookupsOk
  <2> QED
    BY <2>1 DEF Ids
<1> HIDE DEF cid
<1>5. Len(id[3]) + 1 <= MaxDagDepth
  BY <1>1, <1>2, <1>4, PreviewAssumption DEF Deepest
<1>6. ASSUME NEW child \in children
      PROVE  child \in Ids /\ Len(child[3]) <= MaxDagDepth
  <2>1. PICK i \in DOMAIN cid.links : child = Walk(id[2], Append(id[3], i))
    OBVIOUS
  <2>2. Append(id[3], i) \in Seq(Nat) /\ Len(Append(id[3], i)) = Len(id[3]) + 1
    BY <1>3, <1>4
  <2> QED
    BY <1>4, <1>5, <2>1, <2>2, IdsAre
<1> HIDE DEF children
<1>7. DOMAIN more = children /\ IsFunction(more)
      /\ \A c \in children : more[c] = NewLookup(cid.links[LinkOf(c)])
  BY DEF IsFunction
<1>8. \A b : IsLookup(NewLookup(b)) /\ NewLookup(b).value = "opening"
  BY DEF IsLookup, LookupOf, NewLookup, LookupType, Values, Settled
<1> HIDE DEF more
<1>9. LookupsOk(more)
  BY <1>6, <1>7, <1>8 DEF LookupsOk
<1> QED
  BY <1>1, <1>9, MoreIsOk, LookupsBecome DEF LookupInv

(***************************************************************************)
(* The router, a reload, and the specification.                            *)
(***************************************************************************)
\* Nothing but what the tab shows changes.
LEMMA TabKeeps ==
  ASSUME IInv, page' \in PageStates, form' \in Forms, HandOffInv', LookupInv', ViewType', ViewInv',
         UNCHANGED <<preimages, resume, uploads, faults>>
  PROVE  IInv'
BY UploadsStay, ResumeStays DEF IInv, StoreType

LEMMA NavigateKeeps ==
  ASSUME IInv, NEW place \in Pages, Navigate(place)
  PROVE  IInv'
<1>1. /\ route' = place /\ place \in Sites /\ ShowForm(place) /\ ShowView(place)
      /\ UNCHANGED <<preimages, resume, uploads, faults>>
  BY PagesAssumption DEF Navigate, Sites
<1>2. page' \in PageStates /\ form' \in Forms
  BY <1>1, FormMounts DEF ShowForm, IInv, StoreType
<1>3. ViewType /\ ViewInv /\ LookupInv /\ HandOffInv
  BY DEF IInv
<1>4. CASE place = Elsewhere /\ Unmount /\ handOff' = NoEntry
  BY <1>1, <1>2, <1>3, <1>4, UnmountKeeps, TabKeeps DEF HandOffInv
<1>5. CASE /\ place # Elsewhere /\ UNCHANGED handOff
           /\ Watch(place, IF route = Elsewhere THEN EmptyView ELSE view)
  <2>1. Shows(IF route = Elsewhere THEN EmptyView ELSE view)
    BY <1>3, Instances
  <2>2. ViewType' /\ ViewInv' /\ LookupInv'
    BY <1>1, <1>3, <1>5, <2>1, WatchKeeps
  <2> QED
    BY <1>1, <1>2, <1>3, <1>5, <2>2, TabKeeps DEF HandOffInv
<1> QED
  BY <1>1, <1>4, <1>5 DEF ShowView

LEMMA PreviewKeeps ==
  ASSUME IInv, OpenPreview \/ Retry \/ HidePage
  PROVE  IInv'
<1>1. ViewType /\ ViewInv /\ LookupInv /\ HandOffInv /\ page \in PageStates /\ form \in Forms
      /\ Shows(view) /\ route \in Sites
  BY Instances DEF IInv, StoreType, ViewType
<1>2. CASE OpenPreview
  <2>1. page.cid \in Sites /\ page.cid # Elsewhere
    <3>1. page.cid \in FileCids
      BY <1>1, <1>2 DEF OpenPreview, Previewed, PageStates
    <3> QED
      BY <3>1, FileCid, SitesAre DEF FileCids
  <2>2. /\ route' = page.cid /\ form' = ClosedForm /\ page' = FreshPage /\ Watch(page.cid, view)
        /\ UNCHANGED <<preimages, resume, uploads, handOff, faults>>
    BY <1>2 DEF OpenPreview
  <2>3. ViewType' /\ ViewInv' /\ LookupInv'
    BY <1>1, <2>1, <2>2, WatchKeeps
  <2> QED
    BY <1>1, <2>2, <2>3, ClosedType, TabKeeps DEF HandOffInv
<1>3. CASE Retry
  <2>1. /\ FetchContent(route, view) /\ route # Elsewhere /\ route' = route
        /\ UNCHANGED <<preimages, page, form, resume, uploads, handOff, faults>>
    BY <1>3 DEF Retry, Places
  <2>2. ViewType' /\ ViewInv' /\ LookupInv'
    BY <1>1, <2>1, ContentKeeps
  <2> QED
    BY <1>1, <2>1, <2>2, TabKeeps DEF HandOffInv
<1>4. CASE HidePage
  <2>1. UNCHANGED <<preimages, page, form, resume, uploads, handOff, faults>>
    BY <1>4 DEF HidePage
  <2>2. ViewType' /\ ViewInv' /\ LookupInv'
    BY <1>1, <1>4, HideKeeps
  <2> QED
    BY <1>1, <2>1, <2>2, TabKeeps DEF HandOffInv
<1> QED
  BY <1>2, <1>3, <1>4

LEMMA ReloadKeeps ==
  ASSUME IInv, Reload
  PROVE  IInv'
<1>1. /\ UploadsInv /\ ViewType /\ ViewInv /\ ResumeInv /\ StoreType
      /\ uploads \in Seq(Runs) /\ fetch \in Seq(Fetches)
  BY DEF IInv, UploadsInv, ViewType
<1>2. /\ UNCHANGED <<preimages, resume>> /\ handOff' = NoEntry /\ faults' \in 0..MaxFaults
      /\ page' = FreshPage /\ form' = ClosedForm
  BY <1>1, FaultsType DEF Reload, ReloadUploads, StoreType
<1>3. ViewType' /\ ViewInv'
  BY <1>1, GoneKeeps DEF Reload
<1>4. LookupInv'
  <2> DEFINE none == [id \in {} |-> NewLookup(NoCid)]
  <2>1. DOMAIN none = {} /\ IsFunction(none)
    BY DEF IsFunction
  <2>2. lookups' = none
    BY DEF Reload
  <2> HIDE DEF none
  <2>3. LookupsOk(none)
    BY <2>1 DEF LookupsOk
  <2> QED
    BY <1>2, <2>2, <2>3, LookupsBecome
<1>5. UploadsInv'
  <2> DEFINE Gone(r) == [r EXCEPT !.pc = "gone", !.timer = FALSE, !.worker = FALSE,
                                  !.attempt = 0, !.done = NoChunks]
  <2>1. uploads' = [u \in DOMAIN uploads |->
                       IF uploads[u].pc \in Over THEN uploads[u] ELSE Gone(uploads[u])]
    BY DEF Reload, ReloadUploads
  <2>2. 0 \in 0..StoreRetries
    BY LimitsAssumption
  <2>3. \A d \in Dones : \A r \in Runs :
           LET s == [r EXCEPT !.pc = "gone", !.timer = FALSE, !.worker = FALSE,
                              !.attempt = 0, !.done = d]
           IN  s \in Runs /\ s.file = r.file /\ s.cid = r.cid /\ s.done = d /\ s.pc = "gone"
    BY <2>2 DEF Runs, RunPoints
  <2>4. \A r \in Runs : Gone(r) \in Runs /\ Gone(r).file = r.file /\ Gone(r).cid = r.cid
                        /\ Gone(r).done = NoChunks /\ Gone(r).pc = "gone"
    BY <2>3, NoneRecorded
  <2> HIDE DEF Gone
  <2>5. DOMAIN uploads = 1..Len(uploads) /\ Len(uploads) \in Nat
        /\ \A u \in DOMAIN uploads : uploads[u] \in Runs
    BY <1>1
  <2>6. uploads' \in [1..Len(uploads) -> Runs]
    BY <2>1, <2>4, <2>5
  <2>7. uploads' \in Seq(Runs) /\ DOMAIN uploads' = DOMAIN uploads
    BY <2>5, <2>6
  <2>8. ASSUME NEW u \in DOMAIN uploads
        PROVE  RunInv(u)'
    <3>1. RunInv(u) /\ uploads[u] \in Runs /\ uploads[u].file \in Files /\ preimages' = preimages
      BY <1>1, <1>2, RunTypes
    <3>2. CASE uploads'[u] = uploads[u]
      <4>1. Block(u)' = Block(u)
        BY <3>2, SameBlock
      <4> QED
        BY <3>1, <3>2, <4>1, MoreIsStored DEF RunInv, Published
    <3>3. CASE uploads'[u] = Gone(uploads[u])
      <4>1. /\ uploads'[u].file = uploads[u].file /\ uploads'[u].cid = uploads[u].cid
            /\ uploads'[u].done = NoChunks /\ uploads'[u].pc = "gone"
        BY <2>4, <3>1, <3>3
      <4> QED
        BY <3>1, <4>1, NoneRecorded DEF RunInv, Published, Sound
    <3> QED
      BY <2>1, <3>2, <3>3
  <2> QED
    BY <2>7, <2>8 DEF UploadsInv
<1> QED
  BY <1>1, <1>2, <1>3, <1>4, <1>5, ClosedType, ResumeStays DEF IInv, StoreType, HandOffInv

LEMMA FetchEndsKeeps ==
  ASSUME IInv, NEW r \in DOMAIN fetch, FetchEnds(r)
  PROVE  IInv'
<1>1. ViewType /\ ViewInv /\ LookupInv /\ HandOffInv /\ StoreType /\ fetch[r] \in Fetches
  BY DEF IInv, ViewType
<1>2. fetch[r].cid \in Sites /\ fetch[r].content \in Sites \union {NoCid}
  BY <1>1 DEF Fetches, Sites
<1>3. fetch[r].pc # "over"
  BY DEF FetchEnds
<1>4. PICK shown \in {NoCid, fetch[r].cid}, blocked \in BOOLEAN : Settle(r, shown, blocked)
  BY <1>1 DEF FetchEnds, ViewInv
<1>5. shown \in Sites \union {NoCid} /\ (shown # NoCid => shown = fetch[r].cid)
  BY <1>2, <1>4
<1>6. ViewType' /\ ViewInv'
  BY <1>1, <1>3, <1>4, <1>5, SettleKeeps
<1>7. UNCHANGED <<lookups, preimages, page, form, resume, uploads, handOff, faults>>
  BY <1>4 DEF Settle
<1> QED
  BY <1>1, <1>6, <1>7, LookupsStay, TabKeeps DEF StoreType, HandOffInv

LEMMA InitIInv ==
  ASSUME Init
  PROVE  IInv
<1>1. /\ page = FreshPage /\ form = ClosedForm /\ resume = NoRecord /\ uploads = <<>>
      /\ handOff = NoEntry /\ faults = 0 /\ preimages = Shared
      /\ route = Elsewhere /\ view = EmptyView /\ fetch = <<>>
      /\ lookups = [id \in {} |-> NewLookup(NoCid)]
  BY DEF Init, UploadInit, PreviewInit
<1>2. StoreType
  BY <1>1, ClosedType, LimitsAssumption DEF StoreType, Blocks
<1>3. LookupInv
  <2>1. DOMAIN lookups = {} /\ IsFunction(lookups)
    BY <1>1 DEF IsFunction
  <2> QED
    BY <2>1 DEF LookupInv, LookupsOk
<1>4. UploadsInv
  <2>1. uploads \in Seq(Runs) /\ DOMAIN uploads = {}
    BY <1>1
  <2> QED
    BY <2>1 DEF UploadsInv
<1>5. ResumeInv /\ HandOffInv
  BY <1>1 DEF ResumeInv, HandOffInv
<1>6. view \in Views /\ view.active = 0 /\ view.shown = NoCid
  BY <1>1 DEF EmptyView, Views
<1>7. fetch \in Seq(Fetches) /\ Len(fetch) = 0 /\ DOMAIN fetch = {} /\ ~Live
  BY <1>1 DEF Live
<1>8. ViewType
  BY <1>1, <1>6, <1>7, SitesAre, PreviewAssumption DEF ViewType
<1>9. ViewInv
  BY <1>1, <1>6, <1>7, SitesAre DEF ViewInv
<1> QED
  BY <1>2, <1>3, <1>4, <1>5, <1>8, <1>9 DEF IInv

LEMMA NextIInv ==
  ASSUME IInv, [Next]_vars
  PROVE  IInv'
<1>1. CASE User
  <2>1. CASE \E place \in Pages : Navigate(place)
    BY <2>1, NavigateKeeps
  <2>2. CASE (FormStep \/ \E u \in DOMAIN uploads : UploadStep(u)) /\ UNCHANGED previewVars
    BY <2>2, FormStepKeeps, UploadStepKeeps
  <2>3. CASE OpenPreview \/ Retry \/ HidePage
    BY <2>3, PreviewKeeps
  <2> QED
    BY <1>1, <2>1, <2>2, <2>3 DEF User
<1>2. CASE Reload
  BY <1>2, ReloadKeeps
<1>3. CASE \E id \in DOMAIN lookups :
              HostLookup(id) \/ LookupError(id) \/ Opens(id) \/ TimesOut(id)
  BY <1>3, HostKeeps
<1>4. CASE \E r \in DOMAIN fetch : FetchEnds(r)
  BY <1>4, FetchEndsKeeps
<1>5. CASE \E r \in DOMAIN fetch : \E id \in WalkOf(r) : Expand(id)
  <2>1. PICK id \in DOMAIN lookups : Expand(id)
    BY <1>5 DEF WalkOf
  <2>2. LookupInv'
    BY <2>1, ExpandKeeps DEF IInv, StoreType
  <2>3. UNCHANGED <<preimages, page, form, resume, uploads, handOff, faults, view, fetch, route>>
    BY <2>1 DEF Expand
  <2> QED
    BY <2>2, <2>3, ViewStays, TabKeeps DEF IInv, StoreType, HandOffInv
<1>6. CASE UNCHANGED vars
  BY <1>6, LookupsStay, ViewStays, TabKeeps DEF vars, IInv, StoreType, HandOffInv
<1> QED
  BY <1>1, <1>2, <1>3, <1>4, <1>5, <1>6 DEF Next

\* Every reachable state satisfies the invariant.
THEOREM Invariance == Spec => []IInv
<1>1. Init => IInv
  BY InitIInv
<1>2. IInv /\ [Next]_vars => IInv'
  BY NextIInv
<1> QED
  BY <1>1, <1>2, PTL DEF Spec

(***************************************************************************)
(* The variables hold what the store, the form, the view and the host      *)
(* interface declare, within the limits on attempts, fetches and depth.    *)
(***************************************************************************)
THEOREM TypeCorrect == Spec => []TabTypeOK
<1>1. ASSUME IInv
      PROVE  TabTypeOK
  <2>1. UploadTypeOK
    <3>1. /\ page.uploading \in BOOLEAN /\ page.error \in BOOLEAN /\ page.verified \in BOOLEAN
          /\ page.stage \in {"idle", "working", "caching", "done", "error"}
          /\ form.mounted \in BOOLEAN /\ form.dialog \in {"closed", "waits", "over"}
          /\ form.selected \in Files \union {NoFile} /\ form.expected \in Files \union {NoFile}
          /\ form.pending \in Files \union {NoFile} /\ faults \in 0..MaxFaults
      BY <1>1 DEF IInv, StoreType, PageStates, Forms
    <3>2. resume.file \in Files \union {NoFile} /\ DOMAIN resume.done \subseteq Nat
      <4>1. CASE resume = NoRecord
        BY <4>1, NoneRecorded
      <4>2. CASE resume.file \in Files /\ Sound(resume.file, resume.done)
        BY <4>2, FileChunks DEF Sound
      <4> QED
        BY <1>1, <4>1, <4>2 DEF IInv, ResumeInv
    <3>3. handOff.file \in Files \union {NoFile}
      BY <1>1 DEF IInv, HandOffInv
    <3>4. ASSUME NEW u \in DOMAIN uploads
          PROVE  /\ uploads[u].file \in Files /\ uploads[u].attempt \in 0..StoreRetries
                 /\ uploads[u].pc \in {"prepare", "store", "backoff", "stored", "verify", "cache"}
                                      \union Over
                 /\ DOMAIN uploads[u].done \subseteq DOMAIN ChunksOf[uploads[u].file]
      BY <1>1, <3>4, RunTypes DEF IInv, Runs, RunPoints, Sound
    <3> QED
      BY <3>1, <3>2, <3>3, <3>4 DEF UploadTypeOK
  <2>2. PreviewTypeOK
    <3>1. view \in Views /\ view.active <= Len(fetch) /\ Len(fetch) <= MaxFetches
          /\ fetch \in Seq(Fetches) /\ Len(fetch) \in Nat
      BY <1>1 DEF IInv, ViewType
    <3>2. \A r \in DOMAIN fetch : fetch[r].pc \in {"cached", "walks", "over"}
      <4>1. \A r \in DOMAIN fetch : fetch[r] \in Fetches
        BY <3>1
      <4> QED
        BY <4>1 DEF Fetches
    <3>3. \A id \in DOMAIN lookups : LookupType(lookups[id]) /\ Len(id[3]) <= MaxDagDepth
      BY <1>1 DEF IInv, LookupInv, LookupsOk, IsLookup
    <3>4. view.active \in 0..Len(fetch)
      BY <3>1 DEF Views
    <3> QED
      BY <3>1, <3>2, <3>3, <3>4 DEF PreviewTypeOK, Views
  <2> QED
    BY <2>1, <2>2 DEF TabTypeOK
<1> QED
  BY <1>1, Invariance, PTL

(***************************************************************************)
(* Whatever was resumed, reloaded or tried again, and however many uploads *)
(* run at once: what uploadFile verifies or announces is the CID of its    *)
(* own file, and the host was given every block below it.                  *)
(***************************************************************************)
THEOREM WhatIsPublished == Spec => []PublishedIsFile
<1>1. IInv => PublishedIsFile
  BY RunTypes DEF IInv, UploadsInv, RunInv, Published, PublishedIsFile
<1> QED
  BY <1>1, Invariance, PTL

(***************************************************************************)
(* A record of the session storage, whichever uploads and reloads it has   *)
(* outlived, lists chunks of its file, and only such as were stored: an    *)
(* upload that resumes from it skips nothing that the host lacks.          *)
(***************************************************************************)
THEOREM WhatIsResumed == Spec => []ResumedAreStored
<1>1. IInv => ResumedAreStored
  BY NoneRecorded DEF IInv, ResumeInv, Sound, ResumedAreStored
<1> QED
  BY <1>1, Invariance, PTL

(***************************************************************************)
(* However many fetches are under way, and whichever of them come back     *)
(* after the user went on: PreviewView shows no content but the one that   *)
(* its address names.                                                      *)
(***************************************************************************)
THEOREM WhatIsShown == Spec => []ShownIsRouted
<1>1. IInv => ShownIsRouted
  BY DEF IInv, ViewInv, ShownIsRouted, Visible
<1> QED
  BY <1>1, Invariance, PTL

(***************************************************************************)
(* What a walk has looked up.  The lookups of a fetch are a part of the    *)
(* tree below its CID: with a node all its siblings were asked for, under  *)
(* the names and with the CIDs that the links of the node above it give.   *)
(***************************************************************************)
Children(ls, r, q) ==
    /\ Walk(r, q) \in DOMAIN ls
    /\ \A i \in DOMAIN ls[Walk(r, q)].cid.links :
          /\ Walk(r, Append(q, i)) \in DOMAIN ls
          /\ ls[Walk(r, Append(q, i))].cid = ls[Walk(r, q)].cid.links[i]
Placed(ls, fs, r, q) ==
    /\ r \in DOMAIN fs
    /\ q = <<>> => ls[Walk(r, q)].cid = fs[r].cid
    /\ \A k \in 1..Len(q) :
          /\ Children(ls, r, SubSeq(q, 1, k - 1))
          /\ q[k] \in DOMAIN ls[Walk(r, SubSeq(q, 1, k - 1))].cid.links
IsPreview(id) == id[1] = "preview"
WalksOk(ls, fs) == \A id \in DOMAIN ls : IsPreview(id) => Placed(ls, fs, id[2], id[3])
FetchesOk(ls, fs) ==
    \A r \in DOMAIN fs : /\ fs[r].pc = "walks" => Walk(r, <<>>) \in DOMAIN ls
                         /\ fs[r].pc = "cached" => fs[r].content \in FileCids

Bounded(cid) == Whole(cid) /\ ~Oversized(LeavesOf(cid))
ShownInv == view.shown # NoCid => Bounded(view.shown)
WalkInv == WalksOk(lookups, fetch) /\ FetchesOk(lookups, fetch) /\ ShownInv

\* The nodes of a fetch are among the lookups, and no lookup is without its fetch.
LEMMA PreviewIds ==
  ASSUME LookupInv, NEW id \in DOMAIN lookups, IsPreview(id)
  PROVE  id = Walk(id[2], id[3]) /\ id[2] \in Nat /\ id[3] \in Seq(Nat) /\ Len(id[3]) \in Nat
<1>1. id \in Ids
  BY DEF LookupInv, LookupsOk
<1>2. id = <<id[1], id[2], id[3]>> /\ id[2] \in Nat /\ id[3] \in Seq(Nat)
  BY <1>1 DEF Ids
<1> QED
  BY <1>2 DEF IsPreview, Walk

LEMMA WalkIs ==
  \A r, q : IsPreview(Walk(r, q)) /\ Walk(r, q)[2] = r /\ Walk(r, q)[3] = q
BY DEF IsPreview, Walk

\* What a walk has looked up stays, whatever else is looked up or settled.
Kept(ls, ks) ==
    \A id \in DOMAIN ls : IsPreview(id) => id \in DOMAIN ks /\ ks[id].cid = ls[id].cid
SameFetches(fs, gs) == \A r \in DOMAIN fs : r \in DOMAIN gs /\ gs[r].cid = fs[r].cid

LEMMA ChildrenStay ==
  ASSUME NEW ls, NEW ks, Kept(ls, ks), NEW r, NEW q, Children(ls, r, q)
  PROVE  Children(ks, r, q) /\ ks[Walk(r, q)].cid = ls[Walk(r, q)].cid
BY WalkIs DEF Kept, Children

LEMMA PlacedStays ==
  ASSUME NEW ls, NEW ks, Kept(ls, ks), NEW fs, NEW gs, SameFetches(fs, gs),
         NEW r, NEW q, Walk(r, q) \in DOMAIN ls, Placed(ls, fs, r, q)
  PROVE  Placed(ks, gs, r, q)
<1>1. r \in DOMAIN gs /\ gs[r].cid = fs[r].cid
  BY DEF Placed, SameFetches
<1>2. ks[Walk(r, q)].cid = ls[Walk(r, q)].cid
  BY WalkIs DEF Kept
<1>3. ASSUME NEW k \in 1..Len(q)
      PROVE  /\ Children(ks, r, SubSeq(q, 1, k - 1))
             /\ q[k] \in DOMAIN ks[Walk(r, SubSeq(q, 1, k - 1))].cid.links
  BY ChildrenStay DEF Placed
<1> QED
  BY <1>1, <1>2, <1>3 DEF Placed

\* No node is new.
LEMMA WalksStay ==
  ASSUME LookupInv, NEW ks, NEW gs, WalksOk(lookups, fetch), Kept(lookups, ks), SameFetches(fetch, gs),
         \A id \in DOMAIN ks : IsPreview(id) => id \in DOMAIN lookups
  PROVE  WalksOk(ks, gs)
<1>1. ASSUME NEW id \in DOMAIN ks, IsPreview(id)
      PROVE  Placed(ks, gs, id[2], id[3])
  <2>1. id \in DOMAIN lookups /\ id = Walk(id[2], id[3])
    BY <1>1, PreviewIds
  <2>2. Placed(lookups, fetch, id[2], id[3])
    BY <1>1, <2>1 DEF WalksOk
  <2> QED
    BY <2>1, <2>2, PlacedStays
<1> QED
  BY <1>1 DEF WalksOk

\* Steps that leave the fetches and the view as they are and ask for no more nodes.
LEMMA WalkStays ==
  ASSUME LookupInv, WalkInv, Kept(lookups, lookups'),
         \A id \in DOMAIN lookups' : IsPreview(id) => id \in DOMAIN lookups,
         fetch' = fetch, view' = view
  PROVE  WalkInv'
<1>1. SameFetches(fetch, fetch)
  BY DEF SameFetches
<1>2. WalksOk(lookups', fetch)
  BY <1>1, WalksStay DEF WalkInv
<1>3. FetchesOk(lookups', fetch)
  BY WalkIs DEF WalkInv, FetchesOk, Kept
<1> QED
  BY <1>2, <1>3 DEF WalkInv, ShownInv

LEMMA HostWalks ==
  ASSUME LookupInv, NEW id \in DOMAIN lookups,
         HostLookup(id) \/ LookupError(id) \/ Opens(id) \/ TimesOut(id)
  PROVE  Kept(lookups, lookups') /\ DOMAIN lookups' = DOMAIN lookups
<1> DEFINE l == lookups[id]
<1>1. IsLookup(l)
  BY DEF LookupInv, LookupsOk
<1>2. DOMAIN lookups' = DOMAIN lookups /\ \A i \in DOMAIN lookups : i # id => lookups'[i] = lookups[i]
  BY DEF HostLookup, LookupError, Opens, TimesOut, Deliver, LookupFails, OpenLookup, LookupTimesOut
<1>3. Waiting(l).cid = l.cid
  BY <1>1 DEF Waiting, IsLookup, LookupOf
<1>4. [l EXCEPT !.value = "error"].cid = l.cid
  BY <1>1 DEF IsLookup, LookupOf
<1>5. \/ \E v \in {"block", "null", "error"} : lookups'[id] = Finish(l, v)
      \/ lookups'[id] = [l EXCEPT !.value = "error"]
      \/ lookups'[id] = Subscribed(Waiting(l))
      \/ \E v \in {"block", "null"} :
            lookups'[id] = Finish(Waiting(l), v) \/ lookups'[id] = Subscribed(Finish(Waiting(l), v))
  <2>1. CASE Deliver(id) \/ LookupTimesOut(id) \/ LookupFails(id)
    BY <2>1 DEF Deliver, LookupFails, LookupTimesOut
  <2>2. CASE OpenLookup(id, Aborting(id))
    BY <2>2, <1>3 DEF OpenLookup
  <2> QED
    BY <2>1, <2>2 DEF HostLookup, LookupError, Opens, TimesOut
<1> HIDE DEF l
<1>6. lookups'[id].cid = l.cid
  <2>1. ASSUME NEW v \in {"block", "null", "error"}
        PROVE  Finish(l, v).cid = l.cid
    BY <1>1, SettlesAs
  <2>2. ASSUME NEW v \in {"block", "null"}
        PROVE  Finish(Waiting(l), v).cid = l.cid /\ Subscribed(Finish(Waiting(l), v)).cid = l.cid
    BY <1>1, SettlesAs
  <2>3. Subscribed(Waiting(l)).cid = l.cid
    BY <1>1, SettlesAs
  <2> QED
    BY <1>4, <1>5, <2>1, <2>2, <2>3
<1> QED
  BY <1>2, <1>6 DEF Kept, l

LEMMA AbortedWalks ==
  ASSUME LookupInv, NEW r
  PROVE  /\ Kept(lookups, AbortLookups(lookups, r))
         /\ DOMAIN AbortLookups(lookups, r) = DOMAIN lookups
<1>1. \A l : IsLookup(l) => Aborted(l).cid = l.cid
  BY SettlesAs DEF Aborted
<1>2. DOMAIN AbortLookups(lookups, r) = DOMAIN lookups
      /\ \A i \in DOMAIN lookups : \/ AbortLookups(lookups, r)[i] = lookups[i]
                                   \/ AbortLookups(lookups, r)[i] = Aborted(lookups[i])
  BY DEF AbortLookups
<1> QED
  BY <1>1, <1>2 DEF Kept, LookupInv, LookupsOk

LEMMA MoreIsKept ==
  ASSUME NEW ls, NEW more
  PROVE  /\ Kept(ls, MoreLookups(ls, more))
         /\ DOMAIN MoreLookups(ls, more) = DOMAIN ls \union DOMAIN more
         /\ \A id \in DOMAIN more : id \notin DOMAIN ls => MoreLookups(ls, more)[id] = more[id]
BY DEF Kept, MoreLookups

\* An upload looks up no node of a walk.
LEMMA UploadWalks ==
  ASSUME LookupInv, WalkInv, UNCHANGED previewVars,
         FormStep \/ \E u \in DOMAIN uploads : UploadStep(u)
  PROVE  WalkInv'
<1>1. CASE lookups' = lookups
  BY <1>1, WalkStays DEF Kept
<1>2. ASSUME NEW u, Record(u)
      PROVE  WalkInv'
  <2>1. CASE lookups' = lookups
    BY <2>1, <1>1
  <2>2. CASE lookups' = MoreLookups(lookups, OneLookup(Verifying(u), Block(u)))
    <3>1. DOMAIN OneLookup(Verifying(u), Block(u)) = {Verifying(u)}
      BY DEF OneLookup
    <3>2. ~IsPreview(Verifying(u))
      BY DEF IsPreview, Verifying
    <3>3. Kept(lookups, lookups') /\ DOMAIN lookups' = DOMAIN lookups \union {Verifying(u)}
      BY <2>2, <3>1, MoreIsKept
    <3> QED
      BY <3>2, <3>3, WalkStays
  <2> QED
    BY <1>2, <2>1, <2>2 DEF Record, Verify
<1>3. ASSUME NEW u, Verified(u)
      PROVE  WalkInv'
  <2> DEFINE ls == Restrict(lookups, DOMAIN lookups \ {Verifying(u)})
  <2>1. DOMAIN ls = DOMAIN lookups \ {Verifying(u)} /\ \A id \in DOMAIN ls : ls[id] = lookups[id]
    BY DEF Restrict
  <2>2. ~IsPreview(Verifying(u))
    BY DEF IsPreview, Verifying
  <2>3. lookups' = ls
    BY <1>3 DEF Verified
  <2> HIDE DEF ls
  <2> QED
    BY <2>1, <2>2, <2>3, WalkStays DEF Kept
<1>4. CASE FormStep
  BY <1>1, <1>4 DEF FormStep, ResumePending, DiscardPending, RemoveFile, StartUpload, CloseDialog,
                    SelectFile
<1>5. ASSUME NEW u, UploadStep(u), ~Record(u), ~Verified(u)
      PROVE  WalkInv'
  BY <1>1, <1>5 DEF UploadStep, Worker, Tab, Host, Failure, Prepared, RetryStore, GlobalTimeout, Store,
                    Cached, WorkerFails, StoreErrs, StoreRefused, Throw
<1> QED
  BY <1>2, <1>3, <1>4, <1>5

\* A fetch and its walk begin, or only others are aborted.
LEMMA NewWalk ==
  ASSUME LookupInv, WalkInv, fetch \in Seq(Fetches), NEW fs \in Seq(Fetches), Len(fs) = Len(fetch),
         \A r \in DOMAIN fetch : fs[r].pc = fetch[r].pc /\ fs[r].cid = fetch[r].cid
                                 /\ fs[r].content = fetch[r].content,
         NEW ls, Kept(lookups, ls), DOMAIN ls = DOMAIN lookups,
         NEW new \in Fetches, new.pc \in {"cached", "walks"},
         new.pc = "cached" => new.content \in FileCids,
         fetch' = Append(fs, new), view'.shown = NoCid,
         lookups' = IF new.pc = "cached" THEN ls
                    ELSE MoreLookups(ls, OneLookup(Walk(Len(fetch) + 1, <<>>), new.cid))
  PROVE  WalkInv'
<1> DEFINE r == Len(fetch) + 1
           top == Walk(r, <<>>)
<1>1. Len(fetch) \in Nat /\ DOMAIN fetch = 1..Len(fetch)
  OBVIOUS
<1>2. /\ DOMAIN fetch' = 1..r /\ fetch'[r] = new /\ r \in DOMAIN fetch' /\ r \notin DOMAIN fetch
      /\ \A q \in DOMAIN fetch : q \in DOMAIN fetch' /\ fetch'[q] = fs[q]
      /\ \A q \in DOMAIN fetch' : q \in DOMAIN fetch \/ q = r
  BY <1>1
<1>3. SameFetches(fetch, fetch')
  BY <1>2 DEF SameFetches
<1>4. top \notin DOMAIN lookups
  <2>1. ASSUME top \in DOMAIN lookups
        PROVE  FALSE
    <3>1. Placed(lookups, fetch, r, <<>>)
      BY <2>1, WalkIs DEF WalkInv, WalksOk
    <3> QED
      BY <1>2, <3>1 DEF Placed
  <2> QED
    BY <2>1
<1> HIDE DEF r
<1>5. NewLookup(new.cid).cid = new.cid
  BY DEF NewLookup
<1>6. CASE new.pc = "cached"
  <2>1. lookups' = ls
    BY <1>6
  <2>2. WalksOk(ls, fetch')
    BY <1>3, WalksStay DEF WalkInv
  <2>3. FetchesOk(lookups', fetch')
    BY <1>2, <1>6, <2>1, WalkIs DEF WalkInv, FetchesOk
  <2> QED
    BY <2>1, <2>2, <2>3 DEF WalkInv, ShownInv
<1>7. CASE new.pc = "walks"
  <2> DEFINE more == OneLookup(top, new.cid)
  <2>1. lookups' = MoreLookups(ls, more)
    BY <1>7 DEF r
  <2>2. DOMAIN more = {top} /\ more[top] = NewLookup(new.cid)
    BY DEF OneLookup
  <2> HIDE DEF more
  <2>3. Kept(ls, lookups') /\ DOMAIN lookups' = DOMAIN lookups \union {top}
        /\ lookups'[top] = NewLookup(new.cid)
    <3>1. top \in DOMAIN more /\ top \notin DOMAIN ls
      BY <1>4, <2>2
    <3>2. /\ Kept(ls, lookups') /\ DOMAIN lookups' = DOMAIN ls \union DOMAIN more
          /\ \A id \in DOMAIN more : id \notin DOMAIN ls => lookups'[id] = more[id]
      <4>1. /\ Kept(ls, MoreLookups(ls, more))
            /\ DOMAIN MoreLookups(ls, more) = DOMAIN ls \union DOMAIN more
            /\ \A id \in DOMAIN more : id \notin DOMAIN ls => MoreLookups(ls, more)[id] = more[id]
        BY MoreIsKept
      <4> QED
        BY <2>1, <4>1
    <3> QED
      BY <2>2, <3>1, <3>2
  <2>4. Kept(lookups, lookups')
    BY <2>3 DEF Kept
  <2>5. ASSUME NEW id \in DOMAIN lookups', IsPreview(id)
        PROVE  Placed(lookups', fetch', id[2], id[3])
    <3>1. CASE id \in DOMAIN lookups
      <4>1. id = Walk(id[2], id[3]) /\ Placed(lookups, fetch, id[2], id[3])
        BY <2>5, <3>1, PreviewIds DEF WalkInv, WalksOk
      <4> QED
        BY <1>3, <2>4, <3>1, <4>1, PlacedStays
    <3>2. CASE id = top
      <4>1. id[2] = r /\ id[3] = <<>> /\ Len(<<>>) = 0
        BY <3>2, WalkIs
      <4>2. lookups'[top].cid = new.cid
        BY <1>5, <2>3
      <4>3. Placed(lookups', fetch', r, <<>>)
        BY <1>2, <4>1, <4>2 DEF Placed
      <4> QED
        BY <4>1, <4>3
    <3> QED
      BY <2>3, <3>1, <3>2
  <2>6. WalksOk(lookups', fetch')
    BY <2>5 DEF WalksOk
  <2>7. FetchesOk(lookups', fetch')
    BY <1>2, <1>7, <2>3 DEF WalkInv, FetchesOk
  <2> QED
    BY <2>6, <2>7 DEF WalkInv, ShownInv
<1> QED
  BY <1>6, <1>7

LEMMA ContentWalks ==
  ASSUME ViewType, ViewInv, HandOffInv, LookupInv, WalkInv,
         NEW cid \in Sites, NEW v, Shows(v), v = view \/ v = EmptyView, FetchContent(cid, v)
  PROVE  WalkInv'
<1>1. v \in Views /\ v.active \in Nat /\ fetch \in Seq(Fetches) /\ Len(fetch) \in Nat
  BY DEF Shows, Views, ViewType
<1>2. CASE cid = Malformed
  <2>1. view' = [v EXCEPT !.error = TRUE, !.loading = FALSE] /\ fetch' = fetch /\ lookups' = lookups
    BY <1>2 DEF FetchContent
  <2>2. view'.shown = v.shown /\ EmptyView.shown = NoCid
    BY <1>1, <2>1 DEF Views, EmptyView
  <2> QED
    BY <2>1, <2>2 DEF WalkInv, ShownInv
<1>3. CASE cid # Malformed
  <2> DEFINE r == Len(fetch) + 1
             fs == AbortFetch(fetch, v.active)
             ls == AbortLookups(lookups, v.active)
             cached == handOff.cid = cid
             new == [cid |-> cid, aborted |-> FALSE, pc |-> IF cached THEN "cached" ELSE "walks",
                     content |-> IF cached THEN CidOf(handOff.file) ELSE NoCid]
  <2>1. /\ fetch' = Append(fs, new)
        /\ view' = [Emptied(v) EXCEPT !.loading = TRUE, !.error = FALSE, !.active = r]
        /\ lookups' = IF cached THEN ls ELSE MoreLookups(ls, OneLookup(Walk(r, <<>>), cid))
    BY <1>3 DEF FetchContent
  <2>2. cached => CidOf(handOff.file) \in FileCids
    <3>1. CASE handOff = NoEntry
      BY <3>1, SitesAre
    <3>2. CASE handOff.file \in Files
      BY <3>2, FileCid
    <3> QED
      BY <3>1, <3>2 DEF HandOffInv
  <2>3. FileCids \subseteq Blocks
    BY FileCid DEF FileCids
  <2>4. new \in Fetches /\ new.cid = cid /\ (new.pc = "cached" <=> cached)
        /\ new.pc \in {"cached", "walks"} /\ (new.pc = "cached" => new.content \in FileCids)
    BY <2>2, <2>3 DEF Fetches
  <2>5. /\ fs \in Seq(Fetches) /\ Len(fs) = Len(fetch)
        /\ \A q \in DOMAIN fetch : fs[q].pc = fetch[q].pc /\ fs[q].cid = fetch[q].cid
                                   /\ fs[q].content = fetch[q].content
    BY <1>1, AbortedFetch DEF Shows
  <2>6. view'.shown = NoCid
    <3>1. \A k : [Emptied(v) EXCEPT !.loading = TRUE, !.error = FALSE, !.active = k].shown = NoCid
      BY <1>1 DEF Views, Emptied
    <3> QED
      BY <2>1, <3>1
  <2>7. Kept(lookups, ls) /\ DOMAIN ls = DOMAIN lookups
    BY AbortedWalks
  <2>8. lookups' = IF new.pc = "cached" THEN ls
                   ELSE MoreLookups(ls, OneLookup(Walk(Len(fetch) + 1, <<>>), new.cid))
    BY <2>1, <2>4
  <2> HIDE DEF fs, ls, new
  <2> QED
    BY <1>1, <2>1, <2>4, <2>5, <2>6, <2>7, <2>8, NewWalk
<1> QED
  BY <1>2, <1>3

\* Fetches are aborted or over, and what is shown stays or goes.
LEMMA EndedWalks ==
  ASSUME LookupInv, WalkInv, NEW r, lookups' = AbortLookups(lookups, r), DOMAIN fetch' = DOMAIN fetch,
         \A q \in DOMAIN fetch : /\ fetch'[q].cid = fetch[q].cid /\ fetch'[q].content = fetch[q].content
                                 /\ fetch'[q].pc \in {fetch[q].pc, "over"},
         view'.shown \in {view.shown, NoCid}
  PROVE  WalkInv'
<1>1. Kept(lookups, lookups') /\ DOMAIN lookups' = DOMAIN lookups
  BY AbortedWalks
<1>2. SameFetches(fetch, fetch')
  BY DEF SameFetches
<1>3. WalksOk(lookups', fetch')
  BY <1>1, <1>2, WalksStay DEF WalkInv
<1>4. FetchesOk(lookups', fetch')
  BY <1>1 DEF WalkInv, FetchesOk
<1> QED
  BY <1>3, <1>4 DEF WalkInv, ShownInv

LEMMA WatchWalks ==
  ASSUME ViewType, ViewInv, HandOffInv, LookupInv, WalkInv,
         NEW place \in Sites, NEW v, Shows(v), v = view \/ v = EmptyView, Watch(place, v)
  PROVE  WalkInv'
<1>1. CASE place = Landing
  <2>1. /\ view' = [Emptied(v) EXCEPT !.active = 0] /\ fetch' = AbortFetch(fetch, v.active)
        /\ lookups' = AbortLookups(lookups, v.active)
    BY <1>1 DEF Watch
  <2>2. v \in Views /\ v.active \in Nat /\ fetch \in Seq(Fetches) /\ Len(fetch) \in Nat
    BY DEF Shows, Views, ViewType
  <2>3. view'.shown = NoCid
    BY <2>1, <2>2 DEF Views, Emptied
  <2>4. /\ fetch' \in Seq(Fetches) /\ Len(fetch') = Len(fetch)
        /\ \A r \in DOMAIN fetch : fetch'[r].pc = fetch[r].pc /\ fetch'[r].cid = fetch[r].cid
                                   /\ fetch'[r].content = fetch[r].content
    BY <2>1, <2>2, AbortedFetch DEF Shows
  <2>5. DOMAIN fetch' = DOMAIN fetch
    BY <2>2, <2>4
  <2> QED
    BY <2>1, <2>3, <2>4, <2>5, EndedWalks
<1>2. CASE place # Landing
  BY <1>2, ContentWalks DEF Watch
<1> QED
  BY <1>1, <1>2

LEMMA UnmountWalks ==
  ASSUME ViewType, ViewInv, LookupInv, WalkInv, Unmount
  PROVE  WalkInv'
<1>1. fetch \in Seq(Fetches) /\ Len(fetch) \in Nat /\ view.active \in Nat /\ Shows(view)
  BY Instances DEF ViewType, Views
<1> DEFINE fs == AbortFetch(fetch, view.active)
<1>2. /\ fs \in Seq(Fetches) /\ Len(fs) = Len(fetch)
      /\ \A q \in DOMAIN fetch : fs[q].cid = fetch[q].cid /\ fs[q].content = fetch[q].content
  BY <1>1, AbortedFetch DEF Shows
<1>3. \A f \in Fetches : LET s == [f EXCEPT !.pc = "over"]
                         IN  s.cid = f.cid /\ s.content = f.content /\ s.pc = "over"
  BY DEF Fetches
<1>4. fetch' = [q \in DOMAIN fetch |-> [fs[q] EXCEPT !.pc = "over"]] /\ view' = EmptyView
      /\ lookups' = AbortLookups(lookups, view.active)
  BY DEF Unmount
<1> HIDE DEF fs
<1>5. \A q \in DOMAIN fetch : fs[q] \in Fetches
  BY <1>1, <1>2
<1>6. view'.shown = NoCid
  BY <1>4 DEF EmptyView
<1> QED
  BY <1>2, <1>3, <1>4, <1>5, <1>6, EndedWalks

LEMMA HideWalks ==
  ASSUME ViewType, ViewInv, LookupInv, WalkInv, HidePage
  PROVE  WalkInv'
<1>1. view \in Views /\ fetch \in Seq(Fetches) /\ Len(fetch) \in Nat /\ view.active \in Nat /\ Shows(view)
  BY Instances DEF ViewType, Views
<1>2. /\ view' = [view EXCEPT !.active = 0] /\ fetch' = AbortFetch(fetch, view.active)
      /\ lookups' = AbortLookups(lookups, view.active)
  BY DEF HidePage
<1>3. /\ fetch' \in Seq(Fetches) /\ Len(fetch') = Len(fetch)
      /\ \A r \in DOMAIN fetch : fetch'[r].pc = fetch[r].pc /\ fetch'[r].cid = fetch[r].cid
                                 /\ fetch'[r].content = fetch[r].content
  BY <1>1, <1>2, AbortedFetch DEF Shows
<1>4. view'.shown = view.shown /\ DOMAIN fetch' = DOMAIN fetch
  BY <1>1, <1>2, <1>3 DEF Views
<1> QED
  BY <1>2, <1>3, <1>4, EndedWalks

LEMMA ReloadWalks ==
  ASSUME ViewType, WalkInv, Reload
  PROVE  WalkInv'
<1>1. DOMAIN lookups' = {} /\ view' = EmptyView
      /\ fetch' = [r \in DOMAIN fetch |-> [fetch[r] EXCEPT !.pc = "over"]]
  BY DEF Reload
<1>2. \A f \in Fetches : [f EXCEPT !.pc = "over"].pc = "over"
  BY DEF Fetches
<1>3. \A r \in DOMAIN fetch : fetch[r] \in Fetches
  BY DEF ViewType
<1>4. \A r \in DOMAIN fetch' : fetch'[r].pc = "over"
  BY <1>1, <1>2, <1>3
<1>5. view'.shown = NoCid
  BY <1>1 DEF EmptyView
<1> QED
  BY <1>1, <1>4, <1>5 DEF WalkInv, WalksOk, FetchesOk, ShownInv

(***************************************************************************)
(* Paths, a link longer and a link shorter.                                *)
(***************************************************************************)
LEMMA PathDown ==
  ASSUME NEW q \in Seq(Nat), NEW i \in Nat
  PROVE  /\ Append(q, i) \in Seq(Nat) /\ Append(q, i) # <<>>
         /\ Len(Append(q, i)) = Len(q) + 1 /\ Append(q, i)[Len(q) + 1] = i
         /\ SubSeq(Append(q, i), 1, Len(q)) = q
         /\ \A k \in 1..Len(q) : /\ Append(q, i)[k] = q[k]
                                 /\ SubSeq(Append(q, i), 1, k - 1) = SubSeq(q, 1, k - 1)
<1> DEFINE p == Append(q, i)
<1>1. /\ p \in Seq(Nat) /\ Len(p) = Len(q) + 1 /\ p[Len(q) + 1] = i /\ Len(q) \in Nat
      /\ \A k \in 1..Len(q) : p[k] = q[k]
  OBVIOUS
<1> HIDE DEF p
<1>2. ASSUME NEW k \in 0..Len(q)
      PROVE  SubSeq(p, 1, k) = SubSeq(q, 1, k)
  <2>1. \A j \in 1..k : p[j] \in Nat /\ q[j] \in Nat /\ p[j] = q[j]
    BY <1>1
  <2>2. /\ SubSeq(p, 1, k) \in Seq(Nat) /\ SubSeq(q, 1, k) \in Seq(Nat)
        /\ Len(SubSeq(p, 1, k)) = k /\ Len(SubSeq(q, 1, k)) = k
        /\ \A j \in 1..k : SubSeq(p, 1, k)[j] = p[j] /\ SubSeq(q, 1, k)[j] = q[j]
    <3>1. k \in Int /\ 1 \in Int /\ k - 1 + 1 = k /\ (IF 1 <= k THEN k - 1 + 1 ELSE 0) = k
      BY <1>1
    <3>2. /\ SubSeq(p, 1, k) \in Seq(Nat) /\ Len(SubSeq(p, 1, k)) = k
          /\ \A j \in 1..k : SubSeq(p, 1, k)[j] = p[1 + j - 1]
      BY <2>1, <3>1, SubSeqProperties
    <3>3. /\ SubSeq(q, 1, k) \in Seq(Nat) /\ Len(SubSeq(q, 1, k)) = k
          /\ \A j \in 1..k : SubSeq(q, 1, k)[j] = q[1 + j - 1]
      BY <2>1, <3>1, SubSeqProperties
    <3>4. \A j \in 1..k : 1 + j - 1 = j
      OBVIOUS
    <3> QED
      BY <3>2, <3>3, <3>4
  <2> QED
    BY <2>1, <2>2, SeqEqual
<1>3. SubSeq(p, 1, Len(q)) = q
  <2>1. Len(q) \in 0..Len(q)
    BY <1>1
  <2> QED
    BY <1>2, <2>1, SubSeqFull
<1>4. \A k \in 1..Len(q) : SubSeq(p, 1, k - 1) = SubSeq(q, 1, k - 1)
  <2>1. \A k \in 1..Len(q) : k - 1 \in 0..Len(q)
    BY <1>1
  <2> QED
    BY <1>2, <2>1
<1>5. p # <<>>
  BY <1>1
<1> QED
  BY <1>1, <1>3, <1>4, <1>5 DEF p

LEMMA PathUp ==
  ASSUME NEW q \in Seq(Nat), NEW k \in 1..Len(q)
  PROVE  /\ SubSeq(q, 1, k - 1) \in Seq(Nat) /\ Len(SubSeq(q, 1, k - 1)) = k - 1
         /\ Append(SubSeq(q, 1, k - 1), q[k]) = SubSeq(q, 1, k)
<1> DEFINE p == SubSeq(q, 1, k - 1)
           s == SubSeq(q, 1, k)
<1>1. Len(q) \in Nat /\ k \in Int /\ k - 1 \in Int /\ 1 \in Int /\ 1 <= k
      /\ \A j \in 1..k : q[j] \in Nat
  OBVIOUS
<1>2. p \in Seq(Nat) /\ Len(p) = (IF 1 <= k - 1 THEN k - 1 - 1 + 1 ELSE 0)
      /\ \A j \in 1..(k - 1 - 1 + 1) : p[j] = q[1 + j - 1]
  <2>1. \A j \in 1..(k - 1) : q[j] \in Nat
    BY <1>1
  <2> QED
    BY <1>1, <2>1, SubSeqProperties
<1>3. s \in Seq(Nat) /\ Len(s) = (IF 1 <= k THEN k - 1 + 1 ELSE 0)
      /\ \A j \in 1..(k - 1 + 1) : s[j] = q[1 + j - 1]
  BY <1>1, SubSeqProperties
<1> HIDE DEF p, s
<1>4. Len(p) = k - 1 /\ Len(s) = k /\ s[k] = q[k] /\ q[k] \in Nat
      /\ \A j \in 1..(k - 1) : p[j] = q[j] /\ s[j] = q[j]
  BY <1>1, <1>2, <1>3
<1>5. /\ Append(p, q[k]) \in Seq(Nat) /\ Len(Append(p, q[k])) = k
      /\ \A j \in 1..k : Append(p, q[k])[j] = s[j]
  BY <1>1, <1>2, <1>4
<1>6. Append(p, q[k]) = s
  BY <1>3, <1>4, <1>5, SeqEqual
<1> QED
  BY <1>2, <1>4, <1>6 DEF p, s

\* A node's children are looked up, all of them.
LEMMA ExpandWalks ==
  ASSUME LookupInv, WalkInv, preimages \subseteq Blocks,
         NEW id \in DOMAIN lookups, IsPreview(id), Expand(id)
  PROVE  WalkInv'
<1> DEFINE r == id[2]
           q == id[3]
           links == lookups[id].cid.links
           child(i) == Walk(r, Append(q, i))
           more == [c \in {child(i) : i \in DOMAIN links} |-> NewLookup(links[LinkOf(c)])]
<1>1. /\ lookups' = MoreLookups(lookups, more) /\ view' = view /\ fetch' = fetch
      /\ ~Expanded(id) /\ lookups[id].value = "block"
  BY DEF Expand, previewFrame
<1>2. id = Walk(r, q) /\ q \in Seq(Nat) /\ Len(q) \in Nat /\ Placed(lookups, fetch, r, q)
  BY PreviewIds DEF WalkInv, WalksOk
<1>3. DOMAIN links \subseteq Nat
  <2>1. lookups[id].cid \in Blocks
    BY <1>1 DEF LookupInv, LookupsOk
  <2> QED
    BY <2>1, BlockLinks
<1>4. ASSUME NEW i \in DOMAIN links
      PROVE  /\ Len(Append(q, i)) = Len(q) + 1 /\ Append(q, i)[Len(q) + 1] = i
             /\ SubSeq(Append(q, i), 1, Len(q)) = q
             /\ \A k \in 1..Len(q) : /\ Append(q, i)[k] = q[k]
                                     /\ SubSeq(Append(q, i), 1, k - 1) = SubSeq(q, 1, k - 1)
  BY <1>2, <1>3, PathDown
<1>5. ASSUME NEW i \in DOMAIN links
      PROVE  child(i) \in DOMAIN more /\ child(i) \notin DOMAIN lookups
             /\ more[child(i)].cid = links[i]
  <2>1. child(i)[2] = r /\ child(i)[3] = Append(q, i) /\ IsPreview(child(i))
    BY WalkIs
  <2>2. LinkOf(child(i)) = i
    BY <1>4, <2>1 DEF LinkOf
  <2>3. child(i) # id /\ Below(child(i), id)
    <3>1. SubSeq(q, 1, Len(q)) = q
      BY <1>2, SubSeqFull
    <3>2. IsPrefix(q, Append(q, i))
      BY <1>2, <1>4, <3>1 DEF IsPrefix
    <3> QED
      BY <1>2, <1>4, <2>1, <3>2 DEF Below
  <2>4. child(i) \notin DOMAIN lookups
    BY <1>1, <2>1, <2>3 DEF Expanded, WalkOf, IsPreview
  <2> QED
    BY <2>2, <2>4 DEF NewLookup
<1>6. ASSUME NEW id2 \in DOMAIN more
      PROVE  \E i \in DOMAIN links : id2 = child(i)
  OBVIOUS
<1> HIDE DEF more
<1>7. Kept(lookups, lookups') /\ DOMAIN lookups' = DOMAIN lookups \union DOMAIN more
      /\ \A i \in DOMAIN links : child(i) \in DOMAIN lookups' /\ lookups'[child(i)].cid = links[i]
  <2>1. /\ Kept(lookups, lookups') /\ DOMAIN lookups' = DOMAIN lookups \union DOMAIN more
        /\ \A c \in DOMAIN more : c \notin DOMAIN lookups => lookups'[c] = more[c]
    BY <1>1, MoreIsKept
  <2> QED
    BY <1>5, <2>1
<1>8. lookups'[id].cid.links = links /\ id \in DOMAIN lookups' /\ Children(lookups', r, q)
  BY <1>2, <1>7 DEF Kept, Children
<1>9. SameFetches(fetch, fetch)
  BY DEF SameFetches
<1>10. ASSUME NEW i \in DOMAIN links
       PROVE  Placed(lookups', fetch, r, Append(q, i))
  <2>1. Placed(lookups', fetch, r, q)
    BY <1>2, <1>7, <1>9, PlacedStays
  <2>2. Append(q, i) # <<>>
    BY <1>2, <1>3, PathDown
  <2>3. ASSUME NEW k \in 1..Len(Append(q, i))
        PROVE  /\ Children(lookups', r, SubSeq(Append(q, i), 1, k - 1))
               /\ Append(q, i)[k] \in DOMAIN lookups'[Walk(r, SubSeq(Append(q, i), 1, k - 1))].cid.links
    <3>1. CASE k \in 1..Len(q)
      BY <1>4, <2>1, <3>1 DEF Placed
    <3>2. CASE k = Len(q) + 1
      <4>1. k - 1 = Len(q)
        BY <1>2, <3>2
      <4>2. SubSeq(Append(q, i), 1, k - 1) = q /\ Append(q, i)[k] = i
        BY <1>4, <3>2, <4>1
      <4> QED
        BY <1>2, <1>8, <4>2
    <3> QED
      BY <1>2, <1>4, <3>1, <3>2
  <2> QED
    BY <2>1, <2>2, <2>3 DEF Placed
<1>11. ASSUME NEW n \in DOMAIN lookups', IsPreview(n)
       PROVE  Placed(lookups', fetch, n[2], n[3])
  <2>1. CASE n \in DOMAIN lookups
    <3>1. n = Walk(n[2], n[3]) /\ Placed(lookups, fetch, n[2], n[3])
      BY <1>11, <2>1, PreviewIds DEF WalkInv, WalksOk
    <3> QED
      BY <1>7, <1>9, <2>1, <3>1, PlacedStays
  <2>2. CASE n \in DOMAIN more
    <3>1. PICK i \in DOMAIN links : n = child(i)
      BY <1>6, <2>2
    <3>2. n[2] = r /\ n[3] = Append(q, i)
      BY <3>1, WalkIs
    <3> QED
      BY <1>10, <3>2
  <2> QED
    BY <1>7, <2>1, <2>2
<1>12. FetchesOk(lookups', fetch)
  BY <1>7 DEF WalkInv, FetchesOk
<1> QED
  BY <1>1, <1>11, <1>12 DEF WalkInv, WalksOk, ShownInv

(***************************************************************************)
(* A complete walk has looked up the tree below its CID, and nothing else. *)
(***************************************************************************)
\* What a node of a complete walk is, and that its children were looked up, too.
LEMMA CompleteNode ==
  ASSUME LookupInv, WalksOk(lookups, fetch), preimages \subseteq Blocks, NEW r,
         Complete(Walk(r, <<>>)), NEW q, Walk(r, q) \in DOMAIN lookups
  PROVE  /\ lookups[Walk(r, q)].cid \in Blocks /\ q \in Seq(Nat) /\ Len(q) \in 0..MaxDagDepth
         /\ Placed(lookups, fetch, r, q)
         /\ ~IsLeaf(lookups[Walk(r, q)].cid) =>
               Len(q) < MaxDagDepth /\ Children(lookups, r, q)
<1> DEFINE id == Walk(r, q)
<1>1. IsPreview(id) /\ id[2] = r /\ id[3] = q /\ Walk(r, <<>>)[2] = r /\ Walk(r, <<>>)[3] = <<>>
  BY WalkIs
<1>2. q \in Seq(Nat) /\ Len(q) \in Nat /\ Len(q) <= MaxDagDepth /\ Placed(lookups, fetch, r, q)
  BY <1>1, PreviewIds DEF LookupInv, LookupsOk, WalksOk
<1>3. id \in WalkOf(r) /\ Below(id, Walk(r, <<>>))
  <2>1. SubSeq(q, 1, 0) = <<>> /\ SubSeq(<<>>, 1, 0) = <<>> /\ Len(<<>>) = 0
    BY SubSeqEmpty
  <2>2. IsPrefix(<<>>, q)
    BY <1>2, <2>1 DEF IsPrefix
  <2> QED
    BY <1>1, <2>2 DEF WalkOf, Below, IsPreview
<1>4. lookups[id].value = "block" /\ (IsLeaf(lookups[id].cid) \/ Expanded(id))
  BY <1>1, <1>3 DEF Complete
<1>5. lookups[id].cid \in Blocks
  BY <1>4 DEF LookupInv, LookupsOk
<1>6. ASSUME Expanded(id)
      PROVE  Len(q) < MaxDagDepth /\ Children(lookups, r, q)
  <2>1. PICK other \in DOMAIN lookups :
           IsPreview(other) /\ other[2] = r /\ other # id /\ Below(other, id)
    BY <1>1, <1>6 DEF Expanded, WalkOf, IsPreview
  <2> DEFINE p == other[3]
  <2>2. other = Walk(r, p) /\ p \in Seq(Nat) /\ Len(p) \in Nat /\ Len(p) <= MaxDagDepth
        /\ Placed(lookups, fetch, r, p)
    BY <2>1, PreviewIds DEF LookupInv, LookupsOk, WalksOk
  <2>3. Len(q) <= Len(p) /\ SubSeq(p, 1, Len(q)) = q
    <3>1. IsPrefix(q, p)
      BY <1>1, <2>1 DEF Below
    <3> QED
      BY <1>2, <3>1, SubSeqFull DEF IsPrefix
  <2>4. p # q
    BY <2>1, <2>2
  <2> HIDE DEF p
  <2>5. Len(q) # Len(p)
    BY <2>2, <2>3, <2>4, SubSeqFull
  <2>6. Len(q) + 1 \in 1..Len(p) /\ Len(q) + 1 - 1 = Len(q)
    BY <1>2, <2>2, <2>3, <2>5
  <2>7. Children(lookups, r, SubSeq(p, 1, Len(q) + 1 - 1))
    BY <2>2, <2>6 DEF Placed
  <2>8. Len(q) < MaxDagDepth
    BY <1>2, <2>2, <2>3, <2>5, PreviewAssumption
  <2>9. Children(lookups, r, q)
    BY <2>3, <2>6, <2>7
  <2> QED
    BY <2>8, <2>9
<1> QED
  BY <1>2, <1>4, <1>5, <1>6, PreviewAssumption

\* Where links lead from its CID is where the walk was.
LEMMA LeadsAreLookedUp ==
  ASSUME LookupInv, WalksOk(lookups, fetch), preimages \subseteq Blocks, NEW r,
         Walk(r, <<>>) \in DOMAIN lookups, Complete(Walk(r, <<>>)),
         NEW path \in Paths, NEW b \in Blocks, Leads(fetch[r].cid, path, b)
  PROVE  Walk(r, path) \in DOMAIN lookups /\ lookups[Walk(r, path)].cid = b
<1>1. PICK trail \in [0..Len(path) -> Blocks] :
         /\ trail[0] = fetch[r].cid /\ trail[Len(path)] = b
         /\ \A n \in DOMAIN path : /\ path[n] \in DOMAIN trail[n - 1].links
                                  /\ trail[n] = trail[n - 1].links[path[n]]
  BY DEF Leads
<1>2. path \in Seq(Nat) /\ Len(path) \in Nat /\ DOMAIN path = 1..Len(path)
  <2> DEFINE X == UNION {DOMAIN c.links : c \in Blocks}
  <2>1. X \subseteq Nat
    BY BlockLinks
  <2>2. PICK n \in 0..MaxDagDepth : path \in [1..n -> X]
    BY DEF Paths
  <2> HIDE DEF X
  <2>3. n \in Nat /\ path \in [1..n -> Nat]
    BY <2>1, <2>2, PreviewAssumption
  <2> QED
    BY <2>3
<1> DEFINE Found(k) == /\ Walk(r, SubSeq(path, 1, k)) \in DOMAIN lookups
                       /\ lookups[Walk(r, SubSeq(path, 1, k))].cid = trail[k]
           Lost == {k \in 0..Len(path) : ~Found(k)}
<1>3. Found(0)
  <2>1. SubSeq(path, 1, 0) = <<>>
    BY SubSeqEmpty
  <2>2. lookups[Walk(r, <<>>)].cid = fetch[r].cid
    BY CompleteNode DEF Placed
  <2> QED
    BY <1>1, <2>1, <2>2
<1>4. ASSUME NEW k \in 1..Len(path), Found(k - 1)
      PROVE  Found(k)
  <2> DEFINE p == SubSeq(path, 1, k - 1)
  <2>1. p \in Seq(Nat) /\ Append(p, path[k]) = SubSeq(path, 1, k)
    BY <1>2, PathUp
  <2>2. path[k] \in DOMAIN trail[k - 1].links /\ trail[k] = trail[k - 1].links[path[k]]
    BY <1>1, <1>2
  <2>3. Walk(r, p) \in DOMAIN lookups /\ lookups[Walk(r, p)].cid = trail[k - 1]
    BY <1>4
  <2> HIDE DEF p
  <2>4. ~IsLeaf(lookups[Walk(r, p)].cid)
    BY <2>2, <2>3 DEF IsLeaf
  <2>5. Children(lookups, r, p)
    BY <2>3, <2>4, CompleteNode
  <2> QED
    BY <2>1, <2>2, <2>3, <2>5 DEF Children
<1>5. Lost = {}
  <2>1. ASSUME Lost # {}
        PROVE  FALSE
    <3>1. Lost \subseteq Nat
      BY <1>2
    <3>2. PICK k \in Lost : \A j \in Lost : k <= j
      BY <2>1, <3>1, Least
    <3>3. k \in 1..Len(path) /\ k - 1 \in 0..Len(path)
      BY <1>2, <1>3, <3>2
    <3>4. Found(k - 1)
      BY <3>2, <3>3
    <3> QED
      BY <1>4, <3>2, <3>3, <3>4
  <2> QED
    BY <2>1
<1>6. Found(Len(path))
  BY <1>2, <1>5
<1>7. SubSeq(path, 1, Len(path)) = path
  BY <1>2, SubSeqFull
<1> QED
  BY <1>1, <1>6, <1>7

\* Where the walk was is where links lead from its CID.
LEMMA LookedUpAreLeads ==
  ASSUME LookupInv, WalksOk(lookups, fetch), preimages \subseteq Blocks, NEW r,
         Complete(Walk(r, <<>>)), NEW q, Walk(r, q) \in DOMAIN lookups
  PROVE  q \in Paths /\ Leads(fetch[r].cid, q, lookups[Walk(r, q)].cid)
<1>1. q \in Seq(Nat) /\ Len(q) \in 0..MaxDagDepth /\ DOMAIN q = 1..Len(q) /\ Len(q) \in Nat
      /\ Placed(lookups, fetch, r, q)
  BY CompleteNode, PreviewAssumption
<1> DEFINE up(k) == SubSeq(q, 1, k)
           at(k) == lookups[Walk(r, up(k))].cid
<1>2. ASSUME NEW k \in 1..Len(q)
      PROVE  /\ Walk(r, up(k - 1)) \in DOMAIN lookups /\ Walk(r, up(k)) \in DOMAIN lookups
             /\ q[k] \in DOMAIN at(k - 1).links /\ at(k) = at(k - 1).links[q[k]]
  <2>1. Children(lookups, r, up(k - 1)) /\ q[k] \in DOMAIN at(k - 1).links
    BY <1>1 DEF Placed
  <2>2. Append(up(k - 1), q[k]) = up(k)
    BY <1>1, PathUp
  <2> QED
    BY <2>1, <2>2 DEF Children
<1>3. up(Len(q)) = q
  BY <1>1, SubSeqFull
<1>4. ASSUME NEW k \in 0..Len(q)
      PROVE  Walk(r, up(k)) \in DOMAIN lookups
  <2>1. CASE k = Len(q)
    BY <1>3, <2>1
  <2>2. CASE k # Len(q)
    <3>1. k + 1 \in 1..Len(q) /\ k + 1 - 1 = k
      <4>1. \A n \in Nat : \A j \in 0..n : j # n => j + 1 \in 1..n /\ j + 1 - 1 = j
        OBVIOUS
      <4> QED
        BY <1>1, <2>2, <4>1
    <3>2. Walk(r, up(k + 1 - 1)) \in DOMAIN lookups
      BY <1>2, <3>1
    <3> QED
      BY <3>1, <3>2
  <2> QED
    BY <2>1, <2>2
<1>5. at(0) = fetch[r].cid
  <2>1. up(0) = <<>> /\ 0 \in 0..Len(q)
    BY <1>1, SubSeqEmpty
  <2>2. Walk(r, <<>>) \in DOMAIN lookups
    BY <1>4, <2>1
  <2>3. Placed(lookups, fetch, r, <<>>)
    BY <2>2, CompleteNode
  <2> QED
    BY <2>1, <2>3 DEF Placed
<1>6. \A k \in 0..Len(q) : at(k) \in Blocks
  BY <1>4, CompleteNode
<1>7. at(Len(q)) = lookups[Walk(r, q)].cid
  BY <1>3
<1> HIDE DEF up, at
<1>8. \A k \in 1..Len(q) : k - 1 \in 0..Len(q) /\ k \in 0..Len(q)
  BY <1>1
<1>9. Leads(fetch[r].cid, q, lookups[Walk(r, q)].cid)
  <2> DEFINE trail == [k \in 0..Len(q) |-> at(k)]
  <2>1. trail \in [0..Len(q) -> Blocks] /\ \A k \in 0..Len(q) : trail[k] = at(k)
    BY <1>6
  <2>2. 0 \in 0..Len(q) /\ Len(q) \in 0..Len(q)
    BY <1>1
  <2> HIDE DEF trail
  <2>3. trail[0] = fetch[r].cid /\ trail[Len(q)] = lookups[Walk(r, q)].cid
    BY <1>5, <1>7, <2>1, <2>2
  <2>4. ASSUME NEW k \in DOMAIN q
        PROVE  q[k] \in DOMAIN trail[k - 1].links /\ trail[k] = trail[k - 1].links[q[k]]
    <3>1. k \in 1..Len(q)
      BY <1>1
    <3>2. trail[k - 1] = at(k - 1) /\ trail[k] = at(k)
      BY <1>8, <2>1, <3>1
    <3> QED
      BY <1>2, <3>1, <3>2
  <2> QED
    BY <2>1, <2>3, <2>4 DEF Leads
<1>10. q \in Paths
  <2>1. \A k \in 1..Len(q) : q[k] \in UNION {DOMAIN b.links : b \in Blocks}
    <3>1. ASSUME NEW k \in 1..Len(q)
          PROVE  \E b \in Blocks : q[k] \in DOMAIN b.links
      BY <1>2, <1>6, <1>8
    <3> QED
      BY <3>1
  <2>2. q \in [1..Len(q) -> UNION {DOMAIN b.links : b \in Blocks}]
    <3>1. q \in [1..Len(q) -> Nat]
      BY <1>1
    <3> QED
      BY <2>1, <3>1
  <2> QED
    BY <1>1, <2>2 DEF Paths
<1> QED
  BY <1>9, <1>10

LEMMA CompleteIsTree ==
  ASSUME LookupInv, WalksOk(lookups, fetch), preimages \subseteq Blocks, NEW r,
         Walk(r, <<>>) \in DOMAIN lookups, Complete(Walk(r, <<>>))
  PROVE  /\ fetch[r].cid \in Blocks /\ Whole(fetch[r].cid)
         /\ Assembled(Walk(r, <<>>)) = LeavesOf(fetch[r].cid)
<1> DEFINE cid == fetch[r].cid
           top == Walk(r, <<>>)
<1>1. cid \in Blocks
  <2>1. lookups[top].cid \in Blocks /\ Placed(lookups, fetch, r, <<>>)
    BY CompleteNode
  <2> QED
    BY <2>1 DEF Placed
<1>2. Tree[cid] = {node \in Paths \X Blocks : Leads(cid, node[1], node[2])}
  BY <1>1 DEF Tree
<1>3. Whole(cid)
  <2>1. ASSUME NEW node \in Tree[cid], ~IsLeaf(node[2])
        PROVE  Len(node[1]) < MaxDagDepth /\ Range(node[2].links) \subseteq Blocks
    <3> DEFINE path == node[1]
               b == node[2]
    <3>1. path \in Paths /\ b \in Blocks /\ Leads(cid, path, b)
      BY <1>2, <2>1
    <3> HIDE DEF path, b
    <3>2. Walk(r, path) \in DOMAIN lookups /\ lookups[Walk(r, path)].cid = b
      BY <3>1, LeadsAreLookedUp
    <3>3. Len(path) < MaxDagDepth /\ Children(lookups, r, path)
      BY <2>1, <3>2, CompleteNode DEF b
    <3>4. ASSUME NEW i \in DOMAIN b.links
          PROVE  b.links[i] \in Blocks
      <4>1. Walk(r, Append(path, i)) \in DOMAIN lookups
            /\ lookups[Walk(r, Append(path, i))].cid = b.links[i]
        BY <3>2, <3>3 DEF Children
      <4> QED
        BY <4>1, CompleteNode
    <3>5. Range(b.links) \subseteq Blocks
      BY <3>4 DEF Range
    <3> QED
      BY <3>3, <3>5 DEF path, b
  <2> QED
    BY <2>1 DEF Whole
<1>4. ASSUME NEW leaf \in Assembled(top)
      PROVE  leaf \in LeavesOf(cid)
  <2>1. PICK o \in WalkOf(top[2]) : leaf = <<o[3], lookups[o].cid>> /\ IsLeaf(lookups[o].cid)
    BY <1>4 DEF Assembled
  <2>2. o \in DOMAIN lookups /\ IsPreview(o) /\ o[2] = r
    BY <2>1, WalkIs DEF WalkOf, IsPreview
  <2> DEFINE q == o[3]
  <2>3. o = Walk(r, q)
    BY <2>2, PreviewIds
  <2> HIDE DEF q
  <2>4. q \in Paths /\ Leads(cid, q, lookups[o].cid) /\ lookups[o].cid \in Blocks
    BY <2>2, <2>3, LookedUpAreLeads, CompleteNode
  <2>5. leaf = <<q, lookups[o].cid>>
    BY <2>1 DEF q
  <2> QED
    BY <1>2, <2>1, <2>4, <2>5 DEF LeavesOf
<1>5. ASSUME NEW leaf \in LeavesOf(cid)
      PROVE  leaf \in Assembled(top)
  <2> DEFINE path == leaf[1]
             b == leaf[2]
  <2>1. leaf = <<path, b>> /\ path \in Paths /\ b \in Blocks /\ Leads(cid, path, b) /\ IsLeaf(b)
    BY <1>2, <1>5 DEF LeavesOf
  <2> HIDE DEF path, b
  <2> DEFINE o == Walk(r, path)
  <2>2. o \in DOMAIN lookups /\ lookups[o].cid = b
    BY <2>1, LeadsAreLookedUp
  <2>3. path \in Seq(Nat) /\ Len(path) \in Nat
    BY <2>2, CompleteNode, PreviewAssumption
  <2>4. o \in WalkOf(r) /\ o[3] = path
    BY <2>2, WalkIs DEF WalkOf, IsPreview
  <2>5. Below(o, top)
    <3>1. SubSeq(path, 1, 0) = <<>> /\ SubSeq(<<>>, 1, 0) = <<>> /\ Len(<<>>) = 0
      BY SubSeqEmpty
    <3>2. IsPrefix(<<>>, path)
      BY <2>3, <3>1 DEF IsPrefix
    <3> QED
      BY <2>4, <3>2, WalkIs DEF Below
  <2>6. top[2] = r
    BY WalkIs
  <2> HIDE DEF o
  <2> QED
    BY <2>1, <2>2, <2>4, <2>5, <2>6 DEF Assembled
<1> QED
  BY <1>1, <1>3, <1>4, <1>5

\* A file of the user is whole, since it is chunks below at most one node, and small.
LEMMA UploadedIsBounded ==
  ASSUME NEW f \in Files
  PROVE  Bounded(CidOf(f))
<1> DEFINE cid == CidOf(f)
<1>1. cid \in Blocks
  BY FileCid
<1>2. \A i \in DOMAIN cid.links : cid.links[i] \in Blocks /\ cid.links[i].links = <<>>
  <2>1. CASE IsChunked(f)
    <3>1. cid.links = ChunksOf[f]
      BY <2>1, Leaves DEF CidOf, RootOf
    <3> QED
      BY <3>1, FileChunks
  <2>2. CASE ~IsChunked(f)
    <3>1. cid = ChunksOf[f][1] /\ ChunksOf[f][1].links = <<>>
      BY <2>2, FileChunks DEF CidOf
    <3>2. DOMAIN <<>> = {}
      OBVIOUS
    <3> QED
      BY <3>1, <3>2
  <2> QED
    BY <2>1, <2>2
<1> HIDE DEF cid
<1>3. ASSUME NEW node \in Tree[cid], ~IsLeaf(node[2])
      PROVE  Len(node[1]) < MaxDagDepth /\ Range(node[2].links) \subseteq Blocks
  <2> DEFINE path == node[1]
             b == node[2]
  <2>1. path \in Paths /\ Leads(cid, path, b)
    BY <1>1, <1>3 DEF Tree
  <2> HIDE DEF path
  <2>2. DOMAIN path = 1..Len(path) /\ Len(path) \in Nat
    <3> DEFINE X == UNION {DOMAIN c.links : c \in Blocks}
    <3>1. PICK n \in 0..MaxDagDepth : path \in [1..n -> X]
      BY <2>1 DEF Paths
    <3> HIDE DEF X
    <3>2. n \in Nat /\ path \in Seq(X)
      BY <3>1, PreviewAssumption
    <3> QED
      BY <3>2
  <2>3. PICK trail \in [0..Len(path) -> Blocks] :
           /\ trail[0] = cid /\ trail[Len(path)] = b
           /\ \A n \in DOMAIN path : /\ path[n] \in DOMAIN trail[n - 1].links
                                    /\ trail[n] = trail[n - 1].links[path[n]]
    BY <2>1 DEF Leads
  <2>4. ASSUME 1 \in DOMAIN path
        PROVE  trail[1].links = <<>> /\ Len(path) # 1 /\ 2 \in DOMAIN path
    <3>1. trail[1].links = <<>>
      <4>1. path[1] \in DOMAIN trail[1 - 1].links /\ trail[1] = trail[1 - 1].links[path[1]]
        BY <2>3, <2>4
      <4>2. trail[1 - 1] = cid
        BY <2>3
      <4> QED
        BY <1>2, <4>1, <4>2
    <3>2. Len(path) # 1
      BY <1>3, <2>3, <3>1 DEF IsLeaf
    <3> QED
      BY <2>2, <2>4, <3>1, <3>2
  <2>5. 1 \notin DOMAIN path
    <3>1. ASSUME 1 \in DOMAIN path
          PROVE  FALSE
      <4>1. path[2] \in DOMAIN trail[2 - 1].links
        BY <2>3, <2>4, <3>1
      <4>2. DOMAIN trail[1].links = {}
        BY <2>4, <3>1
      <4> QED
        BY <4>1, <4>2
    <3> QED
      BY <3>1
  <2>6. Len(path) = 0
    BY <2>2, <2>5
  <2>7. b = cid
    BY <2>3, <2>6
  <2>8. Range(cid.links) \subseteq Blocks
    BY <1>2 DEF Range
  <2> QED
    BY <2>6, <2>7, <2>8, PreviewAssumption DEF path
<1>4. Whole(cid)
  BY <1>3 DEF Whole
<1>5. ~Oversized(LeavesOf(cid))
  BY UploadsAreSmall DEF cid
<1> QED
  BY <1>4, <1>5 DEF Bounded, cid

LEMMA FetchEndsWalks ==
  ASSUME IInv, WalkInv, NEW r \in DOMAIN fetch, FetchEnds(r)
  PROVE  WalkInv'
<1>1. /\ LookupInv /\ WalksOk(lookups, fetch) /\ FetchesOk(lookups, fetch) /\ preimages \subseteq Blocks
      /\ fetch \in Seq(Fetches) /\ view \in Views
  BY DEF IInv, StoreType, ViewType, WalkInv
<1>2. PICK shown \in {NoCid, fetch[r].content, fetch[r].cid}, blocked \in BOOLEAN :
         Settle(r, shown, blocked) /\ (shown # NoCid => Bounded(shown))
  <2>1. CASE fetch[r].pc = "cached" /\ Settle(r, fetch[r].content, FALSE)
    <3>1. fetch[r].content \in FileCids
      BY <1>1, <2>1 DEF FetchesOk
    <3>2. Bounded(fetch[r].content)
      BY <3>1, UploadedIsBounded DEF FileCids
    <3> QED
      BY <2>1, <3>2
  <2>2. CASE \E blocked \in BOOLEAN : Settle(r, NoCid, blocked)
    BY <2>2
  <2>3. CASE /\ fetch[r].pc = "walks" /\ Complete(Walk(r, <<>>)) /\ ~TooLarge(Walk(r, <<>>))
             /\ Settle(r, fetch[r].cid, FALSE)
    <3>1. Walk(r, <<>>) \in DOMAIN lookups
      BY <1>1, <2>3 DEF FetchesOk
    <3>2. Whole(fetch[r].cid) /\ Assembled(Walk(r, <<>>)) = LeavesOf(fetch[r].cid)
      BY <1>1, <2>3, <3>1, CompleteIsTree
    <3>3. ~Oversized(Assembled(Walk(r, <<>>)))
      BY <2>3 DEF TooLarge
    <3> QED
      BY <2>3, <3>2, <3>3 DEF Bounded
  <2> QED
    BY <2>1, <2>2, <2>3 DEF FetchEnds
<1>3. fetch' = [fetch EXCEPT ![r].pc = "over"] /\ lookups' = lookups
  BY <1>2 DEF Settle
<1>4. \A f \in Fetches : LET s == [f EXCEPT !.pc = "over"]
                         IN  s.cid = f.cid /\ s.content = f.content /\ s.pc = "over"
  BY DEF Fetches
<1>5. /\ DOMAIN fetch' = DOMAIN fetch
      /\ \A q \in DOMAIN fetch : fetch'[q].cid = fetch[q].cid /\ fetch'[q].content = fetch[q].content
                                 /\ fetch'[q].pc \in {fetch[q].pc, "over"}
  <2>1. \A q \in DOMAIN fetch : fetch[q] \in Fetches
    BY <1>1
  <2>2. DOMAIN fetch' = DOMAIN fetch /\ fetch'[r] = [fetch[r] EXCEPT !.pc = "over"]
        /\ \A q \in DOMAIN fetch : q # r => fetch'[q] = fetch[q]
    BY <1>3
  <2>3. /\ fetch'[r].cid = fetch[r].cid /\ fetch'[r].content = fetch[r].content
        /\ fetch'[r].pc = "over"
    BY <1>4, <2>1, <2>2
  <2> QED
    BY <2>2, <2>3
<1>6. WalksOk(lookups', fetch')
  <2>1. SameFetches(fetch, fetch') /\ Kept(lookups, lookups)
    BY <1>5 DEF SameFetches, Kept
  <2> QED
    BY <1>1, <1>3, <2>1, WalksStay
<1>7. FetchesOk(lookups', fetch')
  BY <1>1, <1>3, <1>5 DEF FetchesOk
<1>8. view'.shown = view.shown \/ view'.shown = shown
  <2> DEFINE w == IF r # Len(fetch) \/ fetch[r].aborted THEN view
                  ELSE [view EXCEPT !.shown = shown, !.blocked = blocked,
                                    !.error = @ \/ (shown = NoCid /\ ~blocked)]
  <2>1. view' = [w EXCEPT !.active = IF @ = r THEN 0 ELSE @,
                          !.loading = IF r = Len(fetch) THEN FALSE ELSE @]
    BY <1>2 DEF Settle
  <2>2. w.shown = view.shown \/ w.shown = shown
    BY <1>1 DEF Views
  <2>3. view'.shown = w.shown
    <3> HIDE DEF w
    <3> QED
      BY <2>1
  <2> QED
    BY <2>2, <2>3
<1>9. ShownInv'
  BY <1>2, <1>8 DEF WalkInv, ShownInv
<1> QED
  BY <1>6, <1>7, <1>9 DEF WalkInv

LEMMA InitWalks ==
  ASSUME Init
  PROVE  WalkInv
<1>1. DOMAIN lookups = {} /\ fetch = <<>> /\ view = EmptyView
  BY DEF Init, PreviewInit
<1>2. view.shown = NoCid /\ DOMAIN <<>> = {}
  BY <1>1 DEF EmptyView
<1> QED
  BY <1>1, <1>2 DEF WalkInv, WalksOk, FetchesOk, ShownInv

LEMMA NextWalks ==
  ASSUME IInv, WalkInv, [Next]_vars
  PROVE  WalkInv'
<1>1. /\ ViewType /\ ViewInv /\ HandOffInv /\ LookupInv /\ preimages \subseteq Blocks
      /\ page \in PageStates /\ route \in Sites /\ Shows(view)
      /\ (route = Elsewhere => Shows(EmptyView))
  BY Instances DEF IInv, StoreType, ViewType
<1>2. CASE \E place \in Pages : Navigate(place)
  <2>1. PICK place \in Pages : ShowView(place)
    BY <1>2 DEF Navigate
  <2>2. place \in Sites
    BY PagesAssumption DEF Sites
  <2>3. CASE Unmount
    BY <1>1, <2>3, UnmountWalks
  <2>4. CASE Watch(place, IF route = Elsewhere THEN EmptyView ELSE view)
    <3>1. PICK v \in {view, EmptyView} : Watch(place, v) /\ Shows(v)
      BY <1>1, <2>4
    <3> QED
      BY <1>1, <2>2, <3>1, WatchWalks
  <2> QED
    BY <2>1, <2>3, <2>4 DEF ShowView
<1>3. CASE (FormStep \/ \E u \in DOMAIN uploads : UploadStep(u)) /\ UNCHANGED previewVars
  BY <1>1, <1>3, UploadWalks
<1>4. CASE OpenPreview
  <2>1. page.cid \in Sites /\ Watch(page.cid, view)
    <3>1. page.cid \in FileCids
      BY <1>1, <1>4 DEF OpenPreview, Previewed, PageStates
    <3> QED
      BY <1>4, <3>1, FileCid, SitesAre DEF FileCids, OpenPreview
  <2> QED
    BY <1>1, <2>1, WatchWalks
<1>5. CASE Retry
  BY <1>1, <1>5, ContentWalks DEF Retry
<1>6. CASE HidePage
  BY <1>1, <1>6, HideWalks
<1>7. CASE Reload
  BY <1>1, <1>7, ReloadWalks
<1>8. CASE \E id \in DOMAIN lookups : HostLookup(id) \/ LookupError(id) \/ Opens(id) \/ TimesOut(id)
  <2>1. PICK id \in DOMAIN lookups : HostLookup(id) \/ LookupError(id) \/ Opens(id) \/ TimesOut(id)
    BY <1>8
  <2>2. fetch' = fetch /\ view' = view
    BY <2>1 DEF HostLookup, LookupError, Opens, TimesOut
  <2>3. Kept(lookups, lookups') /\ DOMAIN lookups' = DOMAIN lookups
    BY <1>1, <2>1, HostWalks
  <2> QED
    BY <1>1, <2>2, <2>3, WalkStays
<1>9. CASE \E r \in DOMAIN fetch : FetchEnds(r)
  BY <1>9, FetchEndsWalks
<1>10. CASE \E r \in DOMAIN fetch : \E id \in WalkOf(r) : Expand(id)
  <2>1. PICK id \in DOMAIN lookups : IsPreview(id) /\ Expand(id)
    BY <1>10 DEF WalkOf, IsPreview
  <2> QED
    BY <1>1, <2>1, ExpandWalks
<1>11. CASE UNCHANGED vars
  BY <1>11 DEF vars, WalkInv, ShownInv
<1> QED
  BY <1>2, <1>3, <1>4, <1>5, <1>6, <1>7, <1>8, <1>9, <1>10, <1>11 DEF Next, User

(***************************************************************************)
(* However many lookups and fetches run beside each other: PreviewView     *)
(* renders a document only when all of its tree was fetched, and only when *)
(* its leaves together are within MAX_INLINE_PREVIEW_BYTES, whatever sizes *)
(* its links declare.                                                      *)
(***************************************************************************)
THEOREM WhatIsShownIsBounded == Spec => []PreviewIsBounded
<1>1. Init => IInv /\ WalkInv
  BY InitIInv, InitWalks
<1>2. (IInv /\ WalkInv) /\ [Next]_vars => (IInv /\ WalkInv)'
  BY NextIInv, NextWalks
<1>3. WalkInv => PreviewIsBounded
  BY DEF WalkInv, ShownInv, Bounded, PreviewIsBounded, Visible
<1> QED
  BY <1>1, <1>2, <1>3, PTL DEF Spec
===============================================================================
