------------------------------ MODULE IndexServer ------------------------------
(***************************************************************************)
(* One server process and the index files it answers from.                 *)
(*                                                                         *)
(* A corpus is a directory of files, an index a snapshot of it.  People    *)
(* edit the files; index jobs, inline repairs and other processes rebuild  *)
(* the index; queries check, repair or admit (lib/freshness.js and         *)
(* ensureFresh in lib/search.js).  The server is one thread: an action of  *)
(* a query or a job is the code between two awaits, but for the end of a   *)
(* build: an index is dated when its header is made, renamed into place    *)
(* when it is written, and read back by whom it was built for.  Other      *)
(* processes move at any time, between those too.  An index is only ever   *)
(* replaced whole, by a rename, but not in the order of the dates.         *)
(*                                                                         *)
(* A file is its modification time, 0 when absent, so an index's documents *)
(* are a function from files to times.  The dates of builds are counted    *)
(* apart: only their order is ever asked for.                              *)
(***************************************************************************)
EXTENDS Naturals, FiniteSets, Sequences

CONSTANTS
  Scopes,         \* the corpora, each with an index file of its own
  Driven,         \* those a query never rebuilds: staging and the library
  Files,          \* the files of a corpus
  Queries,        \* the searches, each asked at most once
  Jobs,           \* the index jobs, each started at most once
  Others,         \* builds by other processes: auto-ingest, npm run index
  JobScopes,      \* the scope lists a job is asked for
  MaxEdits,       \* bound: edits of corpus files
  MaxFaults,      \* bound: builds that throw, server restarts
  MaxInline,      \* FRESHNESS.maxInlineFiles
  FirstBuildMax,  \* FRESHNESS.firstBuildMaxFiles
  None            \* nobody, nothing

ASSUME IndexAssumption ==
  /\ Driven \subseteq Scopes
  /\ IsFiniteSet(Files)
  /\ JobScopes \subseteq Seq(Scopes)
  /\ {MaxEdits, MaxFaults, MaxInline, FirstBuildMax} \subseteq Nat
  /\ None \notin Queries \cup Jobs

VARIABLES
  corpus,     \* per scope, the live files
  edits,      \* how many edits there have been
  disk,       \* per scope, the index file
  builds,     \* how many indexes have been dated
  undercut,   \* history: builds of a scope that an older one has replaced
  cache,      \* CACHES: the index each scope was loaded with, or None
  statCache,  \* STAT_CACHE: the last stat pass while it is young, or None
  inflight,   \* INFLIGHT: the query that rebuilds each index inline, or None
  cooldown,   \* LAST_FAILURE: scopes whose inline rebuild failed recently
  building,   \* INDEX_INFLIGHT: the job that rebuilds each index, or None
  model,      \* the embedding model works in this server process
  query,      \* the state of each query
  job,        \* the state of each job
  other,      \* the state of each build outside the server
  faults      \* faults so far

disks == <<corpus, edits, disk, builds, undercut>>
memory == <<cache, statCache, inflight, cooldown, building, model>>
tasks == <<query, job, other>>
vars == <<disks, memory, tasks, faults>>

NoFiles == [f \in Files |-> 0]

(* No index file; its builtAt is 0. *)
Absent == [builtAt |-> 0, docs |-> NoFiles, ok |-> TRUE]
Present(idx) == idx.builtAt > 0

(* How many documents a header counts; 0 when there is no file. *)
DocCount(docs) == Cardinality({f \in Files : docs[f] # 0})

NewQuery == [pc |-> "new", scope |-> None, idx |-> Absent, snap |-> NoFiles,
             seen |-> {}, put |-> {}, found |-> 0, dated |-> 0, waited |-> None,
             stamp |-> "none"]
NewJob == [pc |-> "new", todo |-> <<>>, snap |-> NoFiles, dated |-> 0, built |-> {}]
NewOther == [pc |-> "new", scope |-> None, snap |-> NoFiles, dated |-> 0]

IndexInit ==
  /\ corpus \in [Scopes -> [Files -> {0, 1}]]
  /\ edits = 1
  /\ disk \in [Scopes -> {Absent} \cup
                 {[builtAt |-> 1, docs |-> corpus[s], ok |-> ok] :
                     s \in Scopes, ok \in BOOLEAN}]
  /\ \A s \in Scopes : Present(disk[s]) => disk[s].docs = corpus[s]
  /\ builds = 1
  /\ undercut = {}
  /\ cache = [s \in Scopes |-> None]
  /\ statCache = [s \in Scopes |-> None]
  /\ inflight = [s \in Scopes |-> None]
  /\ cooldown = {}
  /\ building = [s \in Scopes |-> None]
  /\ model = TRUE
  /\ query = [q \in Queries |-> NewQuery]
  /\ job = [j \in Jobs |-> NewJob]
  /\ other = [o \in Others |-> NewOther]
  /\ faults = 0

-----------------------------------------------------------------------------
(* buildIndex. *)

(* Guard 2: it would replace documents by nothing. *)
WouldErase(s) == DocCount(corpus[s]) = 0 /\ DocCount(disk[s].docs) > 0

(* The header of the new index is made: builtAt is now. *)
Dated == builds' = builds + 1 /\ UNCHANGED <<corpus, edits, disk, undercut>>

(* It replaces whatever file is there by now, also a newer one. *)
Renamed(s, dated, docs) ==
  /\ disk' = [disk EXCEPT ![s] = [builtAt |-> dated, docs |-> docs, ok |-> TRUE]]
  /\ undercut' = undercut \cup ({s} \X ((dated + 1)..disk[s].builtAt))
  /\ UNCHANGED <<corpus, edits, builds>>

Fault == faults < MaxFaults /\ faults' = faults + 1

-----------------------------------------------------------------------------
(* The world around the server. *)

Repairing(q) == query[q].pc \in {"repair", "wait", "build", "dated", "reload"}

(* A file is written, or deleted. *)
Edit(s, f) ==
  /\ edits <= MaxEdits
  /\ edits' = edits + 1
  /\ \E m \in {0, edits + 1} : /\ m # corpus[s][f]
                               /\ corpus' = [corpus EXCEPT ![s][f] = m]
  /\ query' = [q \in Queries |->
                 IF query[q].scope = s /\ Repairing(q)
                 THEN [query[q] EXCEPT !.seen = @ \cup {corpus'[s]}]
                 ELSE query[q]]
  /\ UNCHANGED <<disk, builds, undercut, memory, job, other, faults>>

OtherStart(o) ==
  /\ other[o].pc = "new"
  /\ \E s \in Scopes :
       other' = [other EXCEPT ![o] =
                   IF WouldErase(s) THEN [@ EXCEPT !.pc = "ended"]
                   ELSE [@ EXCEPT !.pc = "build", !.scope = s, !.snap = corpus[s]]]
  /\ UNCHANGED <<disks, memory, query, job, faults>>

OtherDates(o) ==
  /\ other[o].pc = "build"
  /\ Dated
  /\ other' = [other EXCEPT ![o] = [@ EXCEPT !.pc = "dated", !.dated = builds + 1]]
  /\ UNCHANGED <<memory, query, job, faults>>

(* Whoever is about to read back what it has built finds this one. *)
OtherRenames(o) ==
  LET b == other[o] IN
  /\ b.pc = "dated"
  /\ Renamed(b.scope, b.dated, b.snap)
  /\ query' = [q \in Queries |->
                 IF query[q].scope = b.scope /\ query[q].pc = "reload"
                 THEN [query[q] EXCEPT !.put = @ \cup {b.snap}]
                 ELSE query[q]]
  /\ other' = [other EXCEPT ![o] = [NewOther EXCEPT !.pc = "ended"]]
  /\ UNCHANGED <<memory, job, faults>>

(* It throws, or is killed: the index file stays as it is. *)
OtherFails(o) ==
  /\ Fault
  /\ other[o].pc \in {"build", "dated"}
  /\ other' = [other EXCEPT ![o] = [NewOther EXCEPT !.pc = "ended"]]
  /\ UNCHANGED <<disks, memory, query, job>>

(* The TTL of the stat pass, or the cooldown of a failure, runs out. *)
Expire(s) ==
  /\ \/ statCache[s] # None /\ statCache' = [statCache EXCEPT ![s] = None]
                            /\ UNCHANGED cooldown
     \/ s \in cooldown /\ cooldown' = cooldown \ {s}
                       /\ UNCHANGED statCache
  /\ UNCHANGED <<disks, cache, inflight, building, model, tasks, faults>>

-----------------------------------------------------------------------------
(* Queries.  The server's one thread is free when no job is on its way from *)
(* one build to the next, and no build is being written or read back.       *)

Free == /\ \A j \in Jobs : job[j].pc \notin {"loop", "dated"}
        /\ \A q \in Queries : query[q].pc \notin {"dated", "reload"}

(* Mutant: the copy is kept for the life of the process. *)
AdoptedNever(s) == IF cache[s] = None THEN disk[s] ELSE cache[s]

(* ADOPT: the file is newer than the copy this process holds. *)
Adopted(s) ==
  LET held == IF cache[s] = None THEN disk[s] ELSE cache[s]
  IN IF Present(held) /\ disk[s].builtAt > held.builtAt THEN disk[s] ELSE held

Pass(s) == IF statCache[s] = None THEN corpus[s] ELSE statCache[s]

(* checkStaleness: edited, added and removed files, by modification time. *)
Stale(docs, pass) == {f \in Files : docs[f] # pass[f]}

(* reindexInline up to its first await. *)
MayRepair(s, idx) ==
  /\ s \notin Driven
  /\ s \notin cooldown
  /\ IF Present(idx) THEN /\ idx.ok
                          /\ Cardinality(Stale(idx.docs, Pass(s))) <= MaxInline
                     ELSE DocCount(Pass(s)) \in 1..FirstBuildMax

(* What the answer says of its index. *)
StampOf(idx, stale) == IF ~Present(idx) THEN "missing"
                       ELSE IF stale # {} THEN "stale" ELSE "current"

(* The answer comes from the index the query already holds, its stamp       *)
(* stands, and what else the query saw no longer matters.                   *)
Admitted(asked) == [asked EXCEPT !.pc = "answered", !.seen = {}, !.snap = NoFiles,
                                 !.dated = 0, !.waited = None]

(* ensureFresh up to its first await: adopt, check, and either answer or    *)
(* ask for the embedder.  A scope without an index has no check, and a      *)
(* driven one not even a stat pass.                                         *)
Arrive(q) ==
  /\ Free
  /\ query[q].pc = "new"
  /\ \E s \in Scopes :
       LET idx   == Adopted(s)
           stale == Stale(idx.docs, Pass(s))
           needs == ~Present(idx) \/ stale # {}
           looks == Present(idx) \/ s \notin Driven
       IN /\ cache' = [cache EXCEPT ![s] = idx]
          /\ statCache' = IF looks THEN [statCache EXCEPT ![s] = Pass(s)]
                                   ELSE statCache
          /\ LET asked == [query[q] EXCEPT
                            !.scope = s, !.idx = idx, !.seen = {corpus[s], Pass(s)},
                            !.found = disk[s].builtAt, !.stamp = StampOf(idx, stale)]
             IN query' = [query EXCEPT ![q] =
                            IF ~needs THEN [asked EXCEPT !.pc = "answered"]
                            ELSE IF MayRepair(s, idx) THEN [asked EXCEPT !.pc = "repair"]
                            ELSE Admitted(asked)]
  /\ UNCHANGED <<disks, inflight, cooldown, building, model, job, other, faults>>

Admit(q) == query' = [query EXCEPT ![q] = Admitted(@)]

(* Everyone who waits for the build of index s. *)
Waiting(s) == {q \in Queries : query[q].pc = "wait" /\ query[q].scope = s}

(* The embedder is not there: the stale answer is stamped. *)
RepairRefused(q) ==
  /\ Free
  /\ query[q].pc = "repair"
  /\ ~model
  /\ Admit(q)
  /\ UNCHANGED <<disks, memory, job, other, faults>>

(* Another query is already doing exactly this build. *)
RepairWait(q) ==
  /\ Free
  /\ query[q].pc = "repair"
  /\ model
  /\ inflight[query[q].scope] # None
  /\ query' = [query EXCEPT ![q] =
                 [@ EXCEPT !.pc = "wait", !.waited = inflight[query[q].scope]]]
  /\ UNCHANGED <<disks, memory, job, other, faults>>

(* Mutant: INFLIGHT is not asked. *)
RepairStartAnyway(q) ==
  LET s == query[q].scope IN
  /\ Free /\ query[q].pc = "repair" /\ model
  /\ ~WouldErase(s)
  /\ inflight' = [inflight EXCEPT ![s] = q]
  /\ query' = [query EXCEPT ![q] = [@ EXCEPT !.pc = "build", !.snap = corpus[s]]]
  /\ UNCHANGED <<disks, cache, statCache, cooldown, building, model, job, other, faults>>

(* The build reads the corpus before it first awaits anything. *)
RepairStart(q) ==
  LET s == query[q].scope IN
  /\ Free
  /\ query[q].pc = "repair"
  /\ model
  /\ inflight[s] = None
  /\ ~WouldErase(s)
  /\ inflight' = [inflight EXCEPT ![s] = q]
  /\ query' = [query EXCEPT ![q] = [@ EXCEPT !.pc = "build", !.snap = corpus[s]]]
  /\ UNCHANGED <<disks, cache, statCache, cooldown, building, model, job, other, faults>>

(* buildIndex refuses at once: the failure is remembered. *)
RepairThrows(q) ==
  LET s == query[q].scope IN
  /\ Free
  /\ query[q].pc = "repair"
  /\ model
  /\ inflight[s] = None
  /\ WouldErase(s)
  /\ cooldown' = cooldown \cup {s}
  /\ Admit(q)
  /\ UNCHANGED <<disks, cache, statCache, inflight, building, model, job, other, faults>>

RepairDates(q) ==
  /\ Free
  /\ query[q].pc = "build"
  /\ model
  /\ Dated
  /\ query' = [query EXCEPT ![q] = [@ EXCEPT !.pc = "dated", !.dated = builds + 1]]
  /\ UNCHANGED <<memory, job, other, faults>>

(* The build is in place.  The query that started it and those that waited  *)
(* for it are all told.                                                     *)
RepairRenames(q) ==
  LET s == query[q].scope IN
  /\ query[q].pc = "dated"
  /\ Renamed(s, query[q].dated, query[q].snap)
  /\ inflight' = [inflight EXCEPT ![s] = None]
  /\ cooldown' = cooldown \ {s}
  /\ statCache' = [t \in Scopes |-> None]
  /\ query' = [p \in Queries |-> IF p \in Waiting(s) \cup {q}
                                 THEN [query[p] EXCEPT !.pc = "reload", !.dated = 0]
                                 ELSE query[p]]
  /\ UNCHANGED <<cache, building, model, job, other, faults>>

(* Whoever waited comes after the one that built. *)
MayReload(q) == /\ query[q].pc = "reload"
                /\ query[q].waited # None => query[query[q].waited].pc # "reload"

(* Mutant: the answer is stamped current without a reload of the index. *)
ReloadNot(q) ==
  /\ MayReload(q)
  /\ query' = [query EXCEPT ![q] = [@ EXCEPT !.pc = "answered", !.stamp = "current"]]
  /\ UNCHANGED <<disks, memory, job, other, faults>>

(* Each reads the index file again, and calls what it finds current. *)
Reload(q) ==
  LET s == query[q].scope IN
  /\ MayReload(q)
  /\ cache' = [cache EXCEPT ![s] = disk[s]]
  /\ query' = [query EXCEPT ![q] = [@ EXCEPT !.pc = "answered", !.idx = disk[s], !.stamp = "current"]]
  /\ UNCHANGED <<disks, statCache, inflight, cooldown, building, model, job, other, faults>>

(* A build throws after its first await: the model broke, the disk is full, *)
(* the pattern guard clipped a vector.                                      *)
Breaks(pc) == \/ pc = "build" /\ Free /\ model /\ Fault
              \/ pc = "build" /\ Free /\ ~model /\ UNCHANGED faults
              \/ pc = "dated" /\ Fault

(* Mutant: only the query that started the build learns that it failed. *)
RepairFailedAlone(q) ==
  LET s == query[q].scope IN
  /\ Breaks(query[q].pc)
  /\ inflight' = [inflight EXCEPT ![s] = None]
  /\ cooldown' = cooldown \cup {s}
  /\ Admit(q)
  /\ UNCHANGED <<disks, cache, statCache, building, model, job, other>>

(* Everyone who waits for the build answers from the index he has. *)
RepairFailed(q) ==
  LET s == query[q].scope IN
  /\ Breaks(query[q].pc)
  /\ inflight' = [inflight EXCEPT ![s] = None]
  /\ cooldown' = cooldown \cup {s}
  /\ query' = [p \in Queries |-> IF p \in Waiting(s) \cup {q}
                                 THEN Admitted(query[p])
                                 ELSE query[p]]
  /\ UNCHANGED <<disks, cache, statCache, building, model, job, other>>

-----------------------------------------------------------------------------
(* Index jobs: memory({action:"index"}) answers at once and builds off the  *)
(* request, one scope after the other.                                      *)

JobStart(j) ==
  /\ Free
  /\ job[j].pc = "new"
  /\ \E todo \in JobScopes : job' = [job EXCEPT ![j] = [@ EXCEPT !.pc = "loop", !.todo = todo]]
  /\ UNCHANGED <<disks, memory, query, other, faults>>

(* Another job is already building this index: skip the scope. *)
JobSkip(j) ==
  /\ job[j].pc = "loop"
  /\ job[j].todo # <<>>
  /\ building[Head(job[j].todo)] \notin {None, j}
  /\ job' = [job EXCEPT ![j].todo = Tail(@)]
  /\ UNCHANGED <<disks, memory, query, other, faults>>

(* Mutant: the job builds whoever else does. *)
JobBuildAnyway(j) ==
  /\ job[j].pc = "loop" /\ job[j].todo # <<>>
  /\ LET s == Head(job[j].todo) IN
       /\ ~WouldErase(s)
       /\ building' = [building EXCEPT ![s] = j]
       /\ job' = [job EXCEPT ![j] = [@ EXCEPT !.pc = "build", !.snap = corpus[s]]]
  /\ UNCHANGED <<disks, cache, statCache, inflight, cooldown, model, query, other, faults>>

JobBuild(j) ==
  /\ job[j].pc = "loop"
  /\ job[j].todo # <<>>
  /\ LET s == Head(job[j].todo) IN
       /\ building[s] = None
       /\ ~WouldErase(s)
       /\ building' = [building EXCEPT ![s] = j]
       /\ job' = [job EXCEPT ![j] = [@ EXCEPT !.pc = "build", !.snap = corpus[s]]]
  /\ UNCHANGED <<disks, cache, statCache, inflight, cooldown, model, query, other, faults>>

JobDates(j) ==
  /\ Free
  /\ job[j].pc = "build"
  /\ model
  /\ Dated
  /\ job' = [job EXCEPT ![j] = [@ EXCEPT !.pc = "dated", !.dated = builds + 1]]
  /\ UNCHANGED <<memory, query, other, faults>>

(* `built' keeps what the reports say: the scope and the build it got. *)
JobRenames(j) ==
  /\ job[j].pc = "dated"
  /\ LET s == Head(job[j].todo) IN
       /\ Renamed(s, job[j].dated, job[j].snap)
       /\ building' = [building EXCEPT ![s] = None]
       /\ job' = [job EXCEPT ![j] = [NewJob EXCEPT !.pc = "loop", !.todo = Tail(job[j].todo),
                                            !.built = job[j].built \cup {<<s, job[j].dated>>}]]
  /\ UNCHANGED <<cache, statCache, inflight, cooldown, model, query, other, faults>>

(* A build of the job throws: the job stops there, and clears no cache. *)
JobFail(j) ==
  /\ job[j].todo # <<>>
  /\ LET s == Head(job[j].todo) IN
       /\ \/ job[j].pc = "loop" /\ building[s] = None /\ WouldErase(s) /\ UNCHANGED faults
          \/ Breaks(job[j].pc)
       /\ building' = IF building[s] = j THEN [building EXCEPT ![s] = None] ELSE building
  /\ job' = [job EXCEPT ![j] = [NewJob EXCEPT !.pc = "failed"]]
  /\ UNCHANGED <<disks, cache, statCache, inflight, cooldown, model, query, other>>

(* Mutant: done, and the caches are left as they were. *)
JobDoneKeepsCaches(j) ==
  /\ job[j].pc = "loop" /\ job[j].todo = <<>>
  /\ job' = [job EXCEPT ![j].pc = "done"]
  /\ UNCHANGED <<disks, memory, query, other, faults>>

(* invalidate(), forgetStatCache(), and the curated index is loaded anew:   *)
(* for the next query that is the same as not loaded.                       *)
JobDone(j) ==
  /\ job[j].pc = "loop"
  /\ job[j].todo = <<>>
  /\ job' = [job EXCEPT ![j].pc = "done"]
  /\ cache' = [s \in Scopes |-> None]
  /\ statCache' = [s \in Scopes |-> None]
  /\ UNCHANGED <<disks, inflight, cooldown, building, model, query, other, faults>>

-----------------------------------------------------------------------------
(* One failed load disables the embedder for the life of the process. *)
ModelBreaks ==
  /\ model
  /\ Fault
  /\ model' = FALSE
  /\ UNCHANGED <<disks, cache, statCache, inflight, cooldown, building, tasks>>

(* The server is killed and started again: what was under way is gone. *)
Restart ==
  /\ Fault
  /\ cache' = [s \in Scopes |-> None]
  /\ statCache' = [s \in Scopes |-> None]
  /\ inflight' = [s \in Scopes |-> None]
  /\ cooldown' = {}
  /\ building' = [s \in Scopes |-> None]
  /\ model' = TRUE
  /\ query' = [q \in Queries |-> IF Repairing(q)
                                 THEN [NewQuery EXCEPT !.pc = "lost"] ELSE query[q]]
  /\ job' = [j \in Jobs |-> IF job[j].pc = "new" THEN job[j]
                            ELSE [NewJob EXCEPT !.pc = "forgotten"]]
  /\ UNCHANGED <<disks, other>>

Turn(q) == \/ RepairRefused(q) \/ RepairWait(q) \/ RepairStart(q) \/ RepairThrows(q)
           \/ RepairDates(q) \/ RepairRenames(q) \/ Reload(q) \/ RepairFailed(q)

JobTurn(j) == \/ JobSkip(j) \/ JobBuild(j) \/ JobDates(j) \/ JobRenames(j)
              \/ JobFail(j) \/ JobDone(j)

IndexNext == \/ \E s \in Scopes, f \in Files : Edit(s, f)
             \/ \E s \in Scopes : Expire(s)
             \/ \E o \in Others : OtherStart(o) \/ OtherDates(o) \/ OtherRenames(o) \/ OtherFails(o)
             \/ \E q \in Queries : Arrive(q) \/ Turn(q)
             \/ \E j \in Jobs : JobStart(j) \/ JobTurn(j)
             \/ ModelBreaks
             \/ Restart

IndexSpec == IndexInit /\ [][IndexNext]_vars

(* The event loop runs every continuation that is ready, and the embedder   *)
(* answers or throws.  Nothing obliges anyone to ask, edit or rebuild.      *)
FairIndexSpec == /\ IndexSpec
                 /\ \A q \in Queries : WF_vars(Turn(q))
                 /\ \A j \in Jobs : WF_vars(JobTurn(j))
-----------------------------------------------------------------------------
Building == {"build", "dated"}
QueriesBuilding(s) == {q \in Queries : query[q].pc \in Building /\ query[q].scope = s}
JobsBuilding(s) == {j \in Jobs : job[j].pc \in Building /\ Head(job[j].todo) = s}

(* INFLIGHT does what it is for: however many queries find the index stale  *)
(* at once, one of them rebuilds it and the map names that one, so nobody   *)
(* waits for a build that is not under way (freshness.js lines 240-262).    *)
OneInlineBuild == \A s \in Scopes :
  /\ QueriesBuilding(s) = IF inflight[s] = None THEN {} ELSE {inflight[s]}
  /\ Waiting(s) # {} => inflight[s] # None

(* INDEX_INFLIGHT does what it is for: two jobs never rebuild one index at  *)
(* once, and a scope that no job rebuilds is not refused to the next        *)
(* (tools/memory.js lines 822-837).                                         *)
OneJobPerIndex == \A s \in Scopes :
  JobsBuilding(s) = IF building[s] = None THEN {} ELSE {building[s]}

(* An answer is never older than the index file was when the query came,    *)
(* whichever process wrote that file (the seven hours of search.js lines    *)
(* 202-225), except where the server remembers that there was no file, or   *)
(* reads back an index that another process has put in the place of its own.*)
ServesWhatIsOnDisk ==
  \A q \in Queries : query[q].pc = "answered" /\ query[q].stamp # "missing" =>
    query[q].idx.builtAt >= query[q].found \/ query[q].idx.docs \in query[q].put

(* An answer without a stamp rests on the corpus as it was at some moment   *)
(* since the query came or on a stat pass within its TTL, for a query that  *)
(* waited for a build on what that build had read, or on the index that     *)
(* another process renamed between this build and its reload: never on less *)
(* (search.js lines 188-193).                                               *)
UnstampedIsAccountedFor ==
  \A q \in Queries : query[q].pc = "answered" /\ query[q].stamp = "current" =>
    LET w == query[q].waited IN
      query[q].idx.docs \in query[q].seen \cup query[q].put
                            \cup (IF w = None THEN {} ELSE {query[w].snap})

(* When a job is done the server no longer answers from an index older than *)
(* the ones the job wrote, unless another process has replaced those by one *)
(* it had dated before (tools/memory.js lines 839-844 and 873-874).         *)
JobDoneIsServed ==
  \A j \in Jobs : job[j].pc = "done" =>
    \A b \in job[j].built \ undercut : cache[b[1]] = None \/ cache[b[1]].builtAt >= b[2]

(* A query that came gets an answer, stamped or not, unless the server goes *)
(* away: no wait for an inline build is for ever (freshness.js 256-262).    *)
EveryQueryIsAnswered ==
  \A q \in Queries : query[q].pc = "repair" ~> query[q].pc \in {"answered", "lost"}

-----------------------------------------------------------------------------
(* What the comments promise and the code does not keep. *)

(* "What is never allowed is answering from a stale index without saying    *)
(* so" (search.js lines 192-193): without a stamp, the answer rests on the  *)
(* corpus as it was since the query came, or on its stat pass.              *)
NeverSilentlyStale ==
  \A q \in Queries : query[q].pc = "answered" /\ query[q].stamp = "current" =>
    query[q].idx.docs \in query[q].seen
=============================================================================
