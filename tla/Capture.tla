-------------------------------- MODULE Capture --------------------------------
(***************************************************************************)
(* Automatic capture: scripts/auto-ingest.js, under the lock of IngestLock, *)
(* and the extractor it spawns, scripts/ingest-transcript.js.              *)
(*                                                                         *)
(* A session's transcript grows by exchanges: the human asks, the reply is *)
(* written piece by piece, and the next ask ends it.  A capture run reads  *)
(* the transcript, writes one store file per exchange, rebuilds the        *)
(* staging index when something changed, and stamps the transcript with    *)
(* the size it read.  The debounce of a later run trusts that stamp.       *)
(*                                                                         *)
(* A transcript is the sequence of its exchanges, each the length of its   *)
(* reply in pieces; 0 is an ask with no reply yet (or one below the 200    *)
(* characters that make an exchange).  Its size is the sequence itself: a  *)
(* transcript is append-only.                                              *)
(***************************************************************************)
EXTENDS IngestLock, Integers, Sequences

CONSTANTS
  Transcripts,    \* the session transcripts
  MaxExchanges,   \* bound: asks per transcript
  MaxText,        \* bound: pieces per reply
  MaxFaults,      \* bound: failing steps and kills
  Kinds,          \* the kinds of run: "hook", "timed", "manual"
  Repeats,        \* exchanges that say word for word what the first one says
  Old,            \* names a withdrawn rule gave to copies of the first exchange
  NoStamp         \* a transcript without a stamp

ASSUME CaptureAssumption ==
  /\ IsFiniteSet(Transcripts)
  /\ MaxExchanges \in Nat \ {0}
  /\ MaxText \in Nat \ {0}
  /\ MaxFaults \in Nat
  /\ Kinds \subseteq {"hook", "timed", "manual"}
  /\ Repeats \subseteq 2..MaxExchanges
  /\ IsFiniteSet(Old) /\ Old \subseteq Nat \ 0..MaxExchanges

VARIABLES
  transcript,  \* per transcript, the exchanges written so far
  store,       \* per transcript and name, the text in its file; 0 = no file
  held,        \* history: the text each file had when it last was whole
  index,       \* what the staging index says of each of those files
  stamps,      \* .last-ingest.json: the size each transcript was captured at
  stage,       \* how far each run is inside the lock
  job,         \* what each run holds in its variables
  faults,      \* failures and kills so far
  overlap      \* history: two runs have been inside the lock together

dataVars == <<transcript, store, held, index, stamps, stage, job, faults, overlap>>
vars == <<lockVars, dataVars>>

Exchanges == 1..MaxExchanges
Names == Exchanges \cup Old
Texts == 0..MaxText
Empty == -1        \* a file between the two halves of a writeFileSync, or left there
Files == [Transcripts -> [Names -> Texts \cup {Empty}]]
NoFiles == [t \in Transcripts |-> [k \in Names |-> 0]]
NoStamps == [t \in Transcripts |-> NoStamp]

Stages == {"idle", "measure", "extract", "emit", "fill", "prune", "list", "sweep",
           "decide", "load", "publish", "truncate", "stamp", "finally", "gone"}

(* The stages the extractor's process runs; it outlives a killed parent. *)
Extracting == {"extract", "emit", "fill", "prune", "list", "sweep"}

NoJob == [t |-> CHOOSE t \in Transcripts : TRUE, kind |-> "none",
          stamps |-> NoStamps, window |-> 1, size |-> <<>>, before |-> 0,
          names |-> {}, todo |-> {}, read |-> <<>>, wrote |-> 0,
          bodies |-> {}, left |-> {}, built |-> NoFiles]

(* What a transcript says in an exchange. *)
SaidIn(tx, k) == IF k \in DOMAIN tx THEN tx[k] ELSE 0

(* A session starts from nothing, or from a first exchange that a withdrawn *)
(* rule of the extractor once filed under other names.                      *)
CaptureInit == /\ LockInit
               /\ transcript \in [Transcripts -> {<<>>} \cup {<<x>> : x \in Texts}]
               /\ \E copy \in [Transcripts -> Texts] :
                    /\ \A t \in Transcripts : copy[t] <= SaidIn(transcript[t], 1)
                    /\ store = [t \in Transcripts |->
                                  [k \in Names |-> IF k \in Old THEN copy[t] ELSE 0]]
               /\ held = store
               /\ index = store
               /\ stamps = NoStamps
               /\ stage = [r \in Runs |-> "idle"]
               /\ job = [r \in Runs |-> NoJob]
               /\ faults = 0
               /\ overlap = FALSE

-----------------------------------------------------------------------------
(* The session, which knows nothing of capture. *)

(* The human asks: the previous reply is over. *)
Ask(t) == /\ Len(transcript[t]) < MaxExchanges
          /\ transcript' = [transcript EXCEPT ![t] = Append(@, 0)]
          /\ UNCHANGED <<lockVars, store, held, index, stamps, stage, job, faults, overlap>>

(* The assistant writes one more piece of the last reply. *)
Reply(t) == /\ transcript[t] # <<>>
            /\ LET k == Len(transcript[t]) IN
                 /\ transcript[t][k] < MaxText
                 /\ transcript' = [transcript EXCEPT ![t][k] = @ + 1]
            /\ UNCHANGED <<lockVars, store, held, index, stamps, stage, job, faults, overlap>>

-----------------------------------------------------------------------------
(* Ahead of the lock. *)

(* memory_capture sets the debounce to 0; every other run may have one.  A  *)
(* stamp may be younger than ten minutes or not: the guard leaves it open.  *)
Debounced(t, kind) == kind # "manual" /\ stamps[t] = transcript[t]

DeclineRun(r) == /\ Decline(r)
                 /\ \E t \in Transcripts, kind \in Kinds : Debounced(t, kind)
                 /\ UNCHANGED dataVars

(* The stamps of every transcript are read here and written back at the     *)
(* end.  `window' is the first exchange --since-minutes keeps.              *)
LaunchRun(r) ==
  /\ Launch(r)
  /\ \E t \in Transcripts, kind \in Kinds, w \in Exchanges :
       /\ kind = "manual" \/ w = 1
       /\ job' = [job EXCEPT ![r] = [NoJob EXCEPT !.t = t, !.kind = kind,
                                                  !.window = w, !.stamps = stamps]]
  /\ UNCHANGED <<transcript, store, held, index, stamps, stage, faults, overlap>>

(* Is s, or an extractor that survived s, at work inside the lock? *)
Inside(s) == pc[s] = "ingest" \/ (pc[s] = "dead" /\ stage[s] \in Extracting)

EnterLock(r) ==
  /\ WritePid(r)
  /\ stage' = [stage EXCEPT ![r] = "measure"]
  /\ overlap' = (overlap \/ \E s \in Runs \ {r} : Inside(s))
  /\ UNCHANGED <<transcript, store, held, index, stamps, job, faults>>

(* Every other system call of the lock leaves the data alone.  A reused pid *)
(* only turns runs away: IngestLock has it, the runs here do not.           *)
LockOnly(r) == /\ \/ Create(r, "create")
                  \/ CreateRefused(r)
                  \/ ReadHolder(r)
                  \/ ProbeAlive(r)
                  \/ ProbeDead(r)
                  \/ Clear(r)
                  \/ Create(r, "retry")
                  \/ RetryRefused(r)
                  \/ Release(r)
               /\ UNCHANGED dataVars

-----------------------------------------------------------------------------
(* Inside the lock: one action per stretch of code without an await or a    *)
(* read of what another process writes.                                     *)

At(r, here) == stage[r] = here /\ Inside(r)

Move(r, here, there) == /\ At(r, here)
                        /\ stage' = [stage EXCEPT ![r] = there]

FileCount(s) == Cardinality({p \in Transcripts \X Names : s[p[1]][p[2]] # 0})

(* The size that will be stamped, and the number of store files. *)
Measure(r) ==
  /\ Move(r, "measure", "extract")
  /\ job' = [job EXCEPT ![r].size = transcript[job[r].t],
                        ![r].before = FileCount(store)]
  /\ UNCHANGED <<lockVars, transcript, store, held, index, stamps, faults, overlap>>

(* The exchanges of a transcript as it is read: asks with a long enough reply. *)
ExchangesOf(tx) == {k \in DOMAIN tx : tx[k] > 0}

(* Mutant: the last exchange of the list waits, finished or not. *)
EmittedPopsAlways(tx, kind, window) ==
  {k \in ExchangesOf(tx) : /\ k >= window
                           /\ kind = "timed" => \E j \in ExchangesOf(tx) : j > k}

(* Mutant: a timed run keeps the reply that is still being written. *)
EmittedInFlight(tx, kind, window) == {k \in ExchangesOf(tx) : k >= window}

(* --defer-last takes out the exchange no later ask follows; the window     *)
(* takes out the old ones.                                                  *)
Emitted(tx, kind, window) ==
  {k \in ExchangesOf(tx) : /\ k >= window
                           /\ kind = "timed" => k < Len(tx)}

(* Mutant: the names are taken after --defer-last popped the list. *)
ExtractNamesAfterPop(r) ==
  /\ Move(r, "extract", "emit")
  /\ LET tx == transcript[job[r].t]
         out == Emitted(tx, job[r].kind, job[r].window)
     IN job' = [job EXCEPT ![r].read = tx, ![r].names = out, ![r].todo = out]
  /\ UNCHANGED <<lockVars, transcript, store, held, index, stamps, faults, overlap>>

(* The extractor reads the transcript.  `names' is every exchange a full    *)
(* run would emit, taken before anything is deferred.                       *)
Extract(r) ==
  /\ Move(r, "extract", "emit")
  /\ LET tx == transcript[job[r].t] IN
       job' = [job EXCEPT ![r].read = tx,
                          ![r].names = ExchangesOf(tx),
                          ![r].todo = Emitted(tx, job[r].kind, job[r].window)]
  /\ UNCHANGED <<lockVars, transcript, store, held, index, stamps, faults, overlap>>

IsNext(todo, k) == k \in todo /\ \A j \in todo : k <= j

(* A file that already says the same is left alone. *)
LeaveFile(r) ==
  /\ At(r, "emit")
  /\ \E k \in Exchanges :
       /\ IsNext(job[r].todo, k)
       /\ store[job[r].t][k] = job[r].read[k]
       /\ job' = [job EXCEPT ![r].todo = @ \ {k}]
  /\ UNCHANGED <<lockVars, transcript, store, held, index, stamps, stage, faults, overlap>>

(* writeFileSync empties a file before it fills it.  A file with the same   *)
(* text is written too when a line of its frontmatter has changed.          *)
EmptyFile(r) ==
  /\ Move(r, "emit", "fill")
  /\ \E k \in Exchanges :
       /\ IsNext(job[r].todo, k)
       /\ store' = [store EXCEPT ![job[r].t][k] = Empty]
  /\ UNCHANGED <<lockVars, transcript, held, index, stamps, job, faults, overlap>>

FillFile(r) ==
  /\ Move(r, "fill", "emit")
  /\ \E k \in Exchanges :
       /\ IsNext(job[r].todo, k)
       /\ job' = [job EXCEPT ![r].todo = @ \ {k}, ![r].wrote = @ + 1]
       /\ store' = [store EXCEPT ![job[r].t][k] = job[r].read[k]]
       /\ held' = [held EXCEPT ![job[r].t][k] = job[r].read[k]]
  /\ UNCHANGED <<lockVars, transcript, index, stamps, faults, overlap>>

EmitDone(r) ==
  /\ Move(r, "emit", "prune")
  /\ job[r].todo = {}
  /\ UNCHANGED <<lockVars, transcript, store, held, index, stamps, job, faults, overlap>>

(* What a file says under its frontmatter: the ask and the reply. *)
Body(k, text) == <<IF k \in Repeats \cup Old THEN 1 ELSE k, text>>

(* Mutant: the evidence is what the run has read, whether a file has it or  *)
(* not.                                                                     *)
EvidenceByReading(r) == {Body(k, job[r].read[k]) : k \in job[r].names}

(* The bodies of the files a full run would emit. *)
Evidence(r) ==
  {Body(k, store[job[r].t][k]) : k \in {j \in job[r].names : store[job[r].t][j] # 0}}

(* A windowed run does not prune. *)
Prunes(r) == job[r].names # {} /\ job[r].window = 1

SkipPrune(r) ==
  /\ Move(r, "prune", "decide")
  /\ ~Prunes(r)
  /\ UNCHANGED <<lockVars, transcript, store, held, index, stamps, job, faults, overlap>>

HashEmitted(r) ==
  /\ Move(r, "prune", "list")
  /\ Prunes(r)
  /\ job' = [job EXCEPT ![r].bodies = Evidence(r)]
  /\ UNCHANGED <<lockVars, transcript, store, held, index, stamps, faults, overlap>>

(* The files of this session a full run would not emit. *)
ListOrphans(r) ==
  /\ Move(r, "list", "sweep")
  /\ job' = [job EXCEPT ![r].left = {k \in Names \ job[r].names : store[job[r].t][k] # 0}]
  /\ UNCHANGED <<lockVars, transcript, store, held, index, stamps, faults, overlap>>

(* An orphan with the body of an emitted file is a copy and goes; any other *)
(* is kept, and so is an emptied one, which names no session.               *)
Sweep(r) ==
  /\ At(r, "sweep")
  /\ \E k \in Names :
       /\ IsNext(job[r].left, k)
       /\ LET t == job[r].t
              copy == store[t][k] # Empty /\ Body(k, store[t][k]) \in job[r].bodies
          IN /\ store[t][k] # 0
             /\ store' = IF copy THEN [store EXCEPT ![t][k] = 0] ELSE store
             /\ held' = IF copy THEN [held EXCEPT ![t][k] = 0] ELSE held
       /\ job' = [job EXCEPT ![r].left = @ \ {k}]
  /\ UNCHANGED <<lockVars, transcript, index, stamps, stage, faults, overlap>>

(* Another extractor has deleted it since the listing: the read throws, and *)
(* the run ends as a failed one.                                            *)
SweepFails(r) ==
  /\ Move(r, "sweep", IF pc[r] = "ingest" THEN "finally" ELSE "gone")
  /\ \E k \in job[r].left : IsNext(job[r].left, k) /\ store[job[r].t][k] = 0
  /\ UNCHANGED <<lockVars, transcript, store, held, index, stamps, job, faults, overlap>>

(* The extractor ends, and what it knew of bodies goes with it. *)
SweepDone(r) ==
  /\ Move(r, "sweep", "decide")
  /\ job[r].left = {}
  /\ job' = [job EXCEPT ![r].bodies = {}]
  /\ UNCHANGED <<lockVars, transcript, store, held, index, stamps, faults, overlap>>

(* Mutant: only the number of files says whether something was written. *)
DecideByCount(r) ==
  /\ At(r, "decide")
  /\ LET quiet == FileCount(store) = job[r].before IN
       stage' = [stage EXCEPT ![r] = IF quiet THEN "truncate" ELSE "load"]
  /\ UNCHANGED <<lockVars, transcript, store, held, index, stamps, job, faults, overlap>>

(* No new file and none rewritten: the index is left alone. *)
Decide(r) ==
  /\ At(r, "decide")
  /\ LET quiet == FileCount(store) = job[r].before /\ job[r].wrote = 0 IN
       stage' = [stage EXCEPT ![r] = IF quiet THEN "truncate" ELSE "load"]
  /\ UNCHANGED <<lockVars, transcript, store, held, index, stamps, job, faults, overlap>>

(* buildIndex reads the whole store, then waits for the embedder. *)
Load(r) == /\ Move(r, "load", "publish")
           /\ job' = [job EXCEPT ![r].built = store]
           /\ UNCHANGED <<lockVars, transcript, store, held, index, stamps, faults, overlap>>

(* The new index replaces the old one in a single rename. *)
Publish(r) == /\ Move(r, "publish", "truncate")
              /\ index' = job[r].built
              /\ UNCHANGED <<lockVars, transcript, store, held, stamps, job, faults, overlap>>

(* Anything that throws: the extractor refuses, finds the disk full or dies, *)
(* the embedding model is unavailable.  Nothing is stamped.  A write of the *)
(* stamps that fails is swallowed, with as little on disk.                  *)
Fail(r) == /\ pc[r] = "ingest"
           /\ stage[r] \in Extracting \cup {"load", "publish", "truncate", "stamp"}
           /\ faults < MaxFaults
           /\ faults' = faults + 1
           /\ stage' = [stage EXCEPT ![r] = "finally"]
           /\ UNCHANGED <<lockVars, transcript, store, held, index, stamps, job, overlap>>

(* writeFileSync of the stamps: the file is emptied, then filled.  A reader *)
(* in between parses nothing and starts from no stamps at all.              *)
TruncateStamps(r) == /\ Move(r, "truncate", "stamp")
                     /\ stamps' = NoStamps
                     /\ UNCHANGED <<lockVars, transcript, store, held, index, job, faults, overlap>>

(* Mutant: the size the transcript has when the run ends. *)
WriteStampsAtEnd(r) ==
  /\ Move(r, "stamp", "finally")
  /\ stamps' = [job[r].stamps EXCEPT ![job[r].t] = transcript[job[r].t]]
  /\ UNCHANGED <<lockVars, transcript, store, held, index, job, faults, overlap>>

WriteStamps(r) == /\ Move(r, "stamp", "finally")
                  /\ stamps' = [job[r].stamps EXCEPT ![job[r].t] = job[r].size]
                  /\ UNCHANGED <<lockVars, transcript, store, held, index, job, faults, overlap>>

(* A process takes its variables along; which window it had is history.    *)
Forget(r) == [NoJob EXCEPT !.window = job[r].window]

(* Mutant: process.exit() inside the try, past the release. *)
LeaveTryExits(r) ==
  /\ Goto(r, "ingest", "done")
  /\ stage[r] = "finally"
  /\ stage' = [stage EXCEPT ![r] = "gone"]
  /\ job' = [job EXCEPT ![r] = Forget(r)]
  /\ UNCHANGED <<lock, written, holder, foreign, takers, transcript, store, held,
                 index, stamps, faults, overlap>>

LeaveTry(r) == /\ Finish(r)
               /\ stage[r] = "finally"
               /\ stage' = [stage EXCEPT ![r] = "gone"]
               /\ job' = [job EXCEPT ![r] = Forget(r)]
               /\ UNCHANGED <<transcript, store, held, index, stamps, faults, overlap>>

(* A kill takes the run; an extractor it was waiting for may live on. *)
Kill(r) == /\ Crash(r)
           /\ faults < MaxFaults
           /\ faults' = faults + 1
           /\ \/ /\ stage' = [stage EXCEPT ![r] = "gone"]
                 /\ job' = [job EXCEPT ![r] = Forget(r)]
              \/ /\ stage[r] \in Extracting
                 /\ UNCHANGED <<stage, job>>
           /\ UNCHANGED <<transcript, store, held, index, stamps, overlap>>

Work(r) == \/ Measure(r) \/ Extract(r)
           \/ LeaveFile(r) \/ EmptyFile(r) \/ FillFile(r) \/ EmitDone(r)
           \/ SkipPrune(r) \/ HashEmitted(r) \/ ListOrphans(r)
           \/ Sweep(r) \/ SweepFails(r) \/ SweepDone(r)
           \/ Decide(r) \/ Load(r) \/ Publish(r) \/ Fail(r)
           \/ TruncateStamps(r) \/ WriteStamps(r)

CaptureNext == \/ \E t \in Transcripts : Ask(t) \/ Reply(t)
               \/ \E r \in Runs : \/ DeclineRun(r)
                                  \/ LaunchRun(r)
                                  \/ LockOnly(r)
                                  \/ EnterLock(r)
                                  \/ Work(r)
                                  \/ LeaveTry(r)
                                  \/ Kill(r)

CaptureSpec == CaptureInit /\ [][CaptureNext]_vars
-----------------------------------------------------------------------------
(* A run captured the end of a transcript only. *)
Windowed == \E r \in Runs : job[r].window # 1

(* The text of an exchange is in its file, or was until a rewrite of that   *)
(* file broke off.                                                          *)
Captured(t, k, text) == text <= store[t][k] \/ (store[t][k] = Empty /\ text <= held[t][k])

(* A stamp says "this size was captured" (lines 376-377).  As long as no    *)
(* two runs were inside together and none was windowed, every exchange the  *)
(* stamped transcript had finished was captured with its full text:         *)
(* whatever was asked while the run was reading, failed halfway, or written *)
(* back from stamps read before the lock.  A later run can break off while  *)
(* it rewrites such a file (ingest-transcript.js line 611) and leave it     *)
(* empty under the stamp; when a run is about to stamp, none it covers is.  *)
StampCoversSettled ==
  ~overlap /\ ~Windowed =>
    /\ \A t \in Transcripts :
         stamps[t] # NoStamp =>
           \A k \in 1..(Len(stamps[t]) - 1) : Captured(t, k, stamps[t][k])
    /\ \A r \in Runs :
         At(r, "stamp") =>
           \A k \in ExchangesOf(job[r].size) \ {Len(job[r].size)} :
              job[r].size[k] <= store[job[r].t][k]

(* The same of every exchange the stamped size contains, the last included, *)
(* when no run is timed and defers it.                                      *)
StampCoversAll ==
  ~overlap /\ ~Windowed =>
    /\ \A t \in Transcripts :
         stamps[t] # NoStamp =>
           \A k \in DOMAIN stamps[t] : Captured(t, k, stamps[t][k])
    /\ \A r \in Runs :
         At(r, "stamp") =>
           \A k \in ExchangesOf(job[r].size) : job[r].size[k] <= store[job[r].t][k]

(* The only code that deletes a memory file deletes copies: a deleted       *)
(* file's body is in the store under another name, although the evidence is *)
(* hashed before the files are listed and deleted one by one.  With two     *)
(* extractors at work the hashed file can be rewritten or deleted in        *)
(* between, so this is said of runs that had the lock to themselves         *)
(* (ingest-transcript.js lines 620-657).                                    *)
DeletesOnlyCopies ==
  [][~overlap =>
       \A t \in Transcripts, k \in Names :
         store[t][k] # 0 /\ store'[t][k] = 0 =>
           \E j \in Names \ {k} : Body(j, store'[t][j]) = Body(k, store[t][k])]_vars

(* A timed run never makes a reply searchable while it is being written: it *)
(* writes an exchange only with its final text, even though the session     *)
(* goes on while the run does (auto-ingest.js lines 101-109).               *)
TimedWritesFinishedText ==
  [][\A r \in Runs :
       job[r].kind = "timed" /\ job'[r].wrote # job[r].wrote =>
         LET t == job[r].t IN
           \A k \in Exchanges : store'[t][k] # store[t][k] =>
              k < Len(transcript[t]) /\ store'[t][k] = transcript[t][k]]_vars

(* When nobody is at work, the staging index describes the store, rewritten *)
(* files included, unless two runs overlapped or one failed or was killed   *)
(* (auto-ingest.js lines 347-351).                                          *)
IndexCurrentAtRest ==
  ~overlap /\ faults = 0 /\ (\A r \in Runs : ~Inside(r)) => index = store

(* Two runs are inside together only after some run took a lock over: the   *)
(* kill of a run whose extractor lives on does not do it alone.             *)
OverlapNeedsTakeover == overlap => takers # {}

(* Capture uses the lock as IngestLock says: what is proved of the lock     *)
(* holds of capture (auto-ingest.js lines 299-321 and 385).                 *)
UsesLock == LockSpec

Promised == INSTANCE CapturePromise WITH disturbed <- overlap

(* Capture keeps its promise: the store follows the transcripts and the     *)
(* index follows the store, through deferral, debounce, failures, kills and *)
(* surviving extractors.  A file says what it said when it last was whole,  *)
(* or more, or nothing at all because a rewrite of it broke off             *)
(* (auto-ingest.js lines 332-386, ingest-transcript.js line 611).           *)
KeepsPromise == Promised!Promise
=============================================================================
