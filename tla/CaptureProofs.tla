----------------------------- MODULE CaptureProofs -----------------------------
(* Capture implements IngestLock and CapturePromise, and what it says of its *)
(* stamps, its deletions and its index holds for any number of runs.        *)
EXTENDS Capture, IngestLockProofs

(* The actions of a run leave the lock alone, or are a step of the lock. *)
LEMMA WorkLeavesLock ==
  ASSUME NEW r \in Runs, Work(r)
  PROVE  UNCHANGED lockVars
BY DEF Work, Measure, Extract, LeaveFile, EmptyFile, FillFile, EmitDone,
       SkipPrune, HashEmitted, ListOrphans, Sweep, SweepFails, SweepDone, Decide,
       Load, Publish, Fail, TruncateStamps, WriteStamps

LEMMA WorkIsInside ==
  ASSUME NEW r \in Runs, Work(r)
  PROVE  Inside(r)
BY DEF Work, Measure, Extract, LeaveFile, EmptyFile, FillFile, EmitDone,
       SkipPrune, HashEmitted, ListOrphans, Sweep, SweepFails, SweepDone, Decide,
       Load, Publish, Fail, TruncateStamps, WriteStamps,
       Move, At, Inside

LEMMA CaptureStepIsLockStep == [CaptureNext]_vars => [LockNext]_lockVars
<1> SUFFICES ASSUME CaptureNext, ~ UNCHANGED lockVars
             PROVE  LockNext
  BY DEF vars
<1>1. ASSUME NEW t \in Transcripts, Ask(t) \/ Reply(t)
      PROVE  FALSE
  BY <1>1 DEF Ask, Reply
<1>2. ASSUME NEW r \in Runs, DeclineRun(r)
      PROVE  LockNext
  BY <1>2 DEF DeclineRun, LockNext
<1>3. ASSUME NEW r \in Runs, LaunchRun(r)
      PROVE  LockNext
  BY <1>3 DEF LaunchRun, LockNext
<1>4. ASSUME NEW r \in Runs, LockOnly(r)
      PROVE  LockNext
  BY <1>4 DEF LockOnly, LockNext, Step, Acquire
<1>5. ASSUME NEW r \in Runs, EnterLock(r)
      PROVE  LockNext
  BY <1>5 DEF EnterLock, LockNext, Step, Acquire
<1>6. ASSUME NEW r \in Runs, Work(r)
      PROVE  FALSE
  BY <1>6, WorkLeavesLock
<1>7. ASSUME NEW r \in Runs, LeaveTry(r)
      PROVE  LockNext
  BY <1>7 DEF LeaveTry, LockNext, Step
<1>8. ASSUME NEW r \in Runs, Kill(r)
      PROVE  LockNext
  BY <1>8 DEF Kill, LockNext
<1> QED
  BY <1>1, <1>2, <1>3, <1>4, <1>5, <1>6, <1>7, <1>8 DEF CaptureNext

(* Every behaviour of capture is one of the lock (auto-ingest.js lines      *)
(* 299-321 and 385), so the lock's theorems hold of capture.                *)
THEOREM CaptureUsesLock == CaptureSpec => UsesLock
<1>1. CaptureInit => LockInit
  BY DEF CaptureInit
<1> QED
  BY <1>1, CaptureStepIsLockStep, PTL DEF CaptureSpec, UsesLock, LockSpec

(* Among them: no capture run leaves its lock file behind (lines 341-345). *)
THEOREM CaptureNeverLeaksLock == CaptureSpec => []NoLeakedLock
BY CaptureUsesLock, LockNeverLeaks, PTL DEF UsesLock

-----------------------------------------------------------------------------
(* Two runs are inside together only after a takeover.  The lock alone does *)
(* not say so: an extractor that outlived its killed parent is inside too,  *)
(* and what keeps others out then is the dead parent's lock file.           *)

Outside == {"new", "create", "read", "probe", "clear", "retry", "write", "skipped"}

StageFollowsPc ==
  \A r \in Runs : /\ pc[r] \in Outside => stage[r] = "idle"
                  /\ pc[r] \in {"check", "remove", "done"} => stage[r] = "gone"

InsideOwns == takers = {} => \A r \in Runs : Inside(r) => lock = r

OverlapInv == /\ stage \in [Runs -> Stages]
              /\ StageFollowsPc
              /\ InsideOwns
              /\ OverlapNeedsTakeover

LEMMA OverlapInit == CaptureInit => OverlapInv
BY DEF CaptureInit, LockInit, OverlapInv, StageFollowsPc, InsideOwns, Inside,
       OverlapNeedsTakeover, Outside, Stages

(* What a stretch of work does to the run's stage. *)
LEMMA WorkStage ==
  ASSUME NEW r \in Runs, Work(r), stage \in [Runs -> Stages]
  PROVE  /\ Inside(r)
         /\ \E there \in Stages \ {"idle"} : stage' = [stage EXCEPT ![r] = there]
         /\ overlap' = overlap
<1>1. CASE Measure(r) \/ Extract(r) \/ EmitDone(r)
  BY <1>1 DEF Measure, Extract, EmitDone, Move, At, Inside, Stages
<1>2. CASE LeaveFile(r) \/ Sweep(r)
  <2>1. stage' = [stage EXCEPT ![r] = stage[r]] /\ stage[r] \in {"emit", "sweep"} /\ Inside(r)
    BY <1>2 DEF LeaveFile, Sweep, At
  <2> QED
    BY <1>2, <2>1 DEF LeaveFile, Sweep, Stages
<1>3. CASE Decide(r)
  BY <1>3 DEF Decide, At, Stages
<1>4. CASE Load(r) \/ Publish(r) \/ TruncateStamps(r) \/ WriteStamps(r)
  BY <1>4 DEF Load, Publish, TruncateStamps, WriteStamps, Move, At, Stages
<1>5. CASE Fail(r)
  BY <1>5 DEF Fail, Inside, Stages
<1>6. CASE EmptyFile(r) \/ FillFile(r)
  BY <1>6 DEF EmptyFile, FillFile, Move, At, Stages
<1>7. CASE SkipPrune(r) \/ HashEmitted(r) \/ ListOrphans(r) \/ SweepDone(r)
  BY <1>7 DEF SkipPrune, HashEmitted, ListOrphans, SweepDone, Move, At, Stages
<1>8. CASE SweepFails(r)
  BY <1>8 DEF SweepFails, Move, At, Stages
<1> QED
  BY <1>1, <1>2, <1>3, <1>4, <1>5, <1>6, <1>7, <1>8 DEF Work

LEMMA OverlapNext ==
  ASSUME OverlapInv, TypeOK, OwnsUnlessTakeover, [CaptureNext]_vars
  PROVE  OverlapInv'
<1> USE DEF Outside
<1>0. CASE UNCHANGED vars
  BY <1>0 DEF vars, lockVars, dataVars, OverlapInv, StageFollowsPc, InsideOwns,
              Inside, OverlapNeedsTakeover
<1>1. CASE \E t \in Transcripts : Ask(t) \/ Reply(t)
  BY <1>1 DEF Ask, Reply, lockVars, OverlapInv, StageFollowsPc, InsideOwns,
              Inside, OverlapNeedsTakeover
<1>2. ASSUME NEW r \in Runs, DeclineRun(r) \/ LaunchRun(r)
      PROVE  OverlapInv'
  <2>1. /\ UNCHANGED <<stage, overlap, lock, takers>>
        /\ pc[r] = "new"
        /\ pc' = [pc EXCEPT ![r] = "skipped"] \/ pc' = [pc EXCEPT ![r] = "create"]
    BY <1>2 DEF DeclineRun, LaunchRun, Decline, Launch, Goto, dataVars
  <2> QED
    BY <2>1 DEF TypeOK, OverlapInv, StageFollowsPc, InsideOwns, Inside,
                OverlapNeedsTakeover, Extracting
<1>3. ASSUME NEW r \in Runs, LockOnly(r)
      PROVE  OverlapInv'
  <2>1. UNCHANGED <<stage, overlap>>
    BY <1>3 DEF LockOnly, dataVars
  <2>2. /\ stage' \in [Runs -> Stages]
        /\ StageFollowsPc'
    BY <1>3, <2>1 DEF LockOnly, Create, CreateRefused, ReadHolder, ProbeAlive,
       ProbeDead, Clear, RetryRefused, Release, CheckOwner, Remove, Goto, TypeOK,
       OverlapInv, StageFollowsPc
  <2>3. \A s \in Runs : Inside(s)' => Inside(s)
    BY <1>3, <2>1 DEF LockOnly, Create, CreateRefused, ReadHolder, ProbeAlive,
       ProbeDead, Clear, RetryRefused, Release, CheckOwner, Remove, Goto, TypeOK,
       Inside
  <2>4. takers \subseteq takers'
    BY <1>3 DEF LockOnly, Create, CreateRefused, ReadHolder, ProbeAlive,
       ProbeDead, Clear, RetryRefused, Release, CheckOwner, Remove
  <2>5. InsideOwns'
    <3> SUFFICES ASSUME takers' = {}, NEW s \in Runs, Inside(s)
                 PROVE  lock' = s
      BY <2>3 DEF InsideOwns
    <3>1. takers = {} /\ lock = s
      BY <2>4 DEF OverlapInv, InsideOwns
    <3>2. CASE Create(r, "create") \/ Create(r, "retry")
      BY <3>1, <3>2, RunsAssumption DEF Create
    <3>3. CASE Clear(r)
      BY <3>3 DEF Clear
    <3>4. CASE Remove(r)
      <4>1. lock = r
        BY <3>1, <3>4 DEF Remove, Goto, OwnsUnlessTakeover, Holders, Holding
      <4> QED
        BY <3>1, <3>4, <4>1 DEF Remove, Goto, Inside
    <3> QED
      BY <1>3, <3>1, <3>2, <3>3, <3>4 DEF LockOnly, CreateRefused, ReadHolder,
         ProbeAlive, ProbeDead, RetryRefused, Release, CheckOwner
  <2> QED
    BY <2>1, <2>2, <2>4, <2>5 DEF OverlapInv, OverlapNeedsTakeover
<1>4. ASSUME NEW r \in Runs, EnterLock(r)
      PROVE  OverlapInv'
  <2>1. /\ pc[r] = "write"
        /\ pc' = [pc EXCEPT ![r] = "ingest"]
        /\ stage' = [stage EXCEPT ![r] = "measure"]
        /\ UNCHANGED <<lock, takers>>
    BY <1>4 DEF EnterLock, WritePid, Goto
  <2>2. takers = {} => lock = r
    BY <2>1 DEF OwnsUnlessTakeover, Holders, Holding
  <2>3. OverlapNeedsTakeover'
    BY <1>4, <2>1, <2>2 DEF EnterLock, OverlapInv, InsideOwns, OverlapNeedsTakeover
  <2>4. stage' \in [Runs -> Stages] /\ StageFollowsPc'
    BY <2>1 DEF TypeOK, OverlapInv, StageFollowsPc, Stages
  <2>5. InsideOwns'
    BY <2>1, <2>2 DEF TypeOK, OverlapInv, InsideOwns, Inside, Extracting
  <2> QED
    BY <2>3, <2>4, <2>5 DEF OverlapInv
<1>5. ASSUME NEW r \in Runs, Work(r)
      PROVE  OverlapInv'
  <2>1. UNCHANGED lockVars
    BY <1>5, WorkLeavesLock
  <2>2. PICK there \in Stages \ {"idle"} :
          stage' = [stage EXCEPT ![r] = there]
    BY <1>5, WorkStage DEF OverlapInv
  <2>3. Inside(r) /\ overlap' = overlap
    BY <1>5, WorkStage DEF OverlapInv
  <2>4. StageFollowsPc'
    BY <2>1, <2>2, <2>3 DEF lockVars, OverlapInv, StageFollowsPc, Inside
  <2>5. InsideOwns'
    BY <2>1, <2>2, <2>3 DEF lockVars, OverlapInv, InsideOwns, Inside
  <2> QED
    BY <2>1, <2>2, <2>3, <2>4, <2>5 DEF lockVars, OverlapInv, OverlapNeedsTakeover
<1>6. ASSUME NEW r \in Runs, LeaveTry(r)
      PROVE  OverlapInv'
  <2>1. /\ pc[r] = "ingest"
        /\ pc' = [pc EXCEPT ![r] = "check"]
        /\ stage' = [stage EXCEPT ![r] = "gone"]
        /\ UNCHANGED <<lock, takers, overlap>>
    BY <1>6 DEF LeaveTry, Finish, Goto
  <2> QED
    BY <2>1 DEF TypeOK, OverlapInv, StageFollowsPc, InsideOwns, Inside,
                OverlapNeedsTakeover, Stages
<1>7. ASSUME NEW r \in Runs, Kill(r)
      PROVE  OverlapInv'
  <2>1. /\ pc' = [pc EXCEPT ![r] = "dead"]
        /\ pc[r] \notin {"new", "done", "skipped", "dead"}
        /\ UNCHANGED <<lock, takers, overlap>>
    BY <1>7 DEF Kill, Crash, Running, Ended
  <2>2. \/ stage' = [stage EXCEPT ![r] = "gone"]
        \/ stage' = stage /\ stage[r] \in Extracting
    BY <1>7 DEF Kill
  <2>3. stage' \in [Runs -> Stages] /\ StageFollowsPc'
    BY <2>1, <2>2 DEF TypeOK, OverlapInv, StageFollowsPc, Stages
  <2>4. \A s \in Runs : Inside(s)' => Inside(s)
    BY <2>1, <2>2 DEF TypeOK, PCs, OverlapInv, StageFollowsPc, Inside, Extracting
  <2> QED
    BY <2>1, <2>3, <2>4 DEF OverlapInv, InsideOwns, OverlapNeedsTakeover
<1> QED
  BY <1>0, <1>1, <1>2, <1>3, <1>4, <1>5, <1>6, <1>7 DEF CaptureNext

(* Two runs, surviving extractors included, are inside together only after  *)
(* some run judged a holder dead and cleared its file (auto-ingest.js lines *)
(* 299-321).                                                                *)
THEOREM CaptureOverlapNeedsTakeover == CaptureSpec => []OverlapNeedsTakeover
<1>1. CaptureSpec => []TypeOK /\ []OwnsUnlessTakeover
  BY CaptureUsesLock, LockTypeCorrect, LockOwnedUnlessTakeover, PTL DEF UsesLock
<1>2. OverlapInv => OverlapNeedsTakeover
  BY DEF OverlapInv
<1> QED
  BY <1>1, <1>2, OverlapInit, OverlapNext, PTL DEF CaptureSpec

-----------------------------------------------------------------------------
(* What the variables and the runs hold.                                    *)

Transcript == {s \in Seq(Texts) : Len(s) <= MaxExchanges}

Counts == {FileCount(f) : f \in Files} \cup {0}

(* The files of a store in which none is emptied. *)
Wholes == [Transcripts -> [Names -> Texts]]

Bodies == (Names \cup {1}) \X (Texts \cup {Empty})

Job == [t : Transcripts \cup {NoJob.t}, kind : Kinds \cup {"none"},
        stamps : [Transcripts -> Transcript \cup {NoStamp}], window : Exchanges,
        size : Transcript, before : Counts,
        names : SUBSET Exchanges, todo : SUBSET Exchanges, read : Transcript,
        wrote : Nat, bodies : SUBSET Bodies, left : SUBSET Names, built : Files]

Typed == /\ transcript \in [Transcripts -> Transcript]
         /\ store \in Files
         /\ held \in Wholes
         /\ index \in Files
         /\ stamps \in [Transcripts -> Transcript \cup {NoStamp}]
         /\ job \in [Runs -> Job]
         /\ faults \in Nat
         /\ overlap \in BOOLEAN
         /\ \A r \in Runs : pc[r] = "new" => job[r] = NoJob
         /\ Transcripts = {} => \A r \in Runs : pc[r] = "new"

LEMMA BoundsExist ==
  /\ MaxExchanges \in Nat /\ MaxExchanges >= 1 /\ MaxText \in Nat /\ MaxText >= 1
  /\ 1 \in Exchanges /\ 0 \in Texts
  /\ \A k \in Exchanges : k \in Nat
  /\ \A x \in Texts : x \in Nat
BY CaptureAssumption DEF Exchanges, Texts

LEMMA NamesExist ==
  /\ Exchanges \subseteq Names
  /\ Names \subseteq Nat
  /\ Empty \in Int /\ Empty < 0
  /\ Texts \subseteq Texts \cup {Empty}
BY CaptureAssumption DEF Exchanges, Names, Empty

(* What a file can hold, and what one that is whole can. *)
LEMMA FilesHold ==
  /\ \A f \in Files, t \in Transcripts, k \in Names :
        /\ f[t][k] \in Texts \cup {Empty}
        /\ f[t][k] \in Int
  /\ \A f \in Wholes, t \in Transcripts, k \in Names : f[t][k] \in Texts /\ f[t][k] \in Nat
<1>1. \A x \in Texts \cup {Empty} : x \in Int
  BY BoundsExist, NamesExist
<1>2. \A f \in Files, t \in Transcripts, k \in Names : f[t][k] \in Texts \cup {Empty}
  BY DEF Files
<1>3. \A f \in Wholes, t \in Transcripts, k \in Names : f[t][k] \in Texts
  BY DEF Wholes
<1> QED
  BY <1>1, <1>2, <1>3, BoundsExist

(* Writing one text into a file. *)
Writes(f, g, t, k, x) == g = [f EXCEPT ![t][k] = x]

LEMMA OneFile ==
  ASSUME NEW f \in Files, NEW t \in Transcripts, NEW k \in Names,
         NEW x \in Texts \cup {Empty}, NEW g, Writes(f, g, t, k, x)
  PROVE  /\ g \in Files
         /\ g[t][k] = x
         /\ \A u \in Transcripts, j \in Names : u # t \/ j # k => g[u][j] = f[u][j]
BY DEF Files, Writes

LEMMA OneWhole ==
  ASSUME NEW f \in Wholes, NEW t \in Transcripts, NEW k \in Names,
         NEW x \in Texts, NEW g, Writes(f, g, t, k, x)
  PROVE  /\ g \in Wholes
         /\ g[t][k] = x
         /\ \A u \in Transcripts, j \in Names : u # t \/ j # k => g[u][j] = f[u][j]
BY DEF Wholes, Writes

LEMMA NoJobTyped == NoJob \in Job
<1>1. NoFiles \in Files /\ NoStamps \in [Transcripts -> Transcript \cup {NoStamp}]
  BY BoundsExist DEF NoFiles, Files, NoStamps
<1>2. <<>> \in Transcript
  BY BoundsExist DEF Transcript
<1>3. NoJob.t \in Transcripts \cup {NoJob.t}
  OBVIOUS
<1> QED
  BY <1>1, <1>2, <1>3, BoundsExist DEF Job, NoJob, Counts

(* A run that has started has a transcript. *)
LEMMA StartedHasTranscript ==
  ASSUME Typed, NEW r \in Runs, pc[r] # "new"
  PROVE  job[r].t \in Transcripts
<1>1. Transcripts # {}
  BY DEF Typed
<1>2. NoJob.t = CHOOSE t \in Transcripts : TRUE
  BY DEF NoJob
<1>3. NoJob.t \in Transcripts
  BY <1>1, <1>2
<1>4. job[r] \in Job
  BY DEF Typed
<1> QED
  BY <1>3, <1>4 DEF Job

(* Extending a transcript by an ask or by a piece of the last reply. *)
LEMMA TalkTyped ==
  ASSUME Typed, NEW t \in Transcripts, Ask(t) \/ Reply(t)
  PROVE  /\ transcript' \in [Transcripts -> Transcript]
         /\ \A u \in Transcripts \ {t} : transcript'[u] = transcript[u]
         /\ Len(transcript'[t]) >= Len(transcript[t])
         /\ \A k \in 1..Len(transcript[t]) :
               /\ transcript'[t][k] >= transcript[t][k]
               /\ k < Len(transcript[t]) => transcript'[t][k] = transcript[t][k]
<1> DEFINE s == transcript[t]
<1>1. s \in Transcript
  BY DEF Typed
<1>2. /\ s \in Seq(Texts) /\ Len(s) \in Nat /\ Len(s) <= MaxExchanges
      /\ \A k \in 1..Len(s) : s[k] \in Nat
  BY <1>1, BoundsExist DEF Transcript
<1>3. CASE Ask(t)
  <2>1. transcript' = [transcript EXCEPT ![t] = Append(s, 0)] /\ Len(s) < MaxExchanges
    BY <1>3 DEF Ask
  <2>2. /\ Append(s, 0) \in Seq(Texts) /\ Len(Append(s, 0)) = Len(s) + 1
        /\ \A k \in 1..Len(s) : Append(s, 0)[k] = s[k]
    BY <1>2, BoundsExist
  <2>3. Append(s, 0) \in Transcript
    BY <1>2, <2>1, <2>2, BoundsExist DEF Transcript
  <2>4. transcript \in [Transcripts -> Transcript]
    BY DEF Typed
  <2>5. transcript'[t] = Append(s, 0) /\ transcript' \in [Transcripts -> Transcript]
    BY <2>1, <2>3, <2>4
  <2> HIDE DEF s
  <2>6. \A u \in Transcripts \ {t} : transcript'[u] = transcript[u]
    BY <2>1, <2>4
  <2> QED
    BY <1>2, <2>2, <2>5, <2>6 DEF s
<1>4. CASE Reply(t)
  <2> DEFINE n == Len(s)
             u == [s EXCEPT ![n] = s[n] + 1]
  <2>1. transcript' = [transcript EXCEPT ![t] = u] /\ s # <<>> /\ s[n] < MaxText
    BY <1>4 DEF Reply
  <2>2. n \in 1..Len(s) /\ s[n] \in Nat
    BY <1>2, <2>1
  <2>3. s[n] + 1 \in Texts
    BY <2>1, <2>2, BoundsExist DEF Texts
  <2>4. /\ u \in Seq(Texts) /\ Len(u) = Len(s)
        /\ \A k \in 1..Len(s) : u[k] = IF k = n THEN s[n] + 1 ELSE s[k]
    BY <1>2, <2>2, <2>3
  <2>5. u \in Transcript
    BY <1>2, <2>4 DEF Transcript
  <2>6. transcript \in [Transcripts -> Transcript]
    BY DEF Typed
  <2> HIDE DEF u
  <2>7. transcript'[t] = u /\ transcript' \in [Transcripts -> Transcript]
    BY <2>1, <2>5, <2>6
  <2>8. \A v \in Transcripts \ {t} : transcript'[v] = transcript[v]
    BY <2>1, <2>6
  <2> QED
    BY <1>2, <2>2, <2>4, <2>7, <2>8
<1> QED
  BY <1>3, <1>4

LEMMA EmittedTyped ==
  ASSUME NEW tx \in Transcript, NEW kind, NEW window \in Exchanges
  PROVE  /\ ExchangesOf(tx) \subseteq Exchanges
         /\ Emitted(tx, kind, window) \subseteq ExchangesOf(tx)
BY BoundsExist DEF Transcript, ExchangesOf, Emitted, Exchanges

(* What each stretch of work does to the variables its run holds. *)

OthersKeep(r) == \A s \in Runs \ {r} : job'[s] = job[s]

Same(r, fields) == \A f \in fields : job'[r][f] = job[r][f]

LEMMA MeasureJob ==
  ASSUME Typed, NEW r \in Runs, job[r].t \in Transcripts, Measure(r)
  PROVE  /\ job' \in [Runs -> Job]
         /\ OthersKeep(r)
         /\ job'[r].size = transcript[job[r].t]
         /\ Same(r, {"t", "kind", "stamps", "window", "names", "todo", "read", "wrote", "bodies", "left", "built"})
<1> DEFINE size == transcript[job[r].t]
           count == FileCount(store)
<1>1. size \in Transcript /\ count \in Counts
  BY DEF Typed, Counts
<1>2. job' = [job EXCEPT ![r].size = size, ![r].before = count]
  BY DEF Measure
<1> HIDE DEF size, count
<1>3. job \in [Runs -> Job]
  BY DEF Typed
<1>4. /\ job'[r].size = size
      /\ Same(r, {"t", "kind", "stamps", "window", "names", "todo", "read", "wrote", "bodies", "left", "built"})
  BY <1>2, <1>3 DEF Job, Same
<1>5. job' \in [Runs -> Job] /\ OthersKeep(r)
  <2>1. job' = [job EXCEPT ![r] = [job[r] EXCEPT !.size = size, !.before = count]]
    BY <1>2, <1>3
  <2>2. [job[r] EXCEPT !.size = size, !.before = count] \in Job
    BY <1>1, <1>3 DEF Job
  <2> QED
    BY <1>3, <2>1, <2>2 DEF OthersKeep
<1> QED
  BY <1>4, <1>5 DEF size

LEMMA ExtractJob ==
  ASSUME Typed, NEW r \in Runs, job[r].t \in Transcripts, Extract(r)
  PROVE  /\ job' \in [Runs -> Job]
         /\ OthersKeep(r)
         /\ job'[r].read = transcript[job[r].t]
         /\ job'[r].names = ExchangesOf(transcript[job[r].t])
         /\ job'[r].todo = Emitted(transcript[job[r].t], job[r].kind, job[r].window)
         /\ Same(r, {"t", "kind", "stamps", "window", "size", "before", "wrote", "bodies", "left", "built"})
<1> DEFINE read == transcript[job[r].t]
           names == ExchangesOf(read)
           todo == Emitted(read, job[r].kind, job[r].window)
<1>1. read \in Transcript /\ names \subseteq Exchanges /\ todo \subseteq Exchanges
  <2>1. read \in Transcript
    BY DEF Typed
  <2>2. job[r].window \in Exchanges
    BY DEF Typed, Job
  <2> QED
    BY <2>1, <2>2, EmittedTyped
<1>2. job' = [job EXCEPT ![r].read = read, ![r].names = names, ![r].todo = todo]
  BY DEF Extract
<1> HIDE DEF read, names, todo
<1>3. job \in [Runs -> Job]
  BY DEF Typed
<1>4. /\ job'[r].read = read
      /\ job'[r].names = names
      /\ job'[r].todo = todo
      /\ Same(r, {"t", "kind", "stamps", "window", "size", "before", "wrote", "bodies", "left", "built"})
  BY <1>2, <1>3 DEF Job, Same
<1> DEFINE new == [job[r] EXCEPT !.read = read, !.names = names, !.todo = todo]
<1>5. job' = [job EXCEPT ![r] = new]
  BY <1>2, <1>3 DEF Job
<1>6. new \in Job
  BY <1>1, <1>3 DEF Job
<1> HIDE DEF new
<1>7. job' \in [Runs -> Job] /\ OthersKeep(r)
  BY <1>3, <1>5, <1>6 DEF OthersKeep
<1> QED
  BY <1>4, <1>7 DEF read, names, todo

LEMMA LeaveFileJob ==
  ASSUME Typed, NEW r \in Runs, job[r].t \in Transcripts, LeaveFile(r)
  PROVE  /\ job' \in [Runs -> Job]
         /\ OthersKeep(r)
         /\ Same(r, {"t", "kind", "stamps", "window", "size", "before", "names", "read",
                     "wrote", "bodies", "left", "built"})
         /\ \E k \in job[r].todo :
              /\ job'[r].todo = job[r].todo \ {k}
              /\ store[job[r].t][k] = job[r].read[k]
<1>1. PICK k \in Exchanges :
        /\ k \in job[r].todo
        /\ store[job[r].t][k] = job[r].read[k]
        /\ job' = [job EXCEPT ![r].todo = job[r].todo \ {k}]
  BY Zenon DEF LeaveFile, IsNext
<1> DEFINE todo == job[r].todo \ {k}
<1>2. job' = [job EXCEPT ![r].todo = todo]
  BY <1>1
<1>3. job \in [Runs -> Job] /\ job[r] \in Job
  BY DEF Typed
<1>4. todo \subseteq Exchanges
  BY <1>3 DEF Job
<1> HIDE DEF todo
<1>5. /\ job'[r].todo = todo
      /\ Same(r, {"t", "kind", "stamps", "window", "size", "before", "names", "read",
                  "wrote", "bodies", "left", "built"})
  BY <1>2, <1>3 DEF Job, Same
<1>6. job' \in [Runs -> Job] /\ OthersKeep(r)
  BY <1>2, <1>3, <1>4 DEF Job, OthersKeep
<1> QED
  BY <1>1, <1>5, <1>6 DEF todo

LEMMA FillFileJob ==
  ASSUME Typed, NEW r \in Runs, job[r].t \in Transcripts, FillFile(r)
  PROVE  /\ job' \in [Runs -> Job]
         /\ OthersKeep(r)
         /\ Same(r, {"t", "kind", "stamps", "window", "size", "before", "names", "read",
                     "bodies", "left", "built"})
         /\ job'[r].wrote = job[r].wrote + 1
         /\ \E k \in job[r].todo :
              /\ job'[r].todo = job[r].todo \ {k}
              /\ store' = [store EXCEPT ![job[r].t][k] = job[r].read[k]]
              /\ held' = [held EXCEPT ![job[r].t][k] = job[r].read[k]]
<1>1. PICK k \in Exchanges :
        /\ k \in job[r].todo
        /\ job' = [job EXCEPT ![r].todo = job[r].todo \ {k}, ![r].wrote = job[r].wrote + 1]
        /\ store' = [store EXCEPT ![job[r].t][k] = job[r].read[k]]
        /\ held' = [held EXCEPT ![job[r].t][k] = job[r].read[k]]
  BY Zenon DEF FillFile, IsNext
<1> DEFINE todo == job[r].todo \ {k}
           wrote == job[r].wrote + 1
<1>2. job' = [job EXCEPT ![r].todo = todo, ![r].wrote = wrote]
  BY <1>1
<1>3. job \in [Runs -> Job] /\ job[r] \in Job
  BY DEF Typed
<1>4. todo \subseteq Exchanges /\ wrote \in Nat
  BY <1>3 DEF Job
<1> HIDE DEF todo, wrote
<1>5. /\ job'[r].todo = todo
      /\ job'[r].wrote = wrote
      /\ Same(r, {"t", "kind", "stamps", "window", "size", "before", "names", "read",
                  "bodies", "left", "built"})
  BY <1>2, <1>3 DEF Job, Same
<1>6. job' \in [Runs -> Job] /\ OthersKeep(r)
  <2>1. job' = [job EXCEPT ![r] = [job[r] EXCEPT !.todo = todo, !.wrote = wrote]]
    BY <1>2, <1>3
  <2>2. [job[r] EXCEPT !.todo = todo, !.wrote = wrote] \in Job
    BY <1>3, <1>4 DEF Job
  <2> QED
    BY <1>3, <2>1, <2>2 DEF OthersKeep
<1> QED
  BY <1>1, <1>5, <1>6 DEF todo, wrote

LEMMA HashJob ==
  ASSUME Typed, NEW r \in Runs, job[r].t \in Transcripts, HashEmitted(r)
  PROVE  /\ job' \in [Runs -> Job]
         /\ OthersKeep(r)
         /\ job'[r].bodies = Evidence(r)
         /\ Same(r, {"t", "kind", "stamps", "window", "size", "before", "names", "todo", "read",
                     "wrote", "left", "built"})
<1> DEFINE bodies == Evidence(r)
<1>1. job \in [Runs -> Job] /\ job[r] \in Job /\ store \in Files
  BY DEF Typed
<1>2. bodies \subseteq Bodies
  <2>1. job[r].names \subseteq Names
    BY <1>1, NamesExist DEF Job
  <2>2. \A k \in Names : store[job[r].t][k] \in Texts \cup {Empty}
    BY <1>1, FilesHold
  <2> QED
    BY <2>1, <2>2 DEF Evidence, Body, Bodies
<1>3. job' = [job EXCEPT ![r].bodies = bodies]
  BY DEF HashEmitted
<1> HIDE DEF bodies
<1>4. /\ job'[r].bodies = bodies
      /\ Same(r, {"t", "kind", "stamps", "window", "size", "before", "names", "todo", "read",
                  "wrote", "left", "built"})
  BY <1>1, <1>3 DEF Job, Same
<1>5. job' \in [Runs -> Job] /\ OthersKeep(r)
  BY <1>1, <1>2, <1>3 DEF Job, OthersKeep
<1> QED
  BY <1>4, <1>5 DEF bodies

LEMMA ListJob ==
  ASSUME Typed, NEW r \in Runs, job[r].t \in Transcripts, ListOrphans(r)
  PROVE  /\ job' \in [Runs -> Job]
         /\ OthersKeep(r)
         /\ job'[r].left \subseteq Names \ job[r].names
         /\ \A k \in job'[r].left : store[job[r].t][k] # 0
         /\ Same(r, {"t", "kind", "stamps", "window", "size", "before", "names", "todo", "read",
                     "wrote", "bodies", "built"})
<1> DEFINE left == {k \in Names \ job[r].names : store[job[r].t][k] # 0}
<1>1. job \in [Runs -> Job] /\ job[r] \in Job
  BY DEF Typed
<1>2. /\ left \subseteq Names /\ left \subseteq Names \ job[r].names
      /\ \A k \in left : store[job[r].t][k] # 0
  OBVIOUS
<1>3. job' = [job EXCEPT ![r].left = left]
  BY DEF ListOrphans
<1> HIDE DEF left
<1>4. /\ job'[r].left = left
      /\ Same(r, {"t", "kind", "stamps", "window", "size", "before", "names", "todo", "read",
                  "wrote", "bodies", "built"})
  BY <1>1, <1>3 DEF Job, Same
<1>5. job' \in [Runs -> Job] /\ OthersKeep(r)
  BY <1>1, <1>2, <1>3 DEF Job, OthersKeep
<1> QED
  BY <1>2, <1>4, <1>5

LEMMA SweepJob ==
  ASSUME Typed, NEW r \in Runs, job[r].t \in Transcripts, Sweep(r)
  PROVE  /\ job' \in [Runs -> Job]
         /\ OthersKeep(r)
         /\ Same(r, {"t", "kind", "stamps", "window", "size", "before", "names", "todo", "read",
                     "wrote", "bodies", "built"})
         /\ \E k \in job[r].left :
              /\ job'[r].left = job[r].left \ {k}
              /\ store[job[r].t][k] # 0
              /\ \/ /\ store[job[r].t][k] # Empty
                    /\ Body(k, store[job[r].t][k]) \in job[r].bodies
                    /\ store' = [store EXCEPT ![job[r].t][k] = 0]
                    /\ held' = [held EXCEPT ![job[r].t][k] = 0]
                 \/ UNCHANGED <<store, held>>
<1>1. PICK k \in Names :
        /\ k \in job[r].left
        /\ job' = [job EXCEPT ![r].left = job[r].left \ {k}]
        /\ store[job[r].t][k] # 0
        /\ \/ /\ store[job[r].t][k] # Empty
              /\ Body(k, store[job[r].t][k]) \in job[r].bodies
              /\ store' = [store EXCEPT ![job[r].t][k] = 0]
              /\ held' = [held EXCEPT ![job[r].t][k] = 0]
           \/ UNCHANGED <<store, held>>
  BY Zenon DEF Sweep, IsNext
<1> DEFINE left == job[r].left \ {k}
<1>2. job' = [job EXCEPT ![r].left = left]
  BY <1>1
<1>3. job \in [Runs -> Job] /\ job[r] \in Job
  BY DEF Typed
<1>4. left \subseteq Names
  BY <1>3 DEF Job
<1> HIDE DEF left
<1>5. /\ job'[r].left = left
      /\ Same(r, {"t", "kind", "stamps", "window", "size", "before", "names", "todo", "read",
                  "wrote", "bodies", "built"})
  BY <1>2, <1>3 DEF Job, Same
<1>6. job' \in [Runs -> Job] /\ OthersKeep(r)
  BY <1>2, <1>3, <1>4 DEF Job, OthersKeep
<1> QED
  BY <1>1, <1>5, <1>6 DEF left

LEMMA SweepDoneJob ==
  ASSUME Typed, NEW r \in Runs, job[r].t \in Transcripts, SweepDone(r)
  PROVE  /\ job' \in [Runs -> Job]
         /\ OthersKeep(r)
         /\ Same(r, {"t", "kind", "stamps", "window", "size", "before", "names", "todo", "read",
                     "wrote", "left", "built"})
<1>1. job \in [Runs -> Job] /\ job[r] \in Job
  BY DEF Typed
<1>2. job' = [job EXCEPT ![r].bodies = {}]
  BY DEF SweepDone
<1>3. Same(r, {"t", "kind", "stamps", "window", "size", "before", "names", "todo", "read",
               "wrote", "left", "built"})
  BY <1>1, <1>2 DEF Job, Same
<1>4. job' \in [Runs -> Job] /\ OthersKeep(r)
  BY <1>1, <1>2 DEF Job, OthersKeep
<1> QED
  BY <1>3, <1>4

LEMMA LoadJob ==
  ASSUME Typed, NEW r \in Runs, Load(r)
  PROVE  /\ job' \in [Runs -> Job]
         /\ OthersKeep(r)
         /\ job'[r].built = store
         /\ Same(r, {"t", "kind", "stamps", "window", "size", "before", "names",
                     "todo", "read", "wrote", "bodies", "left"})
<1>1. job' = [job EXCEPT ![r].built = store]
  BY DEF Load
<1>2. job \in [Runs -> Job] /\ job[r] \in Job /\ store \in Files
  BY DEF Typed
<1>3. /\ job'[r].built = store
      /\ Same(r, {"t", "kind", "stamps", "window", "size", "before", "names",
                  "todo", "read", "wrote", "bodies", "left"})
  BY <1>1, <1>2 DEF Job, Same
<1>4. job' \in [Runs -> Job] /\ OthersKeep(r)
  <2> DEFINE new == [job[r] EXCEPT !.built = store]
  <2>1. job' = [job EXCEPT ![r] = new]
    BY <1>1, <1>2
  <2>2. new \in Job
    BY <1>2 DEF Job
  <2> HIDE DEF new
  <2> QED
    BY <1>2, <2>1, <2>2 DEF OthersKeep
<1> QED
  BY <1>3, <1>4

LEMMA TypedInit == CaptureInit => Typed
<1> SUFFICES ASSUME CaptureInit PROVE Typed
  OBVIOUS
<1>1. <<>> \in Transcript /\ \A x \in Texts : <<x>> \in Transcript
  BY BoundsExist DEF Transcript
<1>2. PICK copy \in [Transcripts -> Texts] :
        store = [t \in Transcripts |-> [k \in Names |-> IF k \in Old THEN copy[t] ELSE 0]]
  BY DEF CaptureInit
<1>3. store \in Files /\ store \in Wholes
  BY <1>2, BoundsExist DEF Files, Wholes
<1>4. NoStamps \in [Transcripts -> Transcript \cup {NoStamp}]
  BY DEF NoStamps
<1>5. transcript \in [Transcripts -> Transcript]
  BY <1>1 DEF CaptureInit
<1> QED
  BY <1>3, <1>4, <1>5, NoJobTyped DEF CaptureInit, LockInit, Typed

-----------------------------------------------------------------------------
(* What a run has read is a prefix of the transcript, its last reply apart, *)
(* and what it still has to write is among the exchanges it read.           *)

Continues(s, u) == /\ Len(s) <= Len(u)
                   /\ \A k \in 1..Len(s) : /\ s[k] <= u[k]
                                           /\ k < Len(s) => s[k] = u[k]

NotAhead(files) ==
  \A t \in Transcripts, k \in Exchanges : files[t][k] <= SaidIn(transcript[t], k)

HasRead == {"emit", "fill", "prune", "list", "sweep", "decide", "load", "publish",
            "truncate", "stamp"}

JobOf(r) ==
  /\ stage[r] \in HasRead \cup {"extract"} => Continues(job[r].size, transcript[job[r].t])
  /\ stage[r] \in HasRead =>
       /\ Continues(job[r].size, job[r].read)
       /\ Continues(job[r].read, transcript[job[r].t])
       /\ job[r].names = ExchangesOf(job[r].read)
       /\ job[r].todo \subseteq Emitted(job[r].read, job[r].kind, job[r].window)
  /\ stage[r] \in HasRead \ {"emit", "fill"} => job[r].todo = {}
  /\ stage[r] = "sweep" => job[r].left \subseteq Names \ job[r].names
  /\ stage[r] = "publish" => NotAhead(job[r].built)

(* A file holds what it last held whole, or nothing. *)
WholeOrEmpty == \A t \in Transcripts, k \in Names : store[t][k] \in {held[t][k], Empty}

StoreInv == NotAhead(store) /\ NotAhead(held) /\ WholeOrEmpty

JobInv == /\ \A r \in Runs : JobOf(r)
          /\ StoreInv
          /\ NotAhead(index)

(* A run that started stays started. *)
LEMMA StartsOnce ==
  ASSUME TypeOK, LockNext, NEW r \in Runs, pc'[r] = "new"
  PROVE  pc[r] = "new"
BY DEF TypeOK, LockNext, Step, Acquire, Decline, Launch, Create,
   CreateRefused, ReadHolder, ProbeAlive, ProbeDead, Clear, RetryRefused, WritePid,
   Finish, Release, CheckOwner, Remove, Crash, ReusePid, FreePid, Goto

(* At work, a run has a transcript and is not new. *)
LEMMA AtWork ==
  ASSUME Typed, NEW r \in Runs, Inside(r)
  PROVE  pc[r] # "new" /\ job[r].t \in Transcripts /\ job[r] \in Job
<1>1. pc[r] # "new"
  BY DEF Inside
<1> QED
  BY <1>1, StartedHasTranscript DEF Typed

(* The files while an exchange is written, and while orphans are swept. *)
LEMMA EmitFacts ==
  ASSUME Typed, NEW r \in Runs, Inside(r), stage[r] \in {"emit", "fill"}, JobOf(r),
         NEW k \in job[r].todo
  PROVE  /\ k \in Exchanges /\ k \in Names
         /\ k \in Emitted(job[r].read, job[r].kind, job[r].window)
         /\ job[r].read[k] \in Texts /\ job[r].read[k] > 0 /\ k \in DOMAIN job[r].read
         /\ SaidIn(job[r].read, k) = job[r].read[k]
<1>1. job[r] \in Job
  BY DEF Typed
<1>2. k \in Emitted(job[r].read, job[r].kind, job[r].window)
  BY DEF JobOf, HasRead
<1>3. job[r].read \in Transcript /\ k \in Exchanges
  BY <1>1 DEF Job
<1> QED
  BY <1>2, <1>3, NamesExist DEF Transcript, Emitted, ExchangesOf, SaidIn

LEMMA EmptyFileStore ==
  ASSUME Typed, JobInv, NEW r \in Runs, EmptyFile(r)
  PROVE  \E k \in job[r].todo :
           /\ k \in Exchanges
           /\ store' \in Files /\ held' = held
           /\ store'[job[r].t][k] = Empty
           /\ \A t \in Transcripts, j \in Names :
                t # job[r].t \/ j # k => store'[t][j] = store[t][j]
<1>1. PICK k \in Exchanges : k \in job[r].todo /\ store' = [store EXCEPT ![job[r].t][k] = Empty]
  BY Zenon DEF EmptyFile, IsNext
<1>2. Inside(r) /\ held' = held
  BY DEF EmptyFile, Move, At
<1>3. job[r].t \in Transcripts /\ store \in Files /\ k \in Names /\ Empty \in Texts \cup {Empty}
  BY <1>2, AtWork, NamesExist DEF Typed
<1>4. /\ store' \in Files
      /\ store'[job[r].t][k] = Empty
      /\ \A t \in Transcripts, j \in Names : t # job[r].t \/ j # k => store'[t][j] = store[t][j]
  <2> DEFINE t0 == job[r].t
  <2>1. Writes(store, store', t0, k, Empty) /\ t0 \in Transcripts
    BY <1>1, <1>3 DEF Writes
  <2> HIDE DEF t0
  <2>2. /\ store' \in Files
        /\ store'[t0][k] = Empty
        /\ \A t \in Transcripts, j \in Names : t # t0 \/ j # k => store'[t][j] = store[t][j]
    BY <1>3, <2>1, OneFile
  <2> QED
    BY <2>2 DEF t0
<1> QED
  BY <1>1, <1>2, <1>4

LEMMA FillFileStore ==
  ASSUME Typed, JobInv, NEW r \in Runs, FillFile(r)
  PROVE  \E k \in job[r].todo :
           /\ k \in Exchanges /\ k \in Emitted(job[r].read, job[r].kind, job[r].window)
           /\ k \in DOMAIN job[r].read
           /\ job[r].read[k] \in Nat /\ job[r].read[k] > 0
           /\ SaidIn(job[r].read, k) = job[r].read[k]
           /\ job'[r].todo = job[r].todo \ {k}
           /\ store' \in Files /\ held' \in Wholes
           /\ store'[job[r].t][k] = job[r].read[k]
           /\ held'[job[r].t][k] = job[r].read[k]
           /\ \A t \in Transcripts, j \in Names :
                t # job[r].t \/ j # k => store'[t][j] = store[t][j] /\ held'[t][j] = held[t][j]
<1>1. Inside(r) /\ stage[r] = "fill" /\ JobOf(r)
  BY DEF FillFile, Move, At, JobInv
<1>2. job[r].t \in Transcripts /\ store \in Files /\ held \in Wholes
  BY <1>1, AtWork DEF Typed
<1>3. PICK k \in job[r].todo :
        /\ job'[r].todo = job[r].todo \ {k}
        /\ store' = [store EXCEPT ![job[r].t][k] = job[r].read[k]]
        /\ held' = [held EXCEPT ![job[r].t][k] = job[r].read[k]]
  BY <1>2, FillFileJob
<1>4. /\ k \in Exchanges /\ k \in Names
      /\ k \in Emitted(job[r].read, job[r].kind, job[r].window)
      /\ job[r].read[k] \in Texts /\ job[r].read[k] > 0 /\ k \in DOMAIN job[r].read
      /\ SaidIn(job[r].read, k) = job[r].read[k]
  BY <1>1, EmitFacts
<1>5. job[r].read[k] \in Texts \cup {Empty} /\ job[r].read[k] \in Nat
  BY <1>4, BoundsExist
<1>6. /\ store' \in Files
      /\ store'[job[r].t][k] = job[r].read[k]
      /\ \A t \in Transcripts, j \in Names : t # job[r].t \/ j # k => store'[t][j] = store[t][j]
  <2> DEFINE t0 == job[r].t
             x == job[r].read[k]
  <2>1. Writes(store, store', t0, k, x) /\ t0 \in Transcripts /\ x \in Texts \cup {Empty}
    BY <1>2, <1>3, <1>5 DEF Writes
  <2> HIDE DEF t0, x
  <2>2. /\ store' \in Files
        /\ store'[t0][k] = x
        /\ \A t \in Transcripts, j \in Names : t # t0 \/ j # k => store'[t][j] = store[t][j]
    BY <1>2, <1>4, <2>1, OneFile
  <2> QED
    BY <2>2 DEF t0, x
<1>7. /\ held' \in Wholes
      /\ held'[job[r].t][k] = job[r].read[k]
      /\ \A t \in Transcripts, j \in Names : t # job[r].t \/ j # k => held'[t][j] = held[t][j]
  <2> DEFINE t0 == job[r].t
             x == job[r].read[k]
  <2>1. Writes(held, held', t0, k, x) /\ t0 \in Transcripts /\ x \in Texts
    BY <1>2, <1>3, <1>4 DEF Writes
  <2> HIDE DEF t0, x
  <2>2. /\ held' \in Wholes
        /\ held'[t0][k] = x
        /\ \A t \in Transcripts, j \in Names : t # t0 \/ j # k => held'[t][j] = held[t][j]
    BY <1>2, <1>4, <2>1, OneWhole
  <2> QED
    BY <2>2 DEF t0, x
<1> QED
  BY <1>3, <1>4, <1>5, <1>6, <1>7

(* What a sweep deletes is a file that is whole and has a hashed body. *)
LEMMA SweepStore ==
  ASSUME Typed, JobInv, NEW r \in Runs, Sweep(r)
  PROVE  /\ store' \in Files /\ held' \in Wholes
         /\ \/ UNCHANGED <<store, held>>
            \/ \E k \in Names \ job[r].names :
                 /\ store[job[r].t][k] \notin {0, Empty}
                 /\ Body(k, store[job[r].t][k]) \in job[r].bodies
                 /\ store'[job[r].t][k] = 0
                 /\ held'[job[r].t][k] = 0
                 /\ \A t \in Transcripts, j \in Names :
                      t # job[r].t \/ j # k =>
                        store'[t][j] = store[t][j] /\ held'[t][j] = held[t][j]
<1>1. Inside(r) /\ stage[r] = "sweep" /\ JobOf(r)
  BY DEF Sweep, At, JobInv
<1>2. job[r].t \in Transcripts /\ store \in Files /\ held \in Wholes
  BY <1>1, AtWork DEF Typed
<1>3. PICK k \in job[r].left :
        /\ store[job[r].t][k] # 0
        /\ \/ /\ store[job[r].t][k] # Empty
              /\ Body(k, store[job[r].t][k]) \in job[r].bodies
              /\ store' = [store EXCEPT ![job[r].t][k] = 0]
              /\ held' = [held EXCEPT ![job[r].t][k] = 0]
           \/ UNCHANGED <<store, held>>
  BY <1>2, SweepJob
<1>4. k \in Names /\ k \notin job[r].names
  BY <1>1 DEF JobOf
<1>5. CASE UNCHANGED <<store, held>>
  BY <1>2, <1>5
<1>6. CASE /\ store[job[r].t][k] # Empty
           /\ Body(k, store[job[r].t][k]) \in job[r].bodies
           /\ store' = [store EXCEPT ![job[r].t][k] = 0]
           /\ held' = [held EXCEPT ![job[r].t][k] = 0]
  <2> DEFINE t0 == job[r].t
  <2>1. /\ 0 \in Texts /\ 0 \in Texts \cup {Empty} /\ t0 \in Transcripts
        /\ Writes(store, store', t0, k, 0)
        /\ Writes(held, held', t0, k, 0)
    BY <1>2, <1>6, BoundsExist DEF Writes
  <2> HIDE DEF t0
  <2>2. /\ store' \in Files
        /\ store'[t0][k] = 0
        /\ \A t \in Transcripts, j \in Names : t # t0 \/ j # k => store'[t][j] = store[t][j]
    BY <1>2, <1>4, <2>1, OneFile
  <2>3. /\ held' \in Wholes
        /\ held'[t0][k] = 0
        /\ \A t \in Transcripts, j \in Names : t # t0 \/ j # k => held'[t][j] = held[t][j]
    BY <1>2, <1>4, <2>1, OneWhole
  <2> QED
    BY <1>3, <1>4, <1>6, <2>2, <2>3 DEF t0
<1> QED
  BY <1>3, <1>5, <1>6

LEMMA ForgetTyped ==
  ASSUME Typed, NEW r \in Runs
  PROVE  Forget(r) \in Job /\ Forget(r) = [NoJob EXCEPT !.window = job[r].window]
<1>1. job[r].window \in Exchanges
  BY DEF Typed, Job
<1> QED
  BY <1>1, NoJobTyped DEF Forget, Job

LEMMA LaunchJob ==
  ASSUME Typed, NEW r \in Runs, LaunchRun(r)
  PROVE  /\ Transcripts # {}
         /\ job' \in [Runs -> Job]
         /\ OthersKeep(r)
         /\ job[r] = NoJob
         /\ job'[r].t \in Transcripts
         /\ job'[r].stamps = stamps
         /\ job'[r].wrote = 0
<1>1. PICK t \in Transcripts, kind \in Kinds, w \in Exchanges :
        job' = [job EXCEPT ![r] = [NoJob EXCEPT !.t = t, !.kind = kind,
                                                !.window = w, !.stamps = stamps]]
  BY DEF LaunchRun
<1> DEFINE new == [NoJob EXCEPT !.t = t, !.kind = kind, !.window = w, !.stamps = stamps]
<1>2. /\ new \in Job /\ new.t = t /\ new.stamps = stamps /\ new.wrote = 0
  BY NoJobTyped DEF Typed, Job, NoJob
<1>3. job' = [job EXCEPT ![r] = new]
  BY <1>1
<1>4. job[r] = NoJob /\ job \in [Runs -> Job]
  BY DEF LaunchRun, Launch, Goto, Typed
<1> HIDE DEF new
<1> QED
  BY <1>2, <1>3, <1>4 DEF OthersKeep

LEMMA WorkTyped ==
  ASSUME Typed, JobInv, NEW r \in Runs, Work(r)
  PROVE  /\ store' \in Files /\ held' \in Wholes /\ index' \in Files
         /\ stamps' \in [Transcripts -> Transcript \cup {NoStamp}]
         /\ job' \in [Runs -> Job] /\ OthersKeep(r)
         /\ faults' \in Nat /\ overlap' = overlap /\ transcript' = transcript
<1>1. Inside(r)
  BY WorkIsInside
<1>2. pc[r] # "new" /\ job[r].t \in Transcripts /\ job[r] \in Job
  BY <1>1, AtWork
<1>3. CASE Measure(r)
  BY <1>2, <1>3, MeasureJob DEF Measure, Typed
<1>4. CASE Extract(r)
  BY <1>2, <1>4, ExtractJob DEF Extract, Typed
<1>5. CASE LeaveFile(r)
  BY <1>2, <1>5, LeaveFileJob DEF LeaveFile, Typed
<1>6. CASE EmptyFile(r)
  <2>1. store' \in Files
    BY <1>6, EmptyFileStore
  <2> QED
    BY <1>6, <2>1 DEF EmptyFile, Typed, OthersKeep
<1>7. CASE FillFile(r)
  <2>1. store' \in Files /\ held' \in Wholes
    BY <1>7, FillFileStore
  <2> QED
    BY <1>2, <1>7, <2>1, FillFileJob DEF FillFile, Typed
<1>8. CASE Sweep(r)
  <2>1. store' \in Files /\ held' \in Wholes
    BY <1>8, SweepStore
  <2> QED
    BY <1>2, <1>8, <2>1, SweepJob DEF Sweep, Typed
<1>9. CASE HashEmitted(r)
  BY <1>2, <1>9, HashJob DEF HashEmitted, Typed
<1>10. CASE ListOrphans(r)
  BY <1>2, <1>10, ListJob DEF ListOrphans, Typed
<1>11. CASE SweepDone(r)
  BY <1>2, <1>11, SweepDoneJob DEF SweepDone, Typed
<1>12. CASE Load(r)
  BY <1>12, LoadJob DEF Load, Typed
<1>13. CASE EmitDone(r) \/ SkipPrune(r) \/ SweepFails(r) \/ Decide(r)
  BY <1>13 DEF EmitDone, SkipPrune, SweepFails, Decide, Typed, OthersKeep
<1>14. CASE Publish(r)
  BY <1>2, <1>14 DEF Publish, Typed, OthersKeep, Job
<1>15. CASE Fail(r)
  BY <1>15 DEF Fail, Typed, OthersKeep
<1>16. CASE TruncateStamps(r)
  BY <1>16 DEF TruncateStamps, Typed, OthersKeep, NoStamps
<1>17. CASE WriteStamps(r)
  <2> DEFINE old == job[r].stamps
             size == job[r].size
             t0 == job[r].t
  <2>1. old \in [Transcripts -> Transcript \cup {NoStamp}] /\ size \in Transcript
    BY <1>2 DEF Job
  <2>2. stamps' = [old EXCEPT ![t0] = size]
    BY <1>17 DEF WriteStamps
  <2> HIDE DEF old, size, t0
  <2>3. stamps' \in [Transcripts -> Transcript \cup {NoStamp}]
    BY <2>1, <2>2
  <2> QED
    BY <1>17, <2>3 DEF WriteStamps, Typed, OthersKeep
<1> QED
  BY <1>3, <1>4, <1>5, <1>6, <1>7, <1>8, <1>9, <1>10, <1>11, <1>12, <1>13, <1>14, <1>15,
     <1>16, <1>17 DEF Work

LEMMA TypedNext ==
  ASSUME Typed, JobInv, TypeOK, [CaptureNext]_vars
  PROVE  Typed'
<1>0. CASE UNCHANGED vars
  BY <1>0 DEF vars, lockVars, dataVars, Typed
<1> SUFFICES ASSUME CaptureNext PROVE Typed'
  BY <1>0
<1>1. \A r \in Runs : pc'[r] = "new" => pc[r] = "new"
  BY CaptureStepIsLockStep, StartsOnce DEF lockVars
<1>2. ASSUME NEW t \in Transcripts, Ask(t) \/ Reply(t)
      PROVE  Typed'
  BY <1>2, TalkTyped DEF Ask, Reply, lockVars, Typed
<1>3. ASSUME NEW r \in Runs, DeclineRun(r)
      PROVE  Typed'
  BY <1>1, <1>3 DEF DeclineRun, dataVars, Typed
<1>4. ASSUME NEW r \in Runs, LaunchRun(r)
      PROVE  Typed'
  <2>1. pc'[r] # "new"
    BY <1>4 DEF LaunchRun, Launch, Goto, TypeOK
  <2> QED
    BY <1>1, <1>4, <2>1, LaunchJob DEF LaunchRun, Typed, OthersKeep
<1>5. ASSUME NEW r \in Runs, LockOnly(r) \/ EnterLock(r)
      PROVE  Typed'
  <2>1. pc[r] # "new"
    BY <1>5 DEF LockOnly, EnterLock, Create, CreateRefused, ReadHolder, ProbeAlive,
       ProbeDead, Clear, RetryRefused, WritePid, Release, CheckOwner, Remove, Goto
  <2>2. /\ UNCHANGED <<transcript, store, held, index, stamps, job, faults>>
        /\ overlap' \in BOOLEAN
    BY <1>5 DEF LockOnly, EnterLock, dataVars, Typed
  <2> QED
    BY <1>1, <2>1, <2>2 DEF Typed
<1>6. ASSUME NEW r \in Runs, Work(r)
      PROVE  Typed'
  <2>1. UNCHANGED lockVars /\ pc[r] # "new"
    BY <1>6, WorkLeavesLock, WorkIsInside, AtWork
  <2> QED
    BY <1>6, <2>1, WorkTyped DEF lockVars, Typed, OthersKeep
<1>7. ASSUME NEW r \in Runs, LeaveTry(r) \/ Kill(r)
      PROVE  Typed'
  <2>1. pc[r] # "new"
    BY <1>7 DEF LeaveTry, Finish, Kill, Crash, Running, Ended, Goto
  <2>2. /\ UNCHANGED <<transcript, store, held, index, stamps, overlap>>
        /\ faults' \in Nat
        /\ job' = [job EXCEPT ![r] = Forget(r)] \/ job' = job
    BY <1>7 DEF LeaveTry, Kill, Typed
  <2>3. Forget(r) \in Job
    BY ForgetTyped
  <2>4. job' \in [Runs -> Job] /\ OthersKeep(r)
    BY <2>2, <2>3 DEF Typed, OthersKeep
  <2> QED
    BY <1>1, <2>1, <2>2, <2>4 DEF Typed, OthersKeep
<1> QED
  BY <1>2, <1>3, <1>4, <1>5, <1>6, <1>7 DEF CaptureNext

LEMMA ContinuesOrder ==
  /\ \A s \in Transcript : Continues(s, s)
  /\ \A s, u, v \in Transcript : Continues(s, u) /\ Continues(u, v) => Continues(s, v)
<1>1. ASSUME NEW s \in Transcript
      PROVE  Continues(s, s)
  BY BoundsExist DEF Transcript, Continues
<1>2. ASSUME NEW s \in Transcript, NEW u \in Transcript, NEW v \in Transcript,
             Continues(s, u), Continues(u, v)
      PROVE  Continues(s, v)
  <2>1. Len(s) \in Nat /\ Len(u) \in Nat /\ Len(v) \in Nat
    BY DEF Transcript
  <2>2. /\ \A k \in 1..Len(s) : s[k] \in Nat
        /\ \A k \in 1..Len(u) : u[k] \in Nat
        /\ \A k \in 1..Len(v) : v[k] \in Nat
    BY BoundsExist DEF Transcript
  <2> QED
    BY <1>2, <2>1, <2>2 DEF Continues
<1> QED
  BY <1>1, <1>2

LEMMA ContinuesSays ==
  ASSUME NEW s \in Transcript, NEW u \in Transcript, Continues(s, u), NEW k \in Exchanges
  PROVE  SaidIn(s, k) \in Nat /\ SaidIn(u, k) \in Nat /\ SaidIn(s, k) <= SaidIn(u, k)
<1>1. /\ Len(s) \in Nat /\ Len(u) \in Nat
      /\ DOMAIN s = 1..Len(s) /\ DOMAIN u = 1..Len(u)
  BY DEF Transcript
<1>2. /\ \A i \in 1..Len(s) : s[i] \in Nat
      /\ \A i \in 1..Len(u) : u[i] \in Nat
  BY BoundsExist DEF Transcript
<1>3. k \in 1..Len(s) => k \in 1..Len(u) /\ s[k] <= u[k]
  BY <1>1 DEF Continues
<1> QED
  BY <1>1, <1>2, <1>3 DEF SaidIn

(* Nothing a run holds becomes untrue when the session goes on. *)
LEMMA JobKept ==
  ASSUME Typed, Typed', OverlapInv, NEW r \in Runs, JobOf(r),
         \A t \in Transcripts : Continues(transcript[t], transcript'[t]),
         stage'[r] = stage[r], job'[r] = job[r]
  PROVE  JobOf(r)'
<1>1. /\ job[r] \in Job
      /\ \A t \in Transcripts : transcript[t] \in Transcript /\ transcript'[t] \in Transcript
  BY DEF Typed
<1>2. CASE stage[r] \notin HasRead \cup {"extract"}
  BY <1>2 DEF JobOf, HasRead
<1>3. CASE stage[r] \in HasRead \cup {"extract"}
  <2>1. pc[r] # "new"
    BY <1>3 DEF OverlapInv, StageFollowsPc, Outside, HasRead
  <2>2. job[r].t \in Transcripts
    BY <2>1, StartedHasTranscript
  <2>3. job[r].size \in Transcript /\ job[r].read \in Transcript /\ job[r].built \in Files
    BY <1>1 DEF Job
  <2>4. Continues(job[r].size, transcript'[job[r].t])
    BY <1>1, <1>3, <2>2, <2>3, ContinuesOrder DEF JobOf
  <2>5. stage[r] \in HasRead => Continues(job[r].read, transcript'[job[r].t])
    BY <1>1, <2>2, <2>3, ContinuesOrder DEF JobOf
  <2>6. stage[r] = "publish" =>
          \A t \in Transcripts, k \in Exchanges :
            job[r].built[t][k] <= SaidIn(transcript'[t], k)
    <3> SUFFICES ASSUME stage[r] = "publish", NEW t \in Transcripts, NEW k \in Exchanges
                 PROVE  job[r].built[t][k] <= SaidIn(transcript'[t], k)
      OBVIOUS
    <3>1. job[r].built[t][k] <= SaidIn(transcript[t], k)
      BY DEF JobOf, NotAhead
    <3>2. job[r].built[t][k] \in Int
      BY <2>3, FilesHold, NamesExist
    <3> QED
      BY <1>1, <3>1, <3>2, ContinuesSays
  <2> QED
    BY <2>4, <2>5, <2>6 DEF JobOf, NotAhead
<1> QED
  BY <1>2, <1>3

LEMMA NotAheadKept ==
  ASSUME Typed, Typed', \A t \in Transcripts : Continues(transcript[t], transcript'[t]),
         NEW files, files \in Files \/ files \in Wholes, NotAhead(files)
  PROVE  \A t \in Transcripts, k \in Exchanges : files[t][k] <= SaidIn(transcript'[t], k)
<1> SUFFICES ASSUME NEW t \in Transcripts, NEW k \in Exchanges
             PROVE  files[t][k] <= SaidIn(transcript'[t], k)
  OBVIOUS
<1>1. files[t][k] <= SaidIn(transcript[t], k) /\ files[t][k] \in Int
  <2>1. k \in Names /\ files[t][k] <= SaidIn(transcript[t], k)
    BY NamesExist DEF NotAhead
  <2>2. CASE files \in Files
    BY <2>1, <2>2, FilesHold
  <2>3. CASE files \in Wholes
    BY <2>1, <2>3, FilesHold
  <2> QED
    BY <2>1, <2>2, <2>3
<1>2. transcript[t] \in Transcript /\ transcript'[t] \in Transcript
  BY DEF Typed
<1> QED
  BY <1>1, <1>2, ContinuesSays

LEMMA TalkContinues ==
  ASSUME Typed, Typed', NEW t \in Transcripts, Ask(t) \/ Reply(t)
  PROVE  \A u \in Transcripts : Continues(transcript[u], transcript'[u])
<1>1. \A u \in Transcripts : transcript[u] \in Transcript /\ transcript'[u] \in Transcript
  BY DEF Typed
<1>2. /\ Len(transcript[t]) \in Nat /\ Len(transcript'[t]) \in Nat
      /\ \A k \in 1..Len(transcript[t]) : transcript[t][k] \in Nat
      /\ \A k \in 1..Len(transcript'[t]) : transcript'[t][k] \in Nat
  BY <1>1, BoundsExist DEF Transcript
<1>3. Continues(transcript[t], transcript'[t])
  BY <1>2, TalkTyped DEF Continues
<1> QED
  BY <1>1, <1>3, TalkTyped, ContinuesOrder

LEMMA WorkJob ==
  ASSUME Typed, Typed', OverlapInv, JobInv, NEW r \in Runs, Work(r)
  PROVE  JobOf(r)' /\ StoreInv' /\ NotAhead(index)'
<1>1. /\ Inside(r) /\ job[r].t \in Transcripts /\ job[r] \in Job
      /\ job'[r] \in Job /\ store \in Files /\ store' \in Files
      /\ stage \in [Runs -> Stages]
  BY WorkIsInside, AtWork DEF Typed, OverlapInv
<1>2. /\ JobOf(r) /\ StoreInv /\ NotAhead(store) /\ NotAhead(held) /\ NotAhead(index)
      /\ WholeOrEmpty
  BY DEF JobInv, StoreInv
<1>3. transcript[job[r].t] \in Transcript /\ job[r].read \in Transcript
  BY <1>1 DEF Typed, Job
<1>4. transcript' = transcript
  BY WorkTyped
<1>5. \A t \in Transcripts, k \in Exchanges : SaidIn(transcript[t], k) \in Nat
  BY BoundsExist DEF Typed, Transcript, SaidIn
<1>6. ASSUME UNCHANGED <<store, held>>
      PROVE  StoreInv'
  BY <1>2, <1>4, <1>6 DEF StoreInv, NotAhead, WholeOrEmpty
<1>7. ASSUME UNCHANGED index
      PROVE  NotAhead(index)'
  BY <1>2, <1>4, <1>7 DEF NotAhead
<1>8. ASSUME stage[r] \in {"emit", "fill"}, stage'[r] \in {"emit", "fill"},
             job'[r].todo \subseteq job[r].todo,
             Same(r, {"t", "kind", "window", "size", "names", "read"})
      PROVE  JobOf(r)'
  BY <1>2, <1>4, <1>8 DEF JobOf, HasRead, Same
<1>9. ASSUME stage[r] \in HasRead \ {"emit", "fill"}, stage'[r] \in HasRead \ {"emit", "fill", "publish"},
             Same(r, {"t", "kind", "window", "size", "names", "read", "todo"}),
             stage'[r] = "sweep" => job'[r].left \subseteq Names \ job[r].names
      PROVE  JobOf(r)'
  BY <1>2, <1>4, <1>9 DEF JobOf, HasRead, Same
<1>10. ASSUME stage'[r] \in {"finally", "gone"}
       PROVE  JobOf(r)'
  BY <1>10 DEF JobOf, HasRead
<1>11. CASE Measure(r)
  <2>1. stage'[r] = "extract" /\ job'[r].size = transcript[job[r].t] /\ job'[r].t = job[r].t
    BY <1>1, <1>11, MeasureJob DEF Measure, Move, Same
  <2>2. JobOf(r)'
    BY <1>3, <1>4, <2>1, ContinuesOrder DEF JobOf, HasRead
  <2> QED
    BY <1>6, <1>7, <1>11, <2>2 DEF Measure
<1>12. CASE Extract(r)
  <2>1. stage'[r] = "emit" /\ stage[r] = "extract"
    BY <1>1, <1>12 DEF Extract, Move, At
  <2>2. /\ job'[r].read = transcript[job[r].t]
        /\ job'[r].names = ExchangesOf(transcript[job[r].t])
        /\ job'[r].todo = Emitted(transcript[job[r].t], job[r].kind, job[r].window)
        /\ job'[r].t = job[r].t /\ job'[r].kind = job[r].kind
        /\ job'[r].window = job[r].window /\ job'[r].size = job[r].size
    BY <1>1, <1>12, ExtractJob DEF Same
  <2>3. Continues(job[r].size, transcript[job[r].t])
    BY <1>2, <2>1 DEF JobOf
  <2>4. JobOf(r)'
    BY <1>3, <1>4, <2>1, <2>2, <2>3, ContinuesOrder DEF JobOf, HasRead
  <2> QED
    BY <1>6, <1>7, <1>12, <2>4 DEF Extract
<1>13. CASE LeaveFile(r)
  <2>1. /\ stage[r] = "emit" /\ stage' = stage /\ UNCHANGED <<store, held, index>>
        /\ Same(r, {"t", "kind", "window", "size", "names", "read"})
        /\ job'[r].todo \subseteq job[r].todo
    BY <1>1, <1>13, LeaveFileJob DEF LeaveFile, At, Same
  <2> QED
    BY <1>6, <1>7, <1>8, <2>1
<1>14. CASE EmptyFile(r)
  <2>1. stage[r] = "emit" /\ stage'[r] = "fill" /\ UNCHANGED <<job, index>>
    BY <1>1, <1>14 DEF EmptyFile, Move, At
  <2>2. JobOf(r)'
    BY <1>8, <2>1 DEF Same
  <2>3. PICK k \in job[r].todo :
          /\ k \in Exchanges
          /\ held' = held
          /\ store'[job[r].t][k] = Empty
          /\ \A t \in Transcripts, j \in Names :
               t # job[r].t \/ j # k => store'[t][j] = store[t][j]
    BY <1>14, EmptyFileStore
  <2>4. WholeOrEmpty' /\ NotAhead(held)'
    BY <1>2, <1>4, <2>3 DEF WholeOrEmpty, NotAhead
  <2>5. ASSUME NEW t \in Transcripts, NEW j \in Exchanges
        PROVE  store'[t][j] <= SaidIn(transcript'[t], j)
    BY <1>2, <1>4, <1>5, <2>3, NamesExist DEF NotAhead
  <2> QED
    BY <1>7, <2>1, <2>2, <2>4, <2>5 DEF StoreInv, NotAhead
<1>15. CASE FillFile(r)
  <2>1. stage[r] = "fill" /\ stage'[r] = "emit" /\ UNCHANGED index
    BY <1>1, <1>15 DEF FillFile, Move, At
  <2>2. PICK k \in job[r].todo :
          /\ k \in Exchanges
          /\ job'[r].todo = job[r].todo \ {k}
          /\ SaidIn(job[r].read, k) = job[r].read[k]
          /\ store'[job[r].t][k] = job[r].read[k]
          /\ held'[job[r].t][k] = job[r].read[k]
          /\ \A t \in Transcripts, j \in Names :
               t # job[r].t \/ j # k => store'[t][j] = store[t][j] /\ held'[t][j] = held[t][j]
    BY <1>15, FillFileStore
  <2>3. Same(r, {"t", "kind", "window", "size", "names", "read"})
    BY <1>1, <1>15, FillFileJob DEF Same
  <2>4. JobOf(r)'
    BY <1>8, <2>1, <2>2, <2>3
  <2>5. SaidIn(job[r].read, k) <= SaidIn(transcript[job[r].t], k)
    BY <1>2, <1>3, <2>1, <2>2, ContinuesSays DEF JobOf, HasRead
  <2>6. WholeOrEmpty'
    BY <1>2, <2>2 DEF WholeOrEmpty
  <2>7. ASSUME NEW t \in Transcripts, NEW j \in Exchanges
        PROVE  store'[t][j] <= SaidIn(transcript'[t], j) /\ held'[t][j] <= SaidIn(transcript'[t], j)
    BY <1>2, <1>4, <2>2, <2>5, NamesExist DEF NotAhead
  <2> QED
    BY <1>7, <2>1, <2>4, <2>6, <2>7 DEF StoreInv, NotAhead
<1>16. CASE EmitDone(r)
  <2>1. /\ stage[r] = "emit" /\ stage'[r] = "prune" /\ job[r].todo = {}
        /\ UNCHANGED <<store, held, index, job>>
    BY <1>1, <1>16 DEF EmitDone, Move, At
  <2>2. JobOf(r)'
    BY <1>2, <1>4, <2>1 DEF JobOf, HasRead
  <2> QED
    BY <1>6, <1>7, <2>1, <2>2
<1>17. CASE SkipPrune(r) \/ Decide(r) \/ TruncateStamps(r)
  <2>1. /\ stage[r] \in {"prune", "decide", "truncate"}
        /\ stage'[r] \in {"decide", "truncate", "load", "stamp"}
        /\ UNCHANGED <<store, held, index, job>>
    BY <1>1, <1>17 DEF SkipPrune, Decide, TruncateStamps, Move, At
  <2>2. JobOf(r)'
    BY <1>9, <2>1 DEF HasRead, Same
  <2> QED
    BY <1>6, <1>7, <2>1, <2>2
<1>18. CASE HashEmitted(r) \/ ListOrphans(r) \/ SweepDone(r)
  <2>1. /\ stage[r] \in {"prune", "list", "sweep"}
        /\ stage'[r] \in {"list", "sweep", "decide"}
        /\ stage'[r] = "sweep" => ListOrphans(r)
        /\ UNCHANGED <<store, held, index>>
    BY <1>1, <1>18 DEF HashEmitted, ListOrphans, SweepDone, Move, At
  <2>2. Same(r, {"t", "kind", "window", "size", "names", "read", "todo"})
    BY <1>1, <1>18, HashJob, ListJob, SweepDoneJob DEF Same
  <2>3. ListOrphans(r) => job'[r].left \subseteq Names \ job[r].names
    BY <1>1, ListJob
  <2>4. JobOf(r)'
    BY <1>9, <2>1, <2>2, <2>3 DEF HasRead
  <2> QED
    BY <1>6, <1>7, <2>1, <2>4
<1>19. CASE Sweep(r)
  <2>1. stage[r] = "sweep" /\ stage' = stage /\ UNCHANGED index
    BY <1>19 DEF Sweep, At
  <2>2. Same(r, {"t", "kind", "window", "size", "names", "read", "todo"})
    BY <1>1, <1>19, SweepJob DEF Same
  <2>3. job'[r].left \subseteq job[r].left
    BY <1>1, <1>19, SweepJob
  <2>4. job[r].left \subseteq Names \ job[r].names
    BY <1>2, <2>1 DEF JobOf
  <2>5. JobOf(r)'
    BY <1>9, <2>1, <2>2, <2>3, <2>4 DEF HasRead
  <2>6. CASE \E k \in Names \ job[r].names :
               /\ store'[job[r].t][k] = 0
               /\ held'[job[r].t][k] = 0
               /\ \A t \in Transcripts, j \in Names :
                    t # job[r].t \/ j # k =>
                      store'[t][j] = store[t][j] /\ held'[t][j] = held[t][j]
    <3>1. WholeOrEmpty'
      BY <1>2, <2>6 DEF WholeOrEmpty
    <3>2. ASSUME NEW t \in Transcripts, NEW j \in Exchanges
          PROVE  store'[t][j] <= SaidIn(transcript'[t], j) /\ held'[t][j] <= SaidIn(transcript'[t], j)
      BY <1>2, <1>4, <1>5, <2>6, NamesExist DEF NotAhead
    <3> QED
      BY <1>7, <2>1, <2>5, <3>1, <3>2 DEF StoreInv, NotAhead
  <2>7. CASE UNCHANGED <<store, held>>
    BY <1>6, <1>7, <2>1, <2>5, <2>7
  <2> QED
    BY <1>19, <2>6, <2>7, SweepStore
<1>20. CASE Load(r)
  <2>1. /\ stage[r] = "load" /\ stage'[r] = "publish"
        /\ UNCHANGED <<store, held, index>>
    BY <1>1, <1>20 DEF Load, Move, At
  <2>2. /\ job'[r].read = job[r].read /\ job'[r].names = job[r].names
        /\ job'[r].t = job[r].t /\ job'[r].kind = job[r].kind
        /\ job'[r].window = job[r].window /\ job'[r].size = job[r].size
        /\ job'[r].todo = job[r].todo /\ job'[r].built = store
    BY <1>20, LoadJob DEF Same
  <2>3. NotAhead(job[r].built)'
    BY <1>2, <1>4, <2>2 DEF NotAhead
  <2>4. JobOf(r)'
    BY <1>2, <1>4, <2>1, <2>2, <2>3 DEF JobOf, HasRead
  <2> QED
    BY <1>6, <1>7, <2>1, <2>4
<1>21. CASE Publish(r)
  <2>1. /\ stage[r] = "publish" /\ stage'[r] = "truncate"
        /\ UNCHANGED <<store, held, job>> /\ index' = job[r].built
    BY <1>1, <1>21 DEF Publish, Move, At
  <2>2. JobOf(r)'
    BY <1>9, <2>1 DEF HasRead, Same
  <2>3. NotAhead(job[r].built)
    BY <1>2, <2>1 DEF JobOf
  <2> QED
    BY <1>4, <1>6, <2>1, <2>2, <2>3 DEF NotAhead
<1>22. CASE Fail(r) \/ SweepFails(r) \/ WriteStamps(r)
  <2>1. stage'[r] \in {"finally", "gone"} /\ UNCHANGED <<store, held, index>>
    BY <1>1, <1>22 DEF Fail, SweepFails, WriteStamps, Move
  <2> QED
    BY <1>6, <1>7, <1>10, <2>1
<1> QED
  BY <1>11, <1>12, <1>13, <1>14, <1>15, <1>16, <1>17, <1>18, <1>19, <1>20, <1>21, <1>22
  DEF Work

LEMMA JobNext ==
  ASSUME Typed, Typed', OverlapInv, JobInv, [CaptureNext]_vars
  PROVE  JobInv'
<1>0. \A t \in Transcripts : transcript[t] \in Transcript
  BY DEF Typed
<1>00. stage \in [Runs -> Stages] /\ job \in [Runs -> Job]
       /\ store \in Files /\ index \in Files /\ held \in Wholes
  BY DEF OverlapInv, Typed
<1>1. CASE UNCHANGED vars
  BY <1>1 DEF vars, dataVars, JobInv, StoreInv, WholeOrEmpty, JobOf, NotAhead
<1>2. ASSUME NEW t \in Transcripts, Ask(t) \/ Reply(t)
      PROVE  JobInv'
  <2>1. UNCHANGED <<store, held, index, stage, job>>
    BY <1>2 DEF Ask, Reply
  <2>2. \A u \in Transcripts : Continues(transcript[u], transcript'[u])
    BY <1>2, TalkContinues
  <2>3. \A r \in Runs : JobOf(r)'
    BY <2>1, <2>2, JobKept DEF JobInv
  <2>4. NotAhead(store)' /\ NotAhead(held)' /\ NotAhead(index)'
    BY <1>00, <2>1, <2>2, NotAheadKept DEF JobInv, StoreInv, NotAhead
  <2>5. WholeOrEmpty'
    BY <2>1 DEF JobInv, StoreInv, WholeOrEmpty
  <2> QED
    BY <2>3, <2>4, <2>5 DEF JobInv, StoreInv
<1> SUFFICES ASSUME NEW r \in Runs,
                    \/ DeclineRun(r) \/ LaunchRun(r) \/ LockOnly(r) \/ EnterLock(r)
                    \/ Work(r) \/ LeaveTry(r) \/ Kill(r)
             PROVE  JobInv'
  BY <1>1, <1>2 DEF CaptureNext
<1>3. /\ transcript' = transcript
      /\ \A s \in Runs \ {r} : stage'[s] = stage[s] /\ job'[s] = job[s]
  <2>1. CASE Work(r)
    BY <1>00, <2>1, WorkTyped, WorkStage DEF OthersKeep
  <2>2. CASE LaunchRun(r)
    BY <1>00, <2>2 DEF LaunchRun
  <2>3. CASE LeaveTry(r) \/ Kill(r)
    BY <1>00, <2>3 DEF LeaveTry, Kill
  <2> QED
    BY <1>00, <2>1, <2>2, <2>3 DEF DeclineRun, LockOnly, EnterLock, dataVars
<1>4. \A t \in Transcripts : Continues(transcript[t], transcript'[t])
  BY <1>0, <1>3, ContinuesOrder
<1>5. \A s \in Runs \ {r} : JobOf(s)'
  BY <1>3, <1>4, JobKept DEF JobInv
<1>6. CASE Work(r)
  BY <1>5, <1>6, WorkJob DEF JobInv
<1>7. CASE ~ Work(r)
  <2>1. UNCHANGED <<store, held, index>>
    BY <1>7 DEF DeclineRun, LaunchRun, LockOnly, EnterLock, LeaveTry, Kill, dataVars
  <2>2. JobOf(r)'
    <3>1. CASE stage'[r] = stage[r] /\ job'[r] = job[r]
      BY <1>4, <3>1, JobKept DEF JobInv
    <3>2. CASE LaunchRun(r)
      <4>1. stage'[r] = "idle"
        BY <3>2 DEF LaunchRun, Launch, Goto, OverlapInv, StageFollowsPc, Outside
      <4> QED
        BY <4>1 DEF JobOf, HasRead
    <3>3. CASE stage'[r] \in {"measure", "gone"}
      BY <3>3 DEF JobOf, HasRead
    <3> QED
      BY <1>00, <1>7, <3>1, <3>2, <3>3
      DEF DeclineRun, LockOnly, EnterLock, LeaveTry, Kill, dataVars
  <2> QED
    BY <1>3, <1>5, <2>1, <2>2 DEF JobInv, StoreInv, WholeOrEmpty, NotAhead
<1> QED
  BY <1>6, <1>7

LEMMA JobInit == CaptureInit => JobInv
<1> SUFFICES ASSUME CaptureInit PROVE JobInv
  OBVIOUS
<1>1. \A t \in Transcripts, k \in Exchanges : SaidIn(transcript[t], k) \in Nat
  <2>1. Typed
    BY TypedInit
  <2> QED
    BY <2>1, BoundsExist DEF Typed, Transcript, SaidIn
<1>2. \A t \in Transcripts, k \in Exchanges : store[t][k] = 0
  BY CaptureAssumption, NamesExist DEF CaptureInit, Exchanges
<1>3. held = store /\ index = store
  BY DEF CaptureInit
<1>4. NotAhead(store)
  BY <1>1, <1>2 DEF NotAhead
<1>5. \A r \in Runs : JobOf(r)
  BY DEF CaptureInit, JobOf, HasRead
<1> QED
  BY <1>3, <1>4, <1>5 DEF JobInv, StoreInv, WholeOrEmpty, NotAhead

(* What holds of capture whatever fails and whoever overlaps. *)
CaptureInv == TypeOK /\ OwnsUnlessTakeover /\ OverlapInv /\ Typed /\ JobInv

LEMMA CaptureInvariant == CaptureSpec => []CaptureInv
<1>1. CaptureSpec => []TypeOK /\ []OwnsUnlessTakeover
  BY CaptureUsesLock, LockTypeCorrect, LockOwnedUnlessTakeover, PTL DEF UsesLock
<1>2. CaptureInit => OverlapInv /\ Typed /\ JobInv
  BY OverlapInit, TypedInit, JobInit
<1>3. ASSUME TypeOK, OwnsUnlessTakeover, OverlapInv, Typed, JobInv, [CaptureNext]_vars
      PROVE  OverlapInv' /\ Typed' /\ JobInv'
  BY <1>3, OverlapNext, TypedNext, JobNext
<1> QED
  BY <1>1, <1>2, <1>3, PTL DEF CaptureSpec, CaptureInv

-----------------------------------------------------------------------------
(* A timed run never makes a reply searchable while it is being written:    *)
(* what it writes is what the transcript says and goes on saying            *)
(* (auto-ingest.js lines 101-109).                                          *)
THEOREM CaptureTimedWritesFinishedText == CaptureSpec => TimedWritesFinishedText
<1> DEFINE Finished ==
             \A r \in Runs :
               job[r].kind = "timed" /\ job'[r].wrote # job[r].wrote =>
                 LET t == job[r].t IN
                   \A k \in Exchanges : store'[t][k] # store[t][k] =>
                      k < Len(transcript[t]) /\ store'[t][k] = transcript[t][k]
<1>1. ASSUME CaptureInv, [CaptureNext]_vars
      PROVE  [Finished]_vars
  <2>1. CASE UNCHANGED vars
    BY <2>1
  <2>2. ASSUME NEW r \in Runs, FillFile(r)
        PROVE  Finished
    <3>1. /\ Inside(r) /\ stage[r] = "fill" /\ JobOf(r) /\ Typed /\ JobInv
          /\ job[r].t \in Transcripts /\ job[r] \in Job
      BY <1>1, <2>2, AtWork DEF FillFile, Move, At, CaptureInv, JobInv
    <3>2. PICK k \in job[r].todo :
            /\ k \in Exchanges /\ k \in Emitted(job[r].read, job[r].kind, job[r].window)
            /\ k \in DOMAIN job[r].read
            /\ store'[job[r].t][k] = job[r].read[k]
            /\ \A t \in Transcripts, j \in Names :
                 t # job[r].t \/ j # k => store'[t][j] = store[t][j]
      BY <2>2, <3>1, FillFileStore
    <3>4. Continues(job[r].read, transcript[job[r].t])
      BY <3>1 DEF JobOf, HasRead
    <3>5. job[r].read \in Transcript /\ transcript[job[r].t] \in Transcript
      BY <3>1 DEF Job, Typed
    <3>6. job[r].kind = "timed" =>
            k < Len(transcript[job[r].t]) /\ job[r].read[k] = transcript[job[r].t][k]
      <4>1. DOMAIN job[r].read = 1..Len(job[r].read) /\ Len(job[r].read) \in Nat
            /\ Len(transcript[job[r].t]) \in Nat
        BY <3>5 DEF Transcript
      <4>2. job[r].kind = "timed" => k < Len(job[r].read)
        BY <3>2 DEF Emitted
      <4>3. Len(job[r].read) <= Len(transcript[job[r].t])
        BY <3>4 DEF Continues
      <4>4. k < Len(job[r].read) => job[r].read[k] = transcript[job[r].t][k]
        BY <3>2, <3>4, <4>1 DEF Continues
      <4>5. k \in Nat
        BY <3>2, <4>1
      <4> QED BY <4>1, <4>2, <4>3, <4>4, <4>5
    <3>7. OthersKeep(r)
      BY <2>2, <3>1, FillFileJob
    <3>8. ASSUME NEW s \in Runs, job[s].kind = "timed", job'[s].wrote # job[s].wrote,
                 NEW j \in Exchanges, store'[job[s].t][j] # store[job[s].t][j]
          PROVE  j < Len(transcript[job[s].t]) /\ store'[job[s].t][j] = transcript[job[s].t][j]
      <4>1. s = r
        BY <3>7, <3>8 DEF OthersKeep
      <4>2. j = k
        BY <3>1, <3>2, <3>8, <4>1, NamesExist
      <4> QED
        BY <3>2, <3>6, <3>8, <4>1, <4>2
    <3> QED
      BY <3>8
  <2>3. ASSUME NEW r \in Runs, Sweep(r)
        PROVE  Finished
    <3>1. Typed /\ job[r].t \in Transcripts
      BY <1>1, <2>3, AtWork DEF Sweep, At, CaptureInv
    <3>2. OthersKeep(r) /\ job'[r].wrote = job[r].wrote
      BY <2>3, <3>1, SweepJob DEF Same
    <3> QED
      BY <3>2 DEF OthersKeep
  <2>4. CASE job' = job \/ store' = store
    BY <2>4
  <2> QED
    BY <1>1, <2>1, <2>2, <2>3, <2>4 DEF CaptureNext, Ask, Reply, DeclineRun, LaunchRun,
       LockOnly, EnterLock, Work, Measure, Extract, LeaveFile, EmptyFile, EmitDone, SkipPrune,
       HashEmitted, ListOrphans, SweepFails, SweepDone, Decide, Load, Publish,
       Fail, TruncateStamps, WriteStamps, LeaveTry, Kill, dataVars
<1>2. CaptureSpec => [][CaptureNext]_vars
  BY PTL DEF CaptureSpec
<1> QED
  BY <1>1, <1>2, CaptureInvariant, PTL DEF TimedWritesFinishedText

-----------------------------------------------------------------------------
(* As long as no two runs were inside together, the run inside is the only  *)
(* one that writes: what the memories say only grows, the index follows the *)
(* store, and what a stamp or a run's copy of the stamps covers stays       *)
(* covered.                                                                 *)

Below(f, g) == \A t \in Transcripts, k \in Exchanges : f[t][k] <= g[t][k]

(* The exchanges of a stamped size the run that stamps it has written. *)
Reach(s) == IF "timed" \in Kinds THEN Len(s) - 1 ELSE Len(s)

Covers(t, s) == s # NoStamp => \A k \in 1..Reach(s) : s[k] <= held[t][k]

Alone == \A r, s \in Runs : Inside(r) /\ Inside(s) => r = s

WritesForward(r) ==
  Inside(r) =>
    /\ stage[r] \in {"emit", "fill", "prune", "list", "sweep"} =>
         \A k \in Exchanges : held[job[r].t][k] <= SaidIn(job[r].read, k)
    /\ stage[r] \in HasRead =>
         \A k \in Emitted(job[r].read, job[r].kind, job[r].window) \ job[r].todo :
            job[r].read[k] <= store[job[r].t][k]
    /\ stage[r] \in {"list", "sweep"} => job[r].bodies \subseteq Evidence(r)
    /\ stage[r] = "publish" => job[r].built = store

StampsCover == ~Windowed => \A t \in Transcripts :
                              /\ Covers(t, stamps[t])
                              /\ \A r \in Runs : Covers(t, job[r].stamps[t])

QuietInv == ~overlap => /\ Alone
                        /\ \A r \in Runs : WritesForward(r)
                        /\ StampsCover

(* With no failure and no kill either, the index says what the store says   *)
(* except while a run that wrote something has not published it; of a run   *)
(* that only deleted, the number of files tells.                            *)
Shrunk == \A t \in Transcripts, k \in Names : store[t][k] \in {index[t][k], 0}

IndexFollows(r) ==
  Inside(r) =>
    /\ stage[r] \in {"measure", "extract", "truncate", "stamp", "finally"} => index = store
    /\ stage[r] \in {"emit", "prune", "list"} /\ job[r].wrote = 0 => index = store
    /\ stage[r] \in {"sweep", "decide"} /\ job[r].wrote = 0 => Shrunk
    /\ stage[r] \in Extracting \cup {"decide"} => job[r].before = FileCount(index)
    /\ stage[r] = "sweep" => \A k \in job[r].left : store[job[r].t][k] # 0
    /\ stage[r] = "publish" => job[r].built = store

RestInv == ~overlap /\ faults = 0 => /\ \A r \in Runs : pc[r] # "dead"
                                     /\ IndexCurrentAtRest
                                     /\ \A r \in Runs : IndexFollows(r)

(* Who is inside after a step. *)
LEMMA InsideNext ==
  ASSUME CaptureInv, NEW r \in Runs
  PROVE  /\ DeclineRun(r) \/ LaunchRun(r) \/ LockOnly(r) =>
              stage' = stage /\ \A s \in Runs : Inside(s)' <=> Inside(s)
         /\ EnterLock(r) => /\ Inside(r)' /\ ~Inside(r) /\ stage'[r] = "measure"
                            /\ \A s \in Runs \ {r} : Inside(s)' <=> Inside(s)
         /\ LeaveTry(r) => /\ ~Inside(r)' /\ Inside(r) /\ stage[r] = "finally"
                           /\ \A s \in Runs \ {r} : Inside(s)' <=> Inside(s)
         /\ Kill(r) => /\ \A s \in Runs \ {r} : Inside(s)' <=> Inside(s)
                       /\ Inside(r)' => /\ Inside(r) /\ stage' = stage /\ job' = job
                                        /\ stage[r] \in Extracting
         /\ Work(r) => /\ Inside(r)
                       /\ \A s \in Runs \ {r} : Inside(s)' <=> Inside(s)
<1>0. pc \in [Runs -> PCs] /\ stage \in [Runs -> Stages] /\ StageFollowsPc
  BY DEF CaptureInv, TypeOK, OverlapInv
<1>1. ASSUME DeclineRun(r) \/ LaunchRun(r) \/ LockOnly(r)
      PROVE  stage' = stage /\ \A s \in Runs : Inside(s)' <=> Inside(s)
  BY <1>0, <1>1 DEF DeclineRun, LaunchRun, LockOnly, dataVars, Decline, Launch, Create,
     CreateRefused, ReadHolder, ProbeAlive, ProbeDead, Clear, RetryRefused, Release,
     CheckOwner, Remove, Goto, Inside
<1>2. ASSUME EnterLock(r)
      PROVE  /\ Inside(r)' /\ ~Inside(r) /\ stage'[r] = "measure"
             /\ \A s \in Runs \ {r} : Inside(s)' <=> Inside(s)
  BY <1>0, <1>2 DEF EnterLock, WritePid, Goto, Inside
<1>3. ASSUME LeaveTry(r)
      PROVE  /\ ~Inside(r)' /\ Inside(r) /\ stage[r] = "finally"
             /\ \A s \in Runs \ {r} : Inside(s)' <=> Inside(s)
  BY <1>0, <1>3 DEF LeaveTry, Finish, Goto, Inside
<1>4. ASSUME Kill(r)
      PROVE  /\ \A s \in Runs \ {r} : Inside(s)' <=> Inside(s)
             /\ Inside(r)' => /\ Inside(r) /\ stage' = stage /\ job' = job
                              /\ stage[r] \in Extracting
  <2>1. pc' = [pc EXCEPT ![r] = "dead"] /\ pc[r] \notin {"new", "done", "skipped", "dead"}
    BY <1>4 DEF Kill, Crash, Running, Ended
  <2>2. \/ stage' = [stage EXCEPT ![r] = "gone"]
        \/ stage' = stage /\ job' = job /\ stage[r] \in Extracting
    BY <1>4 DEF Kill
  <2> QED
    BY <1>0, <2>1, <2>2 DEF PCs, StageFollowsPc, Outside, Extracting, Inside
<1>5. ASSUME Work(r)
      PROVE  Inside(r) /\ \A s \in Runs \ {r} : Inside(s)' <=> Inside(s)
  BY <1>0, <1>5, WorkLeavesLock, WorkStage DEF lockVars, Inside
<1> QED
  BY <1>1, <1>2, <1>3, <1>4, <1>5

(* A sweep deletes no exchange of the transcript then: a file the run would *)
(* not emit is not there, or was never filled.                              *)
LEMMA SweepsOldFiles ==
  ASSUME Typed, JobInv, NEW r \in Runs, WritesForward(r), Sweep(r)
  PROVE  \A t \in Transcripts, k \in Exchanges :
           store'[t][k] = store[t][k] /\ held'[t][k] = held[t][k]
<1>1. Inside(r) /\ stage[r] = "sweep" /\ JobOf(r) /\ WholeOrEmpty
  BY DEF Sweep, At, JobInv, StoreInv
<1>2. job[r] \in Job /\ job[r].t \in Transcripts /\ held \in Wholes
  BY <1>1, AtWork DEF Typed
<1>3. /\ job[r].names = ExchangesOf(job[r].read)
      /\ \A k \in Exchanges : held[job[r].t][k] <= SaidIn(job[r].read, k)
  BY <1>1 DEF JobOf, HasRead, WritesForward
<1>4. \A k \in Exchanges : k \in DOMAIN job[r].read => job[r].read[k] \in Nat
  BY <1>2, BoundsExist DEF Job, Transcript
<1>5. \A k \in Exchanges : held[job[r].t][k] \in Nat
  BY <1>2, FilesHold, NamesExist
<1>6. \A k \in Exchanges \ job[r].names : held[job[r].t][k] = 0
  BY <1>3, <1>4, <1>5 DEF ExchangesOf, SaidIn
<1>7. \A k \in Exchanges \ job[r].names : store[job[r].t][k] \in {0, Empty}
  BY <1>1, <1>2, <1>6, NamesExist DEF WholeOrEmpty
<1>8. CASE UNCHANGED <<store, held>>
  BY <1>8
<1>9. CASE \E k \in Names \ job[r].names :
             /\ store[job[r].t][k] \notin {0, Empty}
             /\ \A t \in Transcripts, j \in Names :
                  t # job[r].t \/ j # k =>
                    store'[t][j] = store[t][j] /\ held'[t][j] = held[t][j]
  BY <1>7, <1>9, NamesExist
<1> QED
  BY <1>8, <1>9, SweepStore

(* The evidence is the body of a file that is still there.                  *)
LEMMA EvidenceStays ==
  ASSUME Typed, JobInv, NEW r \in Runs, Sweep(r), job[r].bodies \subseteq Evidence(r),
         NEW b \in job[r].bodies
  PROVE  \E j \in job[r].names : store'[job[r].t][j] # 0 /\ Body(j, store'[job[r].t][j]) = b
<1>1. Inside(r) /\ stage[r] = "sweep"
  BY DEF Sweep, At
<1>2. job[r] \in Job /\ job[r].t \in Transcripts
  BY <1>1, AtWork DEF Typed
<1>3. PICK j \in job[r].names : store[job[r].t][j] # 0 /\ Body(j, store[job[r].t][j]) = b
  BY DEF Evidence
<1>4. j \in Names
  BY <1>2, NamesExist DEF Job
<1>5. store'[job[r].t][j] = store[job[r].t][j]
  BY <1>2, <1>4, SweepStore
<1> QED
  BY <1>3, <1>5

(* A step of work only adds to what the memories say, and the run inside    *)
(* stays right about what it has written.                                   *)
LEMMA QuietWork ==
  ASSUME CaptureInv, Typed', QuietInv, ~overlap, NEW r \in Runs, Work(r)
  PROVE  Below(held, held') /\ WritesForward(r)'
<1>1. /\ Inside(r) /\ job[r].t \in Transcripts /\ job[r] \in Job /\ job'[r] \in Job
      /\ store \in Files /\ store' \in Files /\ held \in Wholes /\ held' \in Wholes
      /\ Typed /\ OverlapInv /\ JobInv /\ JobOf(r) /\ NotAhead(held) /\ WholeOrEmpty
      /\ stage \in [Runs -> Stages]
  BY WorkIsInside, AtWork DEF CaptureInv, Typed, OverlapInv, JobInv, StoreInv
<1>2. WritesForward(r)
  BY DEF QuietInv
<1>3. \A t \in Transcripts, k \in Exchanges :
        store[t][k] \in Int /\ held[t][k] \in Nat /\ held'[t][k] \in Nat
  BY <1>1, FilesHold, NamesExist
<1>4. held' = held => Below(held, held')
  BY <1>3 DEF Below
<1>5. Emitted(job[r].read, job[r].kind, job[r].window) \subseteq Exchanges
  BY <1>1, EmittedTyped DEF Job
<1>6. ASSUME stage'[r] \in {"extract", "finally", "gone"}
      PROVE  WritesForward(r)'
  BY <1>6 DEF WritesForward, HasRead
<1>7. ASSUME UNCHANGED <<store, held>>, stage[r] \in HasRead,
             stage'[r] \in HasRead \ {"list", "sweep", "publish"},
             stage'[r] \in {"emit", "prune"} => stage[r] = "emit",
             stage'[r] # "fill",
             Same(r, {"t", "kind", "window", "read", "todo"})
      PROVE  WritesForward(r)'
  BY <1>1, <1>2, <1>7 DEF WritesForward, HasRead, Same
<1>8. CASE Measure(r) \/ Fail(r) \/ SweepFails(r) \/ WriteStamps(r)
  <2>1. stage'[r] \in {"extract", "finally", "gone"} /\ UNCHANGED <<store, held>>
    BY <1>1, <1>8 DEF Measure, Fail, SweepFails, WriteStamps, Move
  <2> QED
    BY <1>4, <1>6, <2>1
<1>9. CASE Extract(r)
  <2>1. stage'[r] = "emit" /\ UNCHANGED <<store, held>>
    BY <1>1, <1>9 DEF Extract, Move
  <2>2. /\ job'[r].read = transcript[job[r].t]
        /\ job'[r].todo = Emitted(transcript[job[r].t], job[r].kind, job[r].window)
        /\ job'[r].t = job[r].t /\ job'[r].kind = job[r].kind
        /\ job'[r].window = job[r].window
    BY <1>1, <1>9, ExtractJob DEF Same
  <2>3. WritesForward(r)'
    BY <1>1, <2>1, <2>2 DEF WritesForward, HasRead, NotAhead
  <2> QED
    BY <1>4, <2>1, <2>3
<1>10. CASE LeaveFile(r)
  <2>1. stage[r] = "emit" /\ stage' = stage /\ UNCHANGED <<store, held>>
    BY <1>10 DEF LeaveFile, At
  <2>2. PICK k \in job[r].todo :
          job'[r].todo = job[r].todo \ {k} /\ store[job[r].t][k] = job[r].read[k]
    BY <1>1, <1>10, LeaveFileJob
  <2>3. /\ job'[r].read = job[r].read /\ job'[r].t = job[r].t /\ job'[r].kind = job[r].kind
        /\ job'[r].window = job[r].window
    BY <1>1, <1>10, LeaveFileJob DEF Same
  <2>4. k \in Exchanges
    BY <1>1, <2>1, EmitFacts
  <2>5. \A j \in Emitted(job[r].read, job[r].kind, job[r].window) \ job'[r].todo :
          job[r].read[j] <= store[job[r].t][j]
    BY <1>1, <1>2, <1>3, <2>1, <2>2, <2>4 DEF WritesForward, HasRead
  <2>6. \A j \in Exchanges : held[job[r].t][j] <= SaidIn(job[r].read, j)
    BY <1>1, <1>2, <2>1 DEF WritesForward
  <2>7. WritesForward(r)'
    BY <2>1, <2>3, <2>5, <2>6 DEF WritesForward, HasRead
  <2> QED
    BY <1>4, <2>1, <2>7
<1>11. CASE EmptyFile(r)
  <2>1. stage[r] = "emit" /\ stage'[r] = "fill" /\ UNCHANGED <<held, job>>
    BY <1>1, <1>11 DEF EmptyFile, Move, At
  <2>2. PICK k \in job[r].todo :
          \A t \in Transcripts, j \in Names :
            t # job[r].t \/ j # k => store'[t][j] = store[t][j]
    BY <1>1, <1>11, EmptyFileStore
  <2>3. \A j \in Emitted(job[r].read, job[r].kind, job[r].window) \ job[r].todo :
          store'[job[r].t][j] = store[job[r].t][j]
    BY <1>1, <1>5, <2>2, NamesExist
  <2>4. \A j \in Emitted(job[r].read, job[r].kind, job[r].window) \ job[r].todo :
          job[r].read[j] <= store'[job[r].t][j]
    BY <1>1, <1>2, <2>1, <2>3 DEF WritesForward, HasRead
  <2>5. \A j \in Exchanges : held[job[r].t][j] <= SaidIn(job[r].read, j)
    BY <1>1, <1>2, <2>1 DEF WritesForward
  <2>6. WritesForward(r)'
    BY <2>1, <2>4, <2>5 DEF WritesForward, HasRead
  <2> QED
    BY <1>4, <2>1, <2>6
<1>12. CASE FillFile(r)
  <2>1. stage[r] = "fill" /\ stage'[r] = "emit"
    BY <1>1, <1>12 DEF FillFile, Move, At
  <2>2. PICK k \in job[r].todo :
          /\ k \in Exchanges
          /\ job[r].read[k] \in Nat
          /\ SaidIn(job[r].read, k) = job[r].read[k]
          /\ job'[r].todo = job[r].todo \ {k}
          /\ store'[job[r].t][k] = job[r].read[k]
          /\ held'[job[r].t][k] = job[r].read[k]
          /\ \A t \in Transcripts, j \in Names :
               t # job[r].t \/ j # k => store'[t][j] = store[t][j] /\ held'[t][j] = held[t][j]
    BY <1>1, <1>12, FillFileStore
  <2>3. /\ job'[r].read = job[r].read /\ job'[r].t = job[r].t /\ job'[r].kind = job[r].kind
        /\ job'[r].window = job[r].window
    BY <1>1, <1>12, FillFileJob DEF Same
  <2>4. /\ \A j \in Exchanges : held[job[r].t][j] <= SaidIn(job[r].read, j)
        /\ \A j \in Emitted(job[r].read, job[r].kind, job[r].window) \ job[r].todo :
              job[r].read[j] <= store[job[r].t][j]
    BY <1>1, <1>2, <2>1 DEF WritesForward, HasRead
  <2>5. Below(held, held')
    <3> SUFFICES ASSUME NEW t \in Transcripts, NEW j \in Exchanges
                 PROVE  held[t][j] <= held'[t][j]
      BY DEF Below
    <3>1. CASE t = job[r].t /\ j = k
      BY <2>2, <2>4, <3>1
    <3>2. CASE t # job[r].t \/ j # k
      BY <1>3, <2>2, <3>2, NamesExist
    <3> QED
      BY <3>1, <3>2
  <2>6. \A j \in Exchanges : held'[job[r].t][j] <= SaidIn(job[r].read, j)
    BY <1>1, <2>2, <2>4, NamesExist
  <2>7. \A j \in Emitted(job[r].read, job[r].kind, job[r].window) \ job'[r].todo :
          job[r].read[j] <= store'[job[r].t][j]
    <3> SUFFICES ASSUME NEW j \in Emitted(job[r].read, job[r].kind, job[r].window) \ job'[r].todo
                 PROVE  job[r].read[j] <= store'[job[r].t][j]
      OBVIOUS
    <3>1. CASE j = k
      BY <2>2, <3>1
    <3>2. CASE j # k
      <4>1. store'[job[r].t][j] = store[job[r].t][j]
        BY <1>1, <1>5, <2>2, <3>2, NamesExist
      <4> QED
        BY <2>2, <2>4, <3>2, <4>1
    <3> QED
      BY <3>1, <3>2
  <2>8. WritesForward(r)'
    BY <2>1, <2>3, <2>6, <2>7 DEF WritesForward
  <2> QED
    BY <2>5, <2>8
<1>13. CASE EmitDone(r) \/ SkipPrune(r) \/ Decide(r) \/ TruncateStamps(r)
  <2>1. /\ stage[r] \in HasRead /\ stage'[r] \in HasRead \ {"emit", "fill", "list", "sweep", "publish"}
        /\ stage'[r] = "prune" => stage[r] = "emit"
        /\ UNCHANGED <<job, store, held>>
    BY <1>1, <1>13 DEF EmitDone, SkipPrune, Decide, TruncateStamps, Move, At, HasRead
  <2> QED
    BY <1>4, <1>7, <2>1 DEF Same
<1>14. CASE SweepDone(r)
  <2>1. stage[r] = "sweep" /\ stage'[r] = "decide" /\ UNCHANGED <<store, held>>
    BY <1>1, <1>14 DEF SweepDone, Move, At
  <2>2. Same(r, {"t", "kind", "window", "read", "todo"})
    BY <1>1, <1>14, SweepDoneJob DEF Same
  <2> QED
    BY <1>4, <1>7, <2>1, <2>2 DEF HasRead
<1>15. CASE HashEmitted(r) \/ ListOrphans(r)
  <2>1. /\ stage[r] \in {"prune", "list"} /\ stage'[r] \in {"list", "sweep"}
        /\ UNCHANGED <<store, held>>
        /\ stage[r] = "prune" => HashEmitted(r)
        /\ stage[r] = "list" => ListOrphans(r)
    BY <1>1, <1>15 DEF HashEmitted, ListOrphans, Move, At
  <2>2. Same(r, {"t", "kind", "window", "names", "read", "todo"})
    BY <1>1, <1>15, HashJob, ListJob DEF Same
  <2>3. Evidence(r)' = Evidence(r)
    BY <2>1, <2>2 DEF Evidence, Same
  <2>4. job'[r].bodies \subseteq Evidence(r)
    <3>1. CASE stage[r] = "prune"
      BY <1>1, <2>1, <3>1, HashJob
    <3>2. CASE stage[r] = "list"
      <4>1. job'[r].bodies = job[r].bodies
        BY <1>1, <2>1, <3>2, ListJob DEF Same
      <4> QED
        BY <1>1, <1>2, <3>2, <4>1 DEF WritesForward
    <3> QED
      BY <2>1, <3>1, <3>2
  <2>5. /\ \A j \in Exchanges : held[job[r].t][j] <= SaidIn(job[r].read, j)
        /\ \A j \in Emitted(job[r].read, job[r].kind, job[r].window) \ job[r].todo :
              job[r].read[j] <= store[job[r].t][j]
    BY <1>1, <1>2, <2>1 DEF WritesForward, HasRead
  <2>6. WritesForward(r)'
    BY <2>1, <2>2, <2>3, <2>4, <2>5 DEF WritesForward, HasRead, Same
  <2> QED
    BY <1>4, <2>1, <2>6
<1>16. CASE Sweep(r)
  <2>1. stage[r] = "sweep" /\ stage' = stage
    BY <1>16 DEF Sweep, At
  <2>2. \A t \in Transcripts, k \in Exchanges :
          store'[t][k] = store[t][k] /\ held'[t][k] = held[t][k]
    BY <1>1, <1>2, <1>16, SweepsOldFiles
  <2>3. /\ job'[r].read = job[r].read /\ job'[r].t = job[r].t /\ job'[r].kind = job[r].kind
        /\ job'[r].window = job[r].window /\ job'[r].todo = job[r].todo
        /\ job'[r].names = job[r].names /\ job'[r].bodies = job[r].bodies
    BY <1>1, <1>16, SweepJob DEF Same
  <2>4. job[r].bodies \subseteq Evidence(r)'
    <3> SUFFICES ASSUME NEW b \in job[r].bodies PROVE b \in Evidence(r)'
      OBVIOUS
    <3>1. job[r].bodies \subseteq Evidence(r)
      BY <1>1, <1>2, <2>1 DEF WritesForward
    <3>2. PICK j \in job[r].names :
            store'[job[r].t][j] # 0 /\ Body(j, store'[job[r].t][j]) = b
      BY <1>1, <1>16, <3>1, EvidenceStays
    <3> QED
      BY <2>3, <3>2 DEF Evidence
  <2>5. /\ \A j \in Exchanges : held[job[r].t][j] <= SaidIn(job[r].read, j)
        /\ \A j \in Emitted(job[r].read, job[r].kind, job[r].window) \ job[r].todo :
              job[r].read[j] <= store[job[r].t][j]
    BY <1>1, <1>2, <2>1 DEF WritesForward, HasRead
  <2>6. \A j \in Exchanges : held'[job[r].t][j] <= SaidIn(job[r].read, j)
    BY <1>1, <2>2, <2>5
  <2>7. \A j \in Emitted(job[r].read, job[r].kind, job[r].window) \ job[r].todo :
          job[r].read[j] <= store'[job[r].t][j]
    BY <1>1, <1>5, <2>2, <2>5
  <2>8. WritesForward(r)'
    BY <2>1, <2>3, <2>4, <2>6, <2>7 DEF WritesForward
  <2>9. Below(held, held')
    BY <1>3, <2>2 DEF Below
  <2> QED
    BY <2>8, <2>9
<1>17. CASE Load(r)
  <2>1. stage[r] = "load" /\ stage'[r] = "publish" /\ UNCHANGED <<store, held>>
    BY <1>1, <1>17 DEF Load, Move, At
  <2>2. /\ job'[r].read = job[r].read /\ job'[r].t = job[r].t /\ job'[r].kind = job[r].kind
        /\ job'[r].window = job[r].window /\ job'[r].todo = job[r].todo
        /\ job'[r].built = store
    BY <1>17, <1>1, LoadJob DEF Same
  <2>3. /\ \A k \in Emitted(job[r].read, job[r].kind, job[r].window) \ job[r].todo :
             job[r].read[k] <= store[job[r].t][k]
    BY <1>1, <1>2, <2>1 DEF WritesForward, HasRead
  <2>4. WritesForward(r)'
    BY <2>1, <2>2, <2>3 DEF WritesForward
  <2> QED
    BY <1>4, <2>1, <2>4
<1>18. CASE Publish(r)
  <2>1. stage[r] = "publish" /\ stage'[r] = "truncate" /\ UNCHANGED <<store, held, job>>
    BY <1>1, <1>18 DEF Publish, Move, At
  <2> QED
    BY <1>4, <1>7, <2>1 DEF HasRead, Same
<1> QED
  BY <1>8, <1>9, <1>10, <1>11, <1>12, <1>13, <1>14, <1>15, <1>16, <1>17, <1>18 DEF Work

LEMMA ReachTyped ==
  ASSUME NEW s \in Transcript
  PROVE  \A k \in 1..Reach(s) : k \in 1..Len(s) /\ k \in Exchanges /\ s[k] \in Nat
BY BoundsExist DEF Transcript, Reach, Exchanges

LEMMA CoversKept ==
  ASSUME Typed, Typed', Below(held, held'), NEW t \in Transcripts,
         NEW s \in Transcript \cup {NoStamp}, Covers(t, s)
  PROVE  s # NoStamp => \A k \in 1..Reach(s) : s[k] <= held'[t][k]
<1> SUFFICES ASSUME s # NoStamp, NEW k \in 1..Reach(s)
             PROVE  s[k] <= held'[t][k]
  OBVIOUS
<1>1. k \in Exchanges /\ k \in Names /\ s[k] \in Nat
  BY ReachTyped, NamesExist
<1>2. s[k] <= held[t][k]
  BY DEF Covers
<1>3. held[t][k] <= held'[t][k]
  BY <1>1 DEF Below
<1>4. held \in Wholes /\ held' \in Wholes
  BY DEF Typed
<1>5. held[t][k] \in Nat /\ held'[t][k] \in Nat
  BY <1>1, <1>4, FilesHold
<1> QED
  BY <1>1, <1>2, <1>3, <1>5

(* A run stamps a size whose exchanges it has all written.                  *)
LEMMA StampedIsWritten ==
  ASSUME CaptureInv, NEW r \in Runs, Inside(r), WritesForward(r), stage[r] = "stamp",
         job[r].window = 1, NEW k \in 1..Reach(job[r].size)
  PROVE  /\ job[r].size[k] <= held[job[r].t][k]
         /\ job[r].size[k] > 0 => job[r].size[k] <= store[job[r].t][k]
<1>1. /\ job[r] \in Job /\ job[r].t \in Transcripts /\ store \in Files /\ held \in Wholes
      /\ JobOf(r) /\ WholeOrEmpty
  BY AtWork DEF CaptureInv, Typed, JobInv, StoreInv
<1>2. /\ Continues(job[r].size, job[r].read) /\ job[r].todo = {}
      /\ \A j \in Emitted(job[r].read, job[r].kind, 1) \ job[r].todo :
            job[r].read[j] <= store[job[r].t][j]
  BY <1>1 DEF JobOf, HasRead, WritesForward
<1>3. /\ job[r].size \in Transcript /\ job[r].read \in Transcript
      /\ job[r].kind \in Kinds \cup {"none"}
  BY <1>1 DEF Job
<1>4. k \in 1..Len(job[r].size) /\ k \in Exchanges /\ k \in Names /\ job[r].size[k] \in Nat
  BY <1>3, ReachTyped, NamesExist
<1>5. Len(job[r].size) \in Nat /\ Len(job[r].read) \in Nat
  BY <1>3 DEF Transcript
<1>6. Len(job[r].size) <= Len(job[r].read) /\ job[r].size[k] <= job[r].read[k]
  BY <1>2, <1>4 DEF Continues
<1>7. k \in 1..Len(job[r].read) /\ job[r].read[k] \in Nat
  BY <1>3, <1>4, <1>5, <1>6, BoundsExist DEF Transcript
<1>8. store[job[r].t][k] \in Int /\ held[job[r].t][k] \in Nat
  BY <1>1, <1>4, FilesHold
<1>9. job[r].kind = "timed" => k < Len(job[r].read)
  BY <1>3, <1>4, <1>5, <1>6 DEF Reach
<1>10. CASE job[r].read[k] = 0
  BY <1>4, <1>6, <1>7, <1>8, <1>10
<1>11. CASE job[r].read[k] > 0
  <2>1. k \in ExchangesOf(job[r].read)
    BY <1>3, <1>7, <1>11 DEF ExchangesOf, Transcript
  <2>2. k \in Emitted(job[r].read, job[r].kind, 1)
    BY <1>4, <1>9, <2>1 DEF Emitted
  <2>3. job[r].read[k] <= store[job[r].t][k]
    BY <1>2, <2>2
  <2>4. store[job[r].t][k] # Empty
    BY <1>7, <1>8, <1>11, <2>3, NamesExist
  <2>5. store[job[r].t][k] = held[job[r].t][k]
    BY <1>1, <1>4, <2>4 DEF WholeOrEmpty
  <2> QED
    BY <1>4, <1>6, <1>7, <1>8, <2>3, <2>5
<1> QED
  BY <1>7, <1>10, <1>11

(* A run keeps its window to the end and beyond. *)
LEMMA WindowedStays ==
  ASSUME CaptureInv, [CaptureNext]_vars, Windowed
  PROVE  Windowed'
<1>1. PICK s \in Runs : job[s].window # 1
  BY DEF Windowed
<1>2. Typed /\ JobInv
  BY DEF CaptureInv
<1>3. ASSUME NEW r \in Runs, Work(r)
      PROVE  job'[s].window = job[s].window
  <2>1. job[r].t \in Transcripts
    BY <1>2, <1>3, WorkIsInside, AtWork
  <2>2. CASE Measure(r)
    BY <1>2, <2>1, <2>2, MeasureJob DEF OthersKeep, Same
  <2>3. CASE Extract(r)
    BY <1>2, <2>1, <2>3, ExtractJob DEF OthersKeep, Same
  <2>4. CASE LeaveFile(r) \/ FillFile(r)
    BY <1>2, <2>1, <2>4, LeaveFileJob, FillFileJob DEF OthersKeep, Same
  <2>5. CASE Load(r)
    BY <1>2, <2>1, <2>5, LoadJob DEF OthersKeep, Same
  <2>6. CASE HashEmitted(r) \/ ListOrphans(r)
    BY <1>2, <2>1, <2>6, HashJob, ListJob DEF OthersKeep, Same
  <2>7. CASE Sweep(r) \/ SweepDone(r)
    BY <1>2, <2>1, <2>7, SweepJob, SweepDoneJob DEF OthersKeep, Same
  <2>8. CASE job' = job
    BY <2>8
  <2> QED
    BY <1>3, <2>2, <2>3, <2>4, <2>5, <2>6, <2>7, <2>8 DEF Work, EmptyFile, EmitDone, SkipPrune,
       SweepFails, Decide, Publish, Fail, TruncateStamps, WriteStamps
<1>4. ASSUME NEW r \in Runs, LaunchRun(r)
      PROVE  job'[s].window = job[s].window
  <2>1. NoJob.window = 1
    BY DEF NoJob
  <2> QED
    BY <1>1, <1>2, <1>4, <2>1, LaunchJob DEF OthersKeep
<1>5. ASSUME NEW r \in Runs, LeaveTry(r) \/ Kill(r)
      PROVE  job'[s].window = job[s].window
  <2>1. job' = job \/ job' = [job EXCEPT ![r] = Forget(r)]
    BY <1>5 DEF LeaveTry, Kill
  <2>2. Forget(r).window = job[r].window
    BY DEF Forget, NoJob
  <2> QED
    BY <1>2, <2>1, <2>2 DEF Typed
<1>6. job'[s].window = job[s].window
  BY <1>3, <1>4, <1>5 DEF CaptureNext, Ask, Reply, DeclineRun, LockOnly, EnterLock,
     vars, dataVars
<1> QED
  BY <1>1, <1>6 DEF Windowed

(* A run's copy of the stamps is the one it read, or is gone with it. *)
LEMMA StampsCopied ==
  ASSUME CaptureInv, [CaptureNext]_vars, NEW s \in Runs
  PROVE  job'[s].stamps \in {job[s].stamps, stamps, NoStamps}
<1>2. Typed /\ JobInv
  BY DEF CaptureInv
<1>3. ASSUME NEW r \in Runs, Work(r)
      PROVE  job'[s].stamps = job[s].stamps
  <2>1. job[r].t \in Transcripts
    BY <1>2, <1>3, WorkIsInside, AtWork
  <2>2. CASE Measure(r)
    BY <1>2, <2>1, <2>2, MeasureJob DEF OthersKeep, Same
  <2>3. CASE Extract(r)
    BY <1>2, <2>1, <2>3, ExtractJob DEF OthersKeep, Same
  <2>4. CASE LeaveFile(r) \/ FillFile(r)
    BY <1>2, <2>1, <2>4, LeaveFileJob, FillFileJob DEF OthersKeep, Same
  <2>5. CASE Load(r)
    BY <1>2, <2>1, <2>5, LoadJob DEF OthersKeep, Same
  <2>6. CASE HashEmitted(r) \/ ListOrphans(r)
    BY <1>2, <2>1, <2>6, HashJob, ListJob DEF OthersKeep, Same
  <2>7. CASE Sweep(r) \/ SweepDone(r)
    BY <1>2, <2>1, <2>7, SweepJob, SweepDoneJob DEF OthersKeep, Same
  <2>8. CASE job' = job
    BY <2>8
  <2> QED
    BY <1>3, <2>2, <2>3, <2>4, <2>5, <2>6, <2>7, <2>8 DEF Work, EmptyFile, EmitDone, SkipPrune,
       SweepFails, Decide, Publish, Fail, TruncateStamps, WriteStamps
<1>4. ASSUME NEW r \in Runs, LaunchRun(r)
      PROVE  job'[s].stamps \in {job[s].stamps, stamps}
  BY <1>2, <1>4, LaunchJob DEF OthersKeep
<1>5. ASSUME NEW r \in Runs, LeaveTry(r) \/ Kill(r)
      PROVE  job'[s].stamps \in {job[s].stamps, NoStamps}
  <2>1. job' = job \/ job' = [job EXCEPT ![r] = Forget(r)]
    BY <1>5 DEF LeaveTry, Kill
  <2>2. Forget(r).stamps = NoStamps
    BY DEF Forget, NoJob
  <2> QED
    BY <1>2, <2>1, <2>2 DEF Typed
<1> QED
  BY <1>3, <1>4, <1>5 DEF CaptureNext, Ask, Reply, DeclineRun, LockOnly, EnterLock,
     vars, dataVars

LEMMA StampsNext ==
  ASSUME CaptureInv, Typed', QuietInv, ~overlap, [CaptureNext]_vars, Below(held, held')
  PROVE  StampsCover'
<1> DEFINE Covered(t, s) == s # NoStamp => \A k \in 1..Reach(s) : s[k] <= held'[t][k]
<1> SUFFICES ASSUME ~Windowed', NEW t \in Transcripts
             PROVE  /\ Covered(t, stamps'[t])
                    /\ \A r \in Runs : Covered(t, job'[r].stamps[t])
  BY DEF StampsCover, Covers
<1>1. ~Windowed /\ Typed
  BY WindowedStays DEF CaptureInv
<1>2. /\ Covers(t, stamps[t])
      /\ \A r \in Runs : Covers(t, job[r].stamps[t])
  BY <1>1 DEF QuietInv, StampsCover
<1>3. /\ stamps[t] \in Transcript \cup {NoStamp}
      /\ \A r \in Runs : job[r].stamps[t] \in Transcript \cup {NoStamp}
  BY <1>1 DEF Typed, Job
<1>4. /\ Covered(t, stamps[t])
      /\ \A r \in Runs : Covered(t, job[r].stamps[t])
  BY <1>1, <1>2, <1>3, CoversKept
<1>5. Covered(t, NoStamps[t])
  BY DEF NoStamps
<1>6. ASSUME NEW r \in Runs, WriteStamps(r)
      PROVE  Covered(t, stamps'[t])
  <2>1. /\ stage[r] = "stamp" /\ Inside(r)
        /\ stamps' = [job[r].stamps EXCEPT ![job[r].t] = job[r].size]
    BY <1>6 DEF WriteStamps, Move, At
  <2>2. job[r] \in Job /\ WritesForward(r) /\ job[r].window = 1 /\ job[r].t \in Transcripts
    BY <1>1, <2>1, AtWork DEF Typed, QuietInv, Windowed
  <2>3. Covers(job[r].t, job[r].size)
    BY <2>1, <2>2, StampedIsWritten DEF Covers
  <2>4. Covered(job[r].t, job[r].size)
    BY <1>1, <2>2, <2>3, CoversKept DEF Job
  <2>5. job[r].stamps \in [Transcripts -> Transcript \cup {NoStamp}]
    BY <2>2 DEF Job
  <2>6. stamps'[t] = IF t = job[r].t THEN job[r].size ELSE job[r].stamps[t]
    BY <2>1, <2>5
  <2> QED
    BY <1>4, <2>4, <2>6
<1>7. ASSUME NEW r \in Runs, Work(r)
      PROVE  Covered(t, stamps'[t])
  <2>1. CASE WriteStamps(r)
    BY <1>6, <2>1
  <2>2. CASE TruncateStamps(r)
    BY <1>5, <2>2 DEF TruncateStamps
  <2>3. CASE stamps' = stamps
    BY <1>4, <2>3
  <2> QED
    BY <1>7, <2>1, <2>2, <2>3 DEF Work, Measure, Extract, LeaveFile, EmptyFile, FillFile,
       EmitDone, SkipPrune, HashEmitted, ListOrphans, Sweep, SweepFails, SweepDone, Decide,
       Load, Publish, Fail
<1>8. Covered(t, stamps'[t])
  BY <1>4, <1>7 DEF CaptureNext, Ask, Reply, DeclineRun, LaunchRun, LockOnly, EnterLock,
     LeaveTry, Kill, vars, dataVars
<1>9. \A r \in Runs : Covered(t, job'[r].stamps[t])
  BY <1>4, <1>5, StampsCopied
<1> QED
  BY <1>8, <1>9

LEMMA QuietNext ==
  ASSUME CaptureInv, CaptureInv', QuietInv, [CaptureNext]_vars
  PROVE  QuietInv' /\ (~overlap' => Below(held, held'))
<1> SUFFICES ASSUME ~overlap' PROVE QuietInv' /\ Below(held, held')
  BY DEF QuietInv
<1>1. /\ Typed /\ Typed' /\ stage \in [Runs -> Stages] /\ job \in [Runs -> Job]
      /\ held \in Wholes
  BY DEF CaptureInv, OverlapInv, Typed
<1>2. Below(held, held)
  BY <1>1, FilesHold, NamesExist DEF Below
<1>3. CASE UNCHANGED vars
  BY <1>2, <1>3 DEF vars, lockVars, dataVars, QuietInv, Alone, Inside, WritesForward, Evidence,
     Below, StampsCover, Covers, Windowed
<1>4. ASSUME NEW t \in Transcripts, Ask(t) \/ Reply(t)
      PROVE  QuietInv' /\ Below(held, held')
  BY <1>2, <1>4 DEF Ask, Reply, lockVars, QuietInv, Alone, Inside, WritesForward, Evidence,
     Below, StampsCover, Covers, Windowed
<1> SUFFICES ASSUME NEW r \in Runs,
                    \/ DeclineRun(r) \/ LaunchRun(r) \/ LockOnly(r) \/ EnterLock(r)
                    \/ Work(r) \/ LeaveTry(r) \/ Kill(r)
             PROVE  QuietInv' /\ Below(held, held')
  BY <1>3, <1>4 DEF CaptureNext
<1>5. ~overlap /\ (EnterLock(r) => \A s \in Runs \ {r} : ~Inside(s))
  <2>1. EnterLock(r) => ~overlap /\ \A s \in Runs \ {r} : ~Inside(s)
    BY Zenon DEF EnterLock
  <2>2. Work(r) => overlap' = overlap
    BY WorkTyped DEF CaptureInv
  <2>3. DeclineRun(r) \/ LaunchRun(r) \/ LockOnly(r) \/ LeaveTry(r) \/ Kill(r) => overlap' = overlap
    BY DEF DeclineRun, LaunchRun, LockOnly, LeaveTry, Kill, dataVars
  <2> QED
    BY <2>1, <2>2, <2>3
<1>6. /\ Alone
      /\ \A s \in Runs : WritesForward(s)
  BY <1>5 DEF QuietInv
<1>7. Alone'
  BY <1>5, <1>6, InsideNext DEF Alone
<1>8. CASE Work(r)
  <2>1. Below(held, held') /\ WritesForward(r)'
    BY <1>1, <1>5, <1>8, QuietWork
  <2>2. \A s \in Runs \ {r} : WritesForward(s)'
    BY <1>6, <1>8, InsideNext DEF Alone, WritesForward
  <2>3. StampsCover'
    BY <1>1, <1>5, <1>8, <2>1, StampsNext DEF CaptureNext
  <2> QED
    BY <1>7, <2>1, <2>2, <2>3 DEF QuietInv
<1>9. CASE ~Work(r)
  <2>1. UNCHANGED <<store, held, index>>
    BY <1>9 DEF DeclineRun, LaunchRun, LockOnly, EnterLock, LeaveTry, Kill, dataVars
  <2>2. Below(held, held')
    BY <1>2, <2>1
  <2>3. ASSUME NEW s \in Runs, stage'[s] = stage[s], job'[s] = job[s], Inside(s)' => Inside(s)
        PROVE  WritesForward(s)'
    BY <1>6, <2>1, <2>3 DEF WritesForward, Evidence
  <2>4. ASSUME NEW s \in Runs
        PROVE  WritesForward(s)'
    <3>1. CASE s = r /\ EnterLock(r)
      BY <3>1, InsideNext DEF WritesForward, HasRead
    <3>2. CASE s = r /\ LaunchRun(r)
      <4>1. pc[r] = "new"
        BY <3>2 DEF LaunchRun, Launch, Goto
      <4>2. ~Inside(r)
        BY <4>1 DEF Inside
      <4> QED
        BY <3>2, <4>2, InsideNext DEF WritesForward
    <3>3. CASE s = r /\ (LeaveTry(r) \/ Kill(r))
      <4>1. ~Inside(r)' \/ (Inside(r)' /\ Inside(r) /\ stage' = stage /\ job' = job)
        BY <3>3, InsideNext
      <4> QED
        BY <2>3, <3>3, <4>1 DEF WritesForward
    <3>4. CASE DeclineRun(r) \/ LockOnly(r)
      <4>1. stage'[s] = stage[s] /\ job'[s] = job[s] /\ (Inside(s)' => Inside(s))
        BY <3>4, InsideNext DEF DeclineRun, LockOnly, dataVars
      <4> QED
        BY <2>3, <4>1
    <3>5. CASE s # r
      <4>1. stage'[s] = stage[s] /\ job'[s] = job[s]
        BY <1>1, <1>9, <3>5 DEF DeclineRun, LaunchRun, LockOnly, EnterLock, LeaveTry, Kill,
           dataVars
      <4> QED
        BY <1>9, <2>3, <3>5, <4>1, InsideNext
    <3> QED
      BY <1>9, <3>1, <3>2, <3>3, <3>4, <3>5
  <2>5. StampsCover'
    BY <1>1, <1>5, <2>2, StampsNext DEF CaptureNext
  <2> QED
    BY <1>7, <2>2, <2>4, <2>5 DEF QuietInv
<1> QED
  BY <1>8, <1>9

LEMMA QuietInit == CaptureInit => QuietInv
<1> SUFFICES ASSUME CaptureInit PROVE QuietInv
  OBVIOUS
<1>1. /\ \A r \in Runs : ~Inside(r)
      /\ \A r \in Runs : job[r].stamps = NoStamps
  BY DEF CaptureInit, LockInit, Inside, NoJob
<1>2. StampsCover
  BY <1>1 DEF StampsCover, Covers, CaptureInit, NoStamps
<1> QED
  BY <1>1, <1>2 DEF QuietInv, Alone, WritesForward

LEMMA QuietInvariant == CaptureSpec => []QuietInv
<1>1. ASSUME CaptureInv, CaptureInv', QuietInv, [CaptureNext]_vars
      PROVE  QuietInv'
  BY <1>1, QuietNext
<1> QED
  BY <1>1, CaptureInvariant, QuietInit, PTL DEF CaptureSpec

(* The only code that deletes a memory file deletes copies: what the sweep  *)
(* removes has its body in a file the run keeps, although the evidence was  *)
(* hashed before the files were listed (ingest-transcript.js lines          *)
(* 620-657).                                                                *)
THEOREM CaptureDeletesOnlyCopies == CaptureSpec => DeletesOnlyCopies
<1> DEFINE Kept == ~overlap =>
                     \A t \in Transcripts, k \in Names :
                       store[t][k] # 0 /\ store'[t][k] = 0 =>
                         \E j \in Names \ {k} : Body(j, store'[t][j]) = Body(k, store[t][k])
<1>1. ASSUME CaptureInv, QuietInv, [CaptureNext]_vars
      PROVE  [Kept]_vars
  <2>1. CASE UNCHANGED vars
    BY <2>1
  <2>2. ASSUME NEW r \in Runs, Sweep(r)
        PROVE  Kept
    <3> SUFFICES ASSUME ~overlap, NEW t \in Transcripts, NEW k \in Names,
                        store[t][k] # 0, store'[t][k] = 0
                 PROVE  \E j \in Names \ {k} : Body(j, store'[t][j]) = Body(k, store[t][k])
      OBVIOUS
    <3>1. Inside(r) /\ stage[r] = "sweep" /\ Typed /\ JobInv
      BY <1>1, <2>2 DEF Sweep, At, CaptureInv
    <3>2. job[r].bodies \subseteq Evidence(r)
      BY <1>1, <3>1 DEF QuietInv, WritesForward
    <3>3. t = job[r].t /\ k \notin job[r].names /\ Body(k, store[t][k]) \in job[r].bodies
      BY <2>2, <3>1, SweepStore
    <3>4. PICK j \in job[r].names : Body(j, store'[t][j]) = Body(k, store[t][k])
      BY <2>2, <3>1, <3>2, <3>3, EvidenceStays
    <3>5. j \in Names
      BY <3>1, AtWork, NamesExist DEF Job
    <3> QED
      BY <3>3, <3>4, <3>5
  <2>3. ASSUME NEW r \in Runs, EmptyFile(r) \/ FillFile(r)
        PROVE  \A t \in Transcripts, k \in Names : store'[t][k] = 0 => store[t][k] = 0
    <3>1. Typed /\ JobInv
      BY <1>1 DEF CaptureInv
    <3>2. \E k \in job[r].todo :
             /\ store'[job[r].t][k] # 0
             /\ \A t \in Transcripts, j \in Names :
                  t # job[r].t \/ j # k => store'[t][j] = store[t][j]
      <4>1. CASE EmptyFile(r)
        BY <3>1, <4>1, EmptyFileStore, NamesExist
      <4>2. CASE FillFile(r)
        BY <3>1, <4>2, FillFileStore
      <4> QED
        BY <2>3, <4>1, <4>2
    <3> QED
      BY <3>2
  <2>4. CASE store' = store
    BY <2>4
  <2> QED
    BY <1>1, <2>1, <2>2, <2>3, <2>4 DEF CaptureNext, Ask, Reply, DeclineRun, LaunchRun,
       LockOnly, EnterLock, Work, Measure, Extract, LeaveFile, EmitDone, SkipPrune, HashEmitted,
       ListOrphans, SweepFails, SweepDone, Decide, Load, Publish, Fail, TruncateStamps,
       WriteStamps, LeaveTry, Kill, dataVars
<1>2. CaptureSpec => [][CaptureNext]_vars
  BY PTL DEF CaptureSpec
<1> QED
  BY <1>1, <1>2, CaptureInvariant, QuietInvariant, PTL DEF DeletesOnlyCopies

(* What is covered is in a whole file, or was before a rewrite broke off. *)
LEMMA CoveredIsCaptured ==
  ASSUME CaptureInv, NEW t \in Transcripts, NEW s \in Transcript, s # NoStamp, Covers(t, s),
         NEW k \in 1..Reach(s)
  PROVE  Captured(t, k, s[k])
<1>1. k \in Names
  BY ReachTyped, NamesExist
<1>2. store[t][k] \in {held[t][k], Empty}
  BY <1>1 DEF CaptureInv, JobInv, StoreInv, WholeOrEmpty
<1> QED
  BY <1>2 DEF Covers, Captured

(* When a run is about to stamp, the exchanges its size covers are whole. *)
LEMMA AboutToStamp ==
  ASSUME CaptureInv, QuietInv, ~overlap, ~Windowed, NEW r \in Runs, At(r, "stamp")
  PROVE  /\ job[r].size \in Transcript
         /\ \A k \in ExchangesOf(job[r].size) :
               k \in 1..Reach(job[r].size) => job[r].size[k] <= store[job[r].t][k]
<1>1. Inside(r) /\ stage[r] = "stamp" /\ WritesForward(r) /\ job[r].window = 1
  BY DEF At, QuietInv, Windowed
<1>2. job[r].size \in Transcript
  BY <1>1, AtWork DEF CaptureInv, Job
<1> QED
  BY <1>1, <1>2, StampedIsWritten DEF ExchangesOf

(* A stamp says "this size was captured" (lines 376-377).  As long as no    *)
(* two runs were inside together and none was windowed, every exchange the  *)
(* stamped transcript had finished was captured with its full text.         *)
THEOREM CaptureStampCoversSettled == CaptureSpec => []StampCoversSettled
<1>1. ASSUME CaptureInv, QuietInv, ~overlap, ~Windowed,
             NEW t \in Transcripts, stamps[t] # NoStamp, NEW k \in 1..(Len(stamps[t]) - 1)
      PROVE  Captured(t, k, stamps[t][k])
  <2>1. Covers(t, stamps[t])
    BY <1>1 DEF QuietInv, StampsCover
  <2>2. stamps[t] \in Transcript
    BY <1>1 DEF CaptureInv, Typed
  <2>3. k \in 1..Reach(stamps[t])
    BY <2>2 DEF Transcript, Reach
  <2> QED
    BY <1>1, <2>1, <2>2, <2>3, CoveredIsCaptured
<1>2. ASSUME CaptureInv, QuietInv, ~overlap, ~Windowed, NEW r \in Runs, At(r, "stamp"),
             NEW k \in ExchangesOf(job[r].size) \ {Len(job[r].size)}
      PROVE  job[r].size[k] <= store[job[r].t][k]
  <2>1. job[r].size \in Transcript
    BY <1>2, AboutToStamp
  <2>2. k \in 1..Reach(job[r].size)
    BY <2>1 DEF ExchangesOf, Transcript, Reach
  <2> QED
    BY <1>2, <2>2, AboutToStamp
<1>3. ASSUME CaptureInv, QuietInv
      PROVE  StampCoversSettled
  BY <1>1, <1>2, <1>3 DEF StampCoversSettled
<1> QED
  BY <1>3, CaptureInvariant, QuietInvariant, PTL

(* Where no run is timed, no exchange is deferred: the last one of the      *)
(* stamped size was captured too (lines 376-377).                           *)
THEOREM CaptureStampCoversAll ==
  ASSUME "timed" \notin Kinds
  PROVE  CaptureSpec => []StampCoversAll
<1>1. ASSUME CaptureInv, QuietInv, ~overlap, ~Windowed,
             NEW t \in Transcripts, stamps[t] # NoStamp, NEW k \in DOMAIN stamps[t]
      PROVE  Captured(t, k, stamps[t][k])
  <2>1. Covers(t, stamps[t])
    BY <1>1 DEF QuietInv, StampsCover
  <2>2. stamps[t] \in Transcript
    BY <1>1 DEF CaptureInv, Typed
  <2>3. k \in 1..Reach(stamps[t])
    BY <2>2 DEF Transcript, Reach
  <2> QED
    BY <1>1, <2>1, <2>2, <2>3, CoveredIsCaptured
<1>2. ASSUME CaptureInv, QuietInv, ~overlap, ~Windowed, NEW r \in Runs, At(r, "stamp"),
             NEW k \in ExchangesOf(job[r].size)
      PROVE  job[r].size[k] <= store[job[r].t][k]
  <2>1. job[r].size \in Transcript
    BY <1>2, AboutToStamp
  <2>2. k \in 1..Reach(job[r].size)
    BY <2>1 DEF ExchangesOf, Transcript, Reach
  <2> QED
    BY <1>2, <2>2, AboutToStamp
<1>3. ASSUME CaptureInv, QuietInv
      PROVE  StampCoversAll
  BY <1>1, <1>2, <1>3 DEF StampCoversAll
<1> QED
  BY <1>3, CaptureInvariant, QuietInvariant, PTL

-----------------------------------------------------------------------------
(* The promise: every step of capture is one of CapturePromise, or none. *)
LEMMA SaidIsSaid ==
  \A t \in Transcripts, k \in Exchanges : Promised!Said(t, k) = SaidIn(transcript[t], k)
BY DEF Promised!Said, SaidIn

LEMMA PromiseStep ==
  ASSUME CaptureInv, CaptureInv', QuietInv, QuietInv', [CaptureNext]_vars
  PROVE  [Promised!PromiseNext]_<<transcript, store, held, index, overlap>>
<1>1. /\ Typed /\ Typed' /\ JobInv /\ JobInv' /\ StoreInv'
  BY DEF CaptureInv, JobInv
<1>2. CASE UNCHANGED vars
  BY <1>2 DEF vars, dataVars
<1>3. ASSUME NEW t \in Transcripts, Ask(t) \/ Reply(t)
      PROVE  Promised!PromiseNext
  <2>1. UNCHANGED <<store, held, index, overlap>>
    BY <1>3 DEF Ask, Reply
  <2>2. DOMAIN transcript[t] = 1..Len(transcript[t])
    BY <1>1 DEF Typed, Transcript
  <2>3. Promised!Talk
    BY <1>1, <1>3, <2>1, <2>2, TalkTyped DEF Promised!Talk
  <2> QED
    BY <2>3 DEF Promised!PromiseNext
<1> SUFFICES ASSUME NEW r \in Runs,
                    \/ DeclineRun(r) \/ LaunchRun(r) \/ LockOnly(r) \/ EnterLock(r)
                    \/ Work(r) \/ LeaveTry(r) \/ Kill(r)
             PROVE  [Promised!PromiseNext]_<<transcript, store, held, index, overlap>>
  BY <1>2, <1>3 DEF CaptureNext
<1>4. CASE ~ Work(r) /\ ~ EnterLock(r)
  BY <1>4 DEF DeclineRun, LaunchRun, LockOnly, LeaveTry, Kill, dataVars
<1>5. CASE EnterLock(r)
  <2>1. UNCHANGED <<transcript, store, held, index>> /\ overlap \in BOOLEAN /\ overlap' \in BOOLEAN
    BY <1>1, <1>5 DEF EnterLock, Typed
  <2>2. overlap => overlap'
    BY <1>5, Zenon DEF EnterLock
  <2>3. CASE overlap'
    BY <2>1, <2>3 DEF Promised!Disturb, Promised!PromiseNext
  <2>4. CASE ~overlap'
    BY <2>1, <2>2, <2>4
  <2> QED
    BY <2>3, <2>4
<1>6. CASE Work(r)
  <2>1. transcript' = transcript /\ overlap' = overlap
    BY <1>1, <1>6, WorkTyped
  <2>2. \A t \in Transcripts, k \in Exchanges :
          /\ store'[t][k] \in {held'[t][k], Empty}
          /\ held'[t][k] <= SaidIn(transcript[t], k)
          /\ index'[t][k] <= SaidIn(transcript[t], k)
    BY <1>1, <2>1, NamesExist DEF JobInv, StoreInv, NotAhead, WholeOrEmpty
  <2>3. CASE Publish(r)
    <3>1. store' = store /\ held' = held /\ index' = job[r].built /\ stage[r] = "publish"
          /\ Inside(r)
      BY <2>3 DEF Publish, Move, At
    <3>2. ~overlap => index' = store
      BY <3>1 DEF QuietInv, WritesForward
    <3>3. Promised!Publish
      BY <2>1, <2>2, <3>1, <3>2, SaidIsSaid DEF Promised!Publish
    <3> QED
      BY <3>3 DEF Promised!PromiseNext
  <2>4. CASE index' = index
    <3>1. ~overlap => Below(held, held')
      BY <1>6, <2>1, QuietNext DEF CaptureNext
    <3>2. \A t \in Transcripts, k \in Exchanges : held[t][k] \in Nat /\ held'[t][k] \in Nat
      BY <1>1, FilesHold, NamesExist DEF Typed
    <3>3. Promised!Save
      BY <2>1, <2>2, <2>4, <3>1, <3>2, SaidIsSaid DEF Promised!Save, Below
    <3> QED
      BY <3>3 DEF Promised!PromiseNext
  <2> QED
    BY <1>6, <2>3, <2>4 DEF Work, Measure, Extract, LeaveFile, EmptyFile, FillFile, EmitDone,
       SkipPrune, HashEmitted, ListOrphans, Sweep, SweepFails, SweepDone, Decide, Load,
       Fail, TruncateStamps, WriteStamps
<1> QED
  BY <1>4, <1>5, <1>6

(* Capture keeps its promise: the store follows the transcripts and the     *)
(* index follows the store, through deferral, debounce, failures, kills and *)
(* surviving extractors; a rewrite that breaks off leaves an empty file and *)
(* nothing worse (auto-ingest.js lines 332-386, ingest-transcript.js line   *)
(* 611).                                                                    *)
THEOREM CaptureKeepsPromise == CaptureSpec => KeepsPromise
<1>1. CaptureInit => Promised!PromiseInit
  <2> SUFFICES ASSUME CaptureInit PROVE Promised!PromiseInit
    OBVIOUS
  <2>1. \A t \in Transcripts, k \in Exchanges : store[t][k] = 0
    BY CaptureAssumption, NamesExist DEF CaptureInit, Exchanges
  <2> QED
    BY <2>1 DEF CaptureInit, Promised!PromiseInit
<1>2. CaptureSpec => [][CaptureNext]_vars
  BY PTL DEF CaptureSpec
<1> QED
  BY <1>1, <1>2, PromiseStep, CaptureInvariant, QuietInvariant, PTL
  DEF KeepsPromise, Promised!Promise, CaptureSpec

-----------------------------------------------------------------------------
-----------------------------------------------------------------------------
(* Two files' worth of texts that agree everywhere are the same. *)
LEMMA SameFiles ==
  ASSUME NEW f \in Files, NEW g \in Files,
         \A t \in Transcripts, k \in Names : f[t][k] = g[t][k]
  PROVE  f = g
<1>1. /\ \A t \in Transcripts : f[t] \in [Names -> Texts \cup {Empty}]
      /\ \A t \in Transcripts : g[t] \in [Names -> Texts \cup {Empty}]
  BY DEF Files
<1>2. \A t \in Transcripts : f[t] = g[t]
  BY <1>1
<1> QED
  BY <1>2 DEF Files

(* Files that are only ever deleted, and as many of them as before: none    *)
(* was.                                                                     *)
LEMMA CountTells ==
  ASSUME NEW f \in Files, NEW g \in Files,
         \A t \in Transcripts, k \in Names : f[t][k] \in {g[t][k], 0},
         FileCount(f) = FileCount(g)
  PROVE  f = g
<1> DEFINE places == Transcripts \X Names
           F == {p \in places : f[p[1]][p[2]] # 0}
           G == {p \in places : g[p[1]][p[2]] # 0}
<1>1. IsFiniteSet(Exchanges)
  BY CaptureAssumption, FS_Interval DEF Exchanges
<1>2. IsFiniteSet(Names)
  BY <1>1, CaptureAssumption, FS_Union DEF Names
<1>3. IsFiniteSet(places)
  BY <1>2, CaptureAssumption, FS_Product
<1>4. IsFiniteSet(G)
  <2>1. G \subseteq places
    OBVIOUS
  <2> QED
    BY <1>3, <2>1, FS_Subset
<1>5. F \subseteq G
  OBVIOUS
<1>6. Cardinality(F) = Cardinality(G)
  BY DEF FileCount
<1>7. F = G
  BY <1>4, <1>5, <1>6, FS_Subset
<1>8. ASSUME NEW t \in Transcripts, NEW k \in Names
      PROVE  f[t][k] = g[t][k]
  <2>1. <<t, k>> \in F <=> <<t, k>> \in G
    BY <1>7
  <2>2. f[t][k] # 0 <=> g[t][k] # 0
    BY <2>1
  <2> QED
    BY <2>2
<1> QED
  BY <1>8, SameFiles

LEMMA RestWork ==
  ASSUME CaptureInv, CaptureInv', QuietInv, ~overlap, NEW r \in Runs, Work(r), ~Fail(r),
         IndexFollows(r)
  PROVE  IndexFollows(r)' /\ ~SweepFails(r)
<1>1. /\ Inside(r) /\ job[r].t \in Transcripts /\ job[r] \in Job /\ job'[r] \in Job
      /\ store \in Files /\ store' \in Files /\ index \in Files
      /\ Typed /\ OverlapInv /\ JobInv /\ JobOf(r) /\ WritesForward(r)
      /\ stage \in [Runs -> Stages]
  BY WorkIsInside, AtWork DEF CaptureInv, Typed, OverlapInv, JobInv, QuietInv
<1>2. ~SweepFails(r)
  <2> SUFFICES ASSUME SweepFails(r) PROVE FALSE
    OBVIOUS
  <2>1. stage[r] = "sweep" /\ \E k \in job[r].left : store[job[r].t][k] = 0
    BY DEF SweepFails, Move, At
  <2> QED
    BY <1>1, <2>1 DEF IndexFollows
<1>3. CASE Measure(r)
  <2>1. stage[r] = "measure" /\ stage'[r] = "extract" /\ UNCHANGED <<store, index>>
    BY <1>1, <1>3 DEF Measure, Move, At
  <2>2. job'[r].before = FileCount(store)
    <3>1. job' = [job EXCEPT ![r].size = transcript[job[r].t], ![r].before = FileCount(store)]
      BY <1>3 DEF Measure
    <3>2. job \in [Runs -> Job]
      BY <1>1 DEF Typed
    <3> QED
      BY <3>1, <3>2 DEF Job
  <2>3. index = store
    BY <1>1, <2>1 DEF IndexFollows
  <2> QED
    BY <1>2, <2>1, <2>2, <2>3 DEF IndexFollows
<1>4. CASE Extract(r) \/ LeaveFile(r)
  <2>1. /\ stage[r] \in {"extract", "emit"} /\ stage'[r] = "emit" /\ UNCHANGED <<store, index>>
    BY <1>1, <1>4 DEF Extract, LeaveFile, Move, At
  <2>2. job'[r].before = job[r].before /\ job'[r].wrote = job[r].wrote
    BY <1>1, <1>4, ExtractJob, LeaveFileJob DEF Same
  <2> QED
    BY <1>1, <1>2, <2>1, <2>2 DEF IndexFollows, Extracting
<1>5. CASE EmptyFile(r)
  <2>1. stage[r] = "emit" /\ stage'[r] = "fill" /\ UNCHANGED <<index, job>>
    BY <1>1, <1>5 DEF EmptyFile, Move, At
  <2> QED
    BY <1>1, <1>2, <2>1 DEF IndexFollows, Extracting
<1>6. CASE FillFile(r)
  <2>1. stage[r] = "fill" /\ stage'[r] = "emit" /\ UNCHANGED index
    BY <1>1, <1>6 DEF FillFile, Move, At
  <2>2. job'[r].before = job[r].before /\ job'[r].wrote = job[r].wrote + 1
    BY <1>1, <1>6, FillFileJob DEF Same
  <2>3. job'[r].wrote # 0
    BY <1>1, <2>2 DEF Job
  <2> QED
    BY <1>1, <1>2, <2>1, <2>2, <2>3 DEF IndexFollows, Extracting
<1>7. CASE EmitDone(r) \/ HashEmitted(r)
  <2>1. /\ stage[r] \in {"emit", "prune"} /\ stage'[r] \in {"prune", "list"}
        /\ UNCHANGED <<store, index>>
    BY <1>1, <1>7 DEF EmitDone, HashEmitted, Move, At
  <2>2. job'[r].before = job[r].before /\ job'[r].wrote = job[r].wrote
    BY <1>1, <1>7, HashJob DEF Same, EmitDone
  <2> QED
    BY <1>1, <1>2, <2>1, <2>2 DEF IndexFollows, Extracting
<1>8. ASSUME index = store PROVE Shrunk
  BY <1>8 DEF Shrunk
<1>9. CASE SkipPrune(r)
  <2>1. stage[r] = "prune" /\ stage'[r] = "decide" /\ UNCHANGED <<store, index, job>>
    BY <1>1, <1>9 DEF SkipPrune, Move, At
  <2>2. Shrunk' = Shrunk
    BY <2>1 DEF Shrunk
  <2> QED
    BY <1>1, <1>2, <1>8, <2>1, <2>2 DEF IndexFollows, Extracting
<1>10. CASE ListOrphans(r)
  <2>1. stage[r] = "list" /\ stage'[r] = "sweep" /\ UNCHANGED <<store, index>>
    BY <1>1, <1>10 DEF ListOrphans, Move, At
  <2>2. Shrunk' = Shrunk
    BY <2>1 DEF Shrunk
  <2>3. /\ job'[r].before = job[r].before /\ job'[r].wrote = job[r].wrote /\ job'[r].t = job[r].t
        /\ \A k \in job'[r].left : store[job[r].t][k] # 0
    BY <1>1, <1>10, ListJob DEF Same
  <2> QED
    BY <1>1, <1>2, <1>8, <2>1, <2>2, <2>3 DEF IndexFollows, Extracting
<1>11. CASE Sweep(r)
  <2>1. stage[r] = "sweep" /\ stage' = stage /\ index' = index
    BY <1>11 DEF Sweep, At
  <2>2. job'[r].before = job[r].before /\ job'[r].wrote = job[r].wrote /\ job'[r].t = job[r].t
    BY <1>1, <1>11, SweepJob DEF Same
  <2>3. \A t \in Transcripts, k \in Names : store'[t][k] \in {store[t][k], 0}
    BY <1>1, <1>11, SweepStore
  <2>4. Shrunk => Shrunk'
    BY <2>1, <2>3 DEF Shrunk
  <2>5. \A k \in job'[r].left : store'[job[r].t][k] # 0
    <3>1. PICK k \in job[r].left :
            /\ job'[r].left = job[r].left \ {k}
            /\ \/ store' = [store EXCEPT ![job[r].t][k] = 0]
               \/ store' = store
      BY <1>1, <1>11, SweepJob
    <3>2. job[r].left \subseteq Names
      BY <1>1 DEF Job
    <3>3. \A j \in job[r].left \ {k} : store'[job[r].t][j] = store[job[r].t][j]
      <4>1. CASE store' = [store EXCEPT ![job[r].t][k] = 0]
        <5> DEFINE t0 == job[r].t
        <5>1. 0 \in Texts \cup {Empty} /\ Writes(store, store', t0, k, 0) /\ t0 \in Transcripts
              /\ k \in Names
          BY <1>1, <3>2, <4>1, BoundsExist DEF Writes
        <5> HIDE DEF t0
        <5>2. \A u \in Transcripts, j \in Names : u # t0 \/ j # k => store'[u][j] = store[u][j]
          BY <1>1, <5>1, OneFile
        <5> QED
          BY <1>1, <3>2, <5>2 DEF t0
      <4>2. CASE store' = store
        BY <4>2
      <4> QED
        BY <3>1, <4>1, <4>2
    <3>4. \A j \in job[r].left : store[job[r].t][j] # 0
      BY <1>1, <2>1 DEF IndexFollows
    <3> QED
      BY <3>1, <3>3, <3>4
  <2> QED
    BY <1>1, <1>2, <2>1, <2>2, <2>4, <2>5 DEF IndexFollows, Extracting
<1>12. CASE SweepDone(r)
  <2>1. stage[r] = "sweep" /\ stage'[r] = "decide" /\ UNCHANGED <<store, index>>
    BY <1>1, <1>12 DEF SweepDone, Move, At
  <2>2. Shrunk' = Shrunk
    BY <2>1 DEF Shrunk
  <2>3. job'[r].before = job[r].before /\ job'[r].wrote = job[r].wrote
    BY <1>1, <1>12, SweepDoneJob DEF Same
  <2> QED
    BY <1>1, <1>2, <2>1, <2>2, <2>3 DEF IndexFollows, Extracting
<1>13. CASE Decide(r)
  <2>1. /\ stage[r] = "decide" /\ UNCHANGED <<store, index, job>>
        /\ \/ stage'[r] = "load"
           \/ /\ stage'[r] = "truncate" /\ job[r].wrote = 0
              /\ FileCount(store) = job[r].before
    BY <1>1, <1>13 DEF Decide, At
  <2>2. stage'[r] = "truncate" => index = store
    <3>1. stage'[r] = "truncate" => Shrunk /\ FileCount(store) = FileCount(index)
      BY <1>1, <2>1 DEF IndexFollows
    <3>2. Shrunk => \A t \in Transcripts, k \in Names : store[t][k] \in {index[t][k], 0}
      BY DEF Shrunk
    <3> QED
      BY <1>1, <3>1, <3>2, CountTells
  <2> QED
    BY <1>2, <2>1, <2>2 DEF IndexFollows, Extracting
<1>14. CASE Load(r)
  <2>1. stage'[r] = "publish" /\ UNCHANGED <<store, index>> /\ job'[r].built = store
    BY <1>1, <1>14, LoadJob DEF Load, Move
  <2> QED
    BY <1>2, <2>1 DEF IndexFollows, Extracting
<1>15. CASE Publish(r)
  <2>1. stage[r] = "publish" /\ stage'[r] = "truncate" /\ store' = store /\ index' = job[r].built
    BY <1>1, <1>15 DEF Publish, Move, At
  <2> QED
    BY <1>1, <1>2, <2>1 DEF IndexFollows, Extracting
<1>16. CASE TruncateStamps(r) \/ WriteStamps(r)
  <2>1. /\ stage[r] \in {"truncate", "stamp"} /\ stage'[r] \in {"stamp", "finally"}
        /\ UNCHANGED <<store, index>>
    BY <1>1, <1>16 DEF TruncateStamps, WriteStamps, Move, At
  <2> QED
    BY <1>1, <1>2, <2>1 DEF IndexFollows, Extracting
<1> QED
  BY <1>2, <1>3, <1>4, <1>5, <1>6, <1>7, <1>9, <1>10, <1>11, <1>12, <1>13, <1>14, <1>15, <1>16
  DEF Work

LEMMA RestNext ==
  ASSUME CaptureInv, CaptureInv', QuietInv, QuietInv', RestInv, [CaptureNext]_vars
  PROVE  RestInv'
<1> SUFFICES ASSUME ~overlap', faults' = 0
             PROVE  /\ \A s \in Runs : pc'[s] # "dead"
                    /\ (\A s \in Runs : ~Inside(s)') => index' = store'
                    /\ \A s \in Runs : IndexFollows(s)'
  BY DEF RestInv, IndexCurrentAtRest
<1>1. /\ Typed /\ Typed' /\ stage \in [Runs -> Stages] /\ job \in [Runs -> Job]
      /\ pc \in [Runs -> PCs]
  BY DEF CaptureInv, OverlapInv, Typed, TypeOK
<1>2. ASSUME UNCHANGED vars \/ \E t \in Transcripts : Ask(t) \/ Reply(t)
      PROVE  /\ \A s \in Runs : pc'[s] # "dead"
             /\ (\A s \in Runs : ~Inside(s)') => index' = store'
             /\ \A s \in Runs : IndexFollows(s)'
  <2>1. UNCHANGED <<pc, stage, job, store, index, faults, overlap>>
    BY <1>2 DEF vars, lockVars, dataVars, Ask, Reply
  <2>2. /\ \A s \in Runs : pc[s] # "dead"
        /\ (\A s \in Runs : ~Inside(s)) => index = store
        /\ \A s \in Runs : IndexFollows(s)
    BY <2>1 DEF RestInv, IndexCurrentAtRest
  <2>3. \A s \in Runs : Inside(s)' <=> Inside(s)
    BY <2>1 DEF Inside
  <2>4. FileCount(index)' = FileCount(index) /\ Shrunk' = Shrunk
    BY <2>1 DEF FileCount, Shrunk
  <2>5. \A s \in Runs : IndexFollows(s)'
    BY <2>1, <2>2, <2>3, <2>4 DEF IndexFollows
  <2> QED
    BY <2>1, <2>2, <2>3, <2>5
<1> SUFFICES ASSUME NEW r \in Runs,
                    \/ DeclineRun(r) \/ LaunchRun(r) \/ LockOnly(r) \/ EnterLock(r)
                    \/ Work(r) \/ LeaveTry(r) \/ Kill(r)
             PROVE  /\ \A s \in Runs : pc'[s] # "dead"
                    /\ (\A s \in Runs : ~Inside(s)') => index' = store'
                    /\ \A s \in Runs : IndexFollows(s)'
  BY <1>2 DEF CaptureNext
<1>4. ~overlap /\ (EnterLock(r) => \A s \in Runs \ {r} : ~Inside(s))
  <2>1. EnterLock(r) => ~overlap /\ \A s \in Runs \ {r} : ~Inside(s)
    BY Zenon DEF EnterLock
  <2>2. Work(r) => overlap' = overlap
    BY WorkTyped DEF CaptureInv
  <2>3. DeclineRun(r) \/ LaunchRun(r) \/ LockOnly(r) \/ LeaveTry(r) \/ Kill(r) => overlap' = overlap
    BY DEF DeclineRun, LaunchRun, LockOnly, LeaveTry, Kill, dataVars
  <2> QED
    BY <2>1, <2>2, <2>3
<1>5. ~Kill(r) /\ ~Fail(r) /\ faults = 0
  <2>1. faults \in Nat
    BY <1>1 DEF Typed
  <2>2. ~Kill(r) /\ ~Fail(r)
    BY <2>1 DEF Kill, Fail
  <2> QED
    BY <2>2 DEF DeclineRun, LaunchRun, LockOnly, EnterLock, LeaveTry, dataVars, Work, Measure,
       Extract, LeaveFile, EmptyFile, FillFile, EmitDone, SkipPrune, HashEmitted, ListOrphans,
       Sweep, SweepFails, SweepDone, Decide, Load, Publish, TruncateStamps, WriteStamps
<1>6. /\ \A s \in Runs : pc[s] # "dead"
      /\ (\A s \in Runs : ~Inside(s)) => index = store
      /\ \A s \in Runs : IndexFollows(s)
      /\ Alone
  BY <1>4, <1>5 DEF RestInv, IndexCurrentAtRest, QuietInv
<1>7. \A s \in Runs : pc'[s] # "dead"
  BY <1>1, <1>5, <1>6, WorkLeavesLock DEF lockVars, DeclineRun, LaunchRun, LockOnly, EnterLock,
     LeaveTry, Decline, Launch, Create, CreateRefused, ReadHolder, ProbeAlive, ProbeDead, Clear,
     RetryRefused, WritePid, Release, CheckOwner, Remove, Finish, Goto
<1>8. CASE Work(r)
  <2>1. IndexFollows(r)'
    BY <1>4, <1>5, <1>6, <1>8, RestWork
  <2>2. Inside(r) /\ Inside(r)'
    BY <1>8, WorkIsInside, WorkLeavesLock, <1>6 DEF Inside, lockVars
  <2>3. \A s \in Runs \ {r} : ~Inside(s)'
    BY <1>6, <1>8, <2>2, InsideNext DEF Alone
  <2> QED
    BY <1>7, <2>1, <2>2, <2>3 DEF IndexFollows
<1>9. CASE DeclineRun(r) \/ LaunchRun(r) \/ LockOnly(r)
  <2>1. /\ UNCHANGED <<store, index, stage>>
        /\ \A s \in Runs : Inside(s)' <=> Inside(s)
        /\ \A s \in Runs : Inside(s) => job'[s] = job[s]
    <3>1. LaunchRun(r) => ~Inside(r)
      BY DEF LaunchRun, Launch, Goto, Inside
    <3> QED
      BY <1>1, <1>9, <3>1, InsideNext, LaunchJob DEF OthersKeep, DeclineRun, LaunchRun, LockOnly,
         dataVars
  <2> QED
    <3>1. FileCount(index)' = FileCount(index) /\ Shrunk' = Shrunk
      BY <2>1 DEF FileCount, Shrunk
    <3>2. \A s \in Runs : IndexFollows(s)'
      BY <1>6, <2>1, <3>1 DEF IndexFollows
    <3> QED
      BY <1>6, <1>7, <2>1, <3>2
<1>10. CASE EnterLock(r)
  <2>1. UNCHANGED <<store, index>>
    BY <1>10 DEF EnterLock
  <2>2. \A s \in Runs : ~Inside(s)
    BY <1>4, <1>10, InsideNext
  <2>3. /\ stage'[r] = "measure"
        /\ \A s \in Runs \ {r} : ~Inside(s)'
    BY <1>10, <2>2, InsideNext
  <2> QED
    BY <1>6, <1>7, <2>1, <2>2, <2>3 DEF IndexFollows, Extracting
<1>11. CASE LeaveTry(r)
  <2>1. UNCHANGED <<store, index>> /\ Inside(r) /\ stage[r] = "finally"
    BY <1>11, InsideNext DEF LeaveTry
  <2>2. \A s \in Runs : ~Inside(s)'
    BY <1>6, <1>11, <2>1, InsideNext DEF Alone
  <2> QED
    BY <1>6, <1>7, <2>1, <2>2 DEF IndexFollows
<1> QED
  BY <1>5, <1>8, <1>9, <1>10, <1>11

(* When nobody is at work, the staging index describes the store, rewritten *)
(* files included, unless two runs overlapped or one failed or was killed   *)
(* (auto-ingest.js lines 347-351).                                          *)
THEOREM CaptureIndexCurrentAtRest == CaptureSpec => []IndexCurrentAtRest
<1>1. CaptureInit => RestInv
  BY DEF CaptureInit, LockInit, RestInv, IndexCurrentAtRest, IndexFollows, Inside
<1>2. ASSUME CaptureInv, CaptureInv', QuietInv, QuietInv', RestInv, [CaptureNext]_vars
      PROVE  RestInv'
  BY <1>2, RestNext
<1>3. RestInv => IndexCurrentAtRest
  BY DEF RestInv, IndexCurrentAtRest
<1> QED
  BY <1>1, <1>2, <1>3, CaptureInvariant, QuietInvariant, PTL DEF CaptureSpec
=============================================================================
