--------------------------- MODULE IndexServerProofs ---------------------------
(***************************************************************************)
(* Proofs about the server's indexes, for any number of corpora, queries,  *)
(* jobs, outside builds, edits and faults.                                 *)
(*                                                                         *)
(* The maps INFLIGHT and INDEX_INFLIGHT say exactly who rebuilds what, and *)
(* who waits, waits for the one that is named.  The one thread does not    *)
(* leave a build between its date and the reload, so nobody else of the    *)
(* server can put an index in its place there, nor can a query come that   *)
(* has seen a later one; a build of another process can, and is recorded.  *)
(* So what is read back is what the build had read, or what another        *)
(* process has just put there.                                             *)
(***************************************************************************)
EXTENDS IndexServer, TLAPS

Docs == [Files -> Nat]
Indexes == [builtAt : Nat, docs : Docs, ok : BOOLEAN]

Asked == [pc : {"new", "repair", "wait", "build", "dated", "reload", "answered", "lost"},
          scope : Scopes \cup {None}, idx : Indexes, snap : Docs,
          seen : SUBSET Docs, put : SUBSET Docs, found : Nat, dated : Nat,
          waited : Queries \cup {None}, stamp : {"none", "missing", "stale", "current"}]
Tasks == [pc : {"new", "loop", "build", "dated", "done", "failed", "forgotten"},
          todo : Seq(Scopes), snap : Docs, dated : Nat, built : SUBSET (Scopes \X Nat)]
Outside == [pc : {"new", "build", "dated", "ended"}, scope : Scopes \cup {None},
            snap : Docs, dated : Nat]

(* The shape of the state, without its bounds. *)
Shape == /\ corpus \in [Scopes -> Docs]
         /\ edits \in Nat
         /\ disk \in [Scopes -> Indexes]
         /\ builds \in Nat
         /\ cache \in [Scopes -> Indexes \cup {None}]
         /\ statCache \in [Scopes -> Docs \cup {None}]
         /\ inflight \in [Scopes -> Queries \cup {None}]
         /\ building \in [Scopes -> Jobs \cup {None}]
         /\ query \in [Queries -> Asked]
         /\ job \in [Jobs -> Tasks]
         /\ other \in [Others -> Outside]
         /\ \A o \in Others : other[o].pc \in Building => other[o].scope \in Scopes

(* Who rebuilds an index inline, and who waits for it. *)
InlineInv ==
  /\ \A q \in Queries :
       /\ Repairing(q) => query[q].scope \in Scopes
       /\ query[q].pc \in Building => inflight[query[q].scope] = q
       /\ query[q].pc \in {"new", "repair", "build", "dated"} => query[q].waited = None
       /\ query[q].pc = "wait" => /\ inflight[query[q].scope] # None
                                  /\ query[q].waited = inflight[query[q].scope]
  /\ \A s \in Scopes : inflight[s] # None =>
       query[inflight[s]].pc \in Building /\ query[inflight[s]].scope = s

(* Which job rebuilds an index. *)
JobsInv ==
  /\ \A j \in Jobs : job[j].pc \in Building =>
       job[j].todo # <<>> /\ building[Head(job[j].todo)] = j
  /\ \A s \in Scopes : building[s] # None =>
       job[building[s]].pc \in Building /\ Head(job[building[s]].todo) = s

(* The one thread stays with a build from its date until it is read back.   *)
ThreadInv ==
  /\ \A q, p \in Queries : query[q].pc = "dated" /\ p # q => query[p].pc \notin {"dated", "reload"}
  /\ \A q \in Queries : query[q].pc \in {"dated", "reload"} =>
       \A j \in Jobs : job[j].pc \notin {"loop", "dated"}

(* An index is dated in order, and an answer is no older than the file was  *)
(* when the query came, unless another process has put it there.            *)
NewerInv ==
  /\ \A s \in Scopes : disk[s].builtAt <= builds
  /\ \A o \in Others : other[o].dated <= builds
  /\ \A j \in Jobs : job[j].dated <= builds
  /\ \A q \in Queries :
       /\ query[q].found <= builds /\ query[q].dated <= builds
       /\ query[q].stamp # "missing" =>
            query[q].idx.builtAt >= query[q].found \/ query[q].idx.docs \in query[q].put
       /\ query[q].pc = "reload" =>
            \/ disk[query[q].scope].builtAt >= query[q].found
            \/ disk[query[q].scope].docs \in query[q].put
       /\ query[q].pc = "dated" => \A p \in Queries : query[p].found <= query[q].dated

(* What a query that is to read an index back will find. *)
Finds(q) ==
  LET docs == disk[query[q].scope].docs
      w    == query[q].waited
  IN IF w = None THEN query[q].snap \in query[q].seen /\ docs \in query[q].put \cup {query[q].snap}
     ELSE /\ w \in Queries
          /\ query[w].pc \in {"reload", "answered"}
          /\ docs \in query[q].put \cup {query[w].snap}

(* What an answer without a stamp rests on. *)
Rests(q) ==
  \/ query[q].idx.docs \in query[q].seen \cup query[q].put
  \/ /\ query[q].waited \in Queries
     /\ query[query[q].waited].pc = "answered"
     /\ query[q].idx.docs = query[query[q].waited].snap

AccountedInv ==
  \A q \in Queries :
    /\ Repairing(q) => query[q].stamp # "current" /\ corpus[query[q].scope] \in query[q].seen
    /\ query[q].pc \in Building => query[q].snap \in query[q].seen
    /\ query[q].pc = "reload" => Finds(q)
    /\ query[q].pc = "answered" /\ query[q].stamp = "current" => Rests(q)

(* What a job has built is no newer than the file, and once the job is done *)
(* no copy that the server holds is older, but for what was undercut.       *)
ServedInv ==
  \A j \in Jobs : \A b \in job[j].built \ undercut :
    /\ b[2] <= disk[b[1]].builtAt
    /\ job[j].pc = "done" => cache[b[1]] = None \/ cache[b[1]].builtAt >= b[2]

IndexInv == Shape /\ InlineInv /\ JobsInv /\ ThreadInv /\ NewerInv /\ AccountedInv /\ ServedInv

-----------------------------------------------------------------------------
LEMMA NoFilesIsDocs == NoFiles \in Docs /\ Absent \in Indexes
BY DEF NoFiles, Docs, Absent, Indexes

LEMMA NewShapes == NewQuery \in Asked /\ NewJob \in Tasks /\ NewOther \in Outside
<1>1. NewQuery \in Asked
  BY NoFilesIsDocs DEF NewQuery, Asked
<1>2. NewJob \in Tasks
  BY NoFilesIsDocs DEF NewJob, Tasks
<1>3. NewOther \in Outside
  BY NoFilesIsDocs DEF NewOther, Outside
<1> QED BY <1>1, <1>2, <1>3

(* In the first state nobody has asked and nothing is loaded. *)
LEMMA InitInv == IndexInit => IndexInv
<1> SUFFICES ASSUME IndexInit PROVE IndexInv
  OBVIOUS
<1>1. corpus \in [Scopes -> Docs]
  BY DEF IndexInit, Docs
<1>2. disk \in [Scopes -> Indexes] /\ \A s \in Scopes : disk[s].builtAt <= 1
  <2> DEFINE S == {[builtAt |-> 1, docs |-> corpus[s], ok |-> ok] : s \in Scopes, ok \in BOOLEAN}
  <2>1. disk \in [Scopes -> {Absent} \cup S]
    BY SMT DEF IndexInit
  <2>2. \A x \in S : x \in Indexes /\ x.builtAt = 1
    BY <1>1, <2>1 DEF Indexes
  <2>3. Absent \in Indexes /\ Absent.builtAt = 0
    BY NoFilesIsDocs DEF Absent
  <2>4. \A s \in Scopes : disk[s] \in {Absent} \cup S
    BY <2>1
  <2> HIDE DEF S
  <2> QED BY <2>1, <2>2, <2>3, <2>4
<1>3. Shape
  BY <1>1, <1>2, NewShapes DEF IndexInit, Shape, NewOther, Building
<1>4. InlineInv
  BY DEF IndexInit, InlineInv, Repairing, NewQuery, Building
<1>5. JobsInv /\ ThreadInv
  BY DEF IndexInit, JobsInv, ThreadInv, NewJob, NewQuery, Building
<1>6. NewerInv
  <2>1. /\ builds = 1 /\ \A q \in Queries : query[q] = NewQuery
        /\ \A j \in Jobs : job[j] = NewJob
        /\ \A o \in Others : other[o] = NewOther
    BY DEF IndexInit
  <2>2. /\ NewQuery.found = 0 /\ NewQuery.dated = 0 /\ NewQuery.idx.builtAt = 0
        /\ NewQuery.pc = "new" /\ NewJob.dated = 0 /\ NewOther.dated = 0
    BY DEF NewQuery, Absent, NewJob, NewOther
  <2>3. \A q \in Queries : /\ query[q].found = 0 /\ query[q].dated = 0
                           /\ query[q].idx.builtAt = 0 /\ query[q].pc = "new"
    BY <2>1, <2>2
  <2>4. (\A j \in Jobs : job[j].dated = 0) /\ (\A o \in Others : other[o].dated = 0)
    BY <2>1, <2>2
  <2> QED BY <1>2, <2>1, <2>3, <2>4 DEF NewerInv
<1>7. AccountedInv
  BY DEF IndexInit, AccountedInv, Repairing, NewQuery, Building
<1>8. ServedInv
  BY DEF IndexInit, ServedInv, NewJob
<1> QED BY <1>3, <1>4, <1>5, <1>6, <1>7, <1>8 DEF IndexInv

-----------------------------------------------------------------------------
(* What is renamed into place is there, and what it puts out of the way     *)
(* that is newer is recorded.                                               *)
LEMMA InPlace ==
  ASSUME Shape, NewerInv, NEW s \in Scopes, NEW dated \in Nat, dated <= builds,
         NEW docs \in Docs, Renamed(s, dated, docs)
  PROVE  /\ disk' \in [Scopes -> Indexes]
         /\ disk'[s].builtAt = dated /\ disk'[s].docs = docs
         /\ \A t \in Scopes : /\ t # s => disk'[t] = disk[t]
                              /\ disk'[t].builtAt <= builds
                              /\ \A n \in Nat : n <= disk[t].builtAt =>
                                   n <= disk'[t].builtAt \/ <<t, n>> \in undercut'
         /\ undercut \subseteq undercut'
         /\ UNCHANGED <<corpus, edits, builds>>
<1> DEFINE new == [builtAt |-> dated, docs |-> docs, ok |-> TRUE]
<1>1. disk' = [disk EXCEPT ![s] = new]
      /\ undercut' = undercut \cup ({s} \X ((dated + 1)..disk[s].builtAt))
      /\ UNCHANGED <<corpus, edits, builds>>
  BY DEF Renamed
<1>2. new \in Indexes /\ new.builtAt = dated /\ new.docs = docs
  BY DEF Indexes
<1> HIDE DEF new
<1>3. disk' \in [Scopes -> Indexes] /\ disk'[s] = new
      /\ \A t \in Scopes : t # s => disk'[t] = disk[t]
  BY <1>1, <1>2 DEF Shape
<1>4. \A t \in Scopes : disk[t].builtAt \in Nat /\ disk[t].builtAt <= builds
  BY DEF Shape, Indexes, NewerInv
<1>5. \A t \in Scopes : disk'[t].builtAt <= builds
  BY <1>2, <1>3, <1>4
<1>6. ASSUME NEW t \in Scopes, NEW n \in Nat, n <= disk[t].builtAt
      PROVE  n <= disk'[t].builtAt \/ <<t, n>> \in undercut'
  <2>1. CASE t = s
    <3>1. CASE n <= dated
      BY <1>2, <1>3, <2>1, <3>1
    <3>2. CASE ~(n <= dated)
      <4>1. n \in (dated + 1)..disk[s].builtAt
        BY <1>4, <1>6, <2>1, <3>2
      <4>2. <<t, n>> \in {s} \X ((dated + 1)..disk[s].builtAt)
        BY <2>1, <4>1
      <4> QED BY <1>1, <4>2
    <3> QED BY <3>1, <3>2
  <2>2. CASE t # s
    BY <1>3, <1>6, <2>2
  <2> QED BY <2>1, <2>2
<1> QED BY <1>1, <1>2, <1>3, <1>5, <1>6

(* So what the jobs have built is served as it was, when nothing else of    *)
(* theirs changes and no copy that the server holds.                        *)
LEMMA StillServed ==
  ASSUME Shape, ServedInv,
         undercut \subseteq undercut',
         \A t \in Scopes : \A n \in Nat : n <= disk[t].builtAt =>
           n <= disk'[t].builtAt \/ <<t, n>> \in undercut'
  PROVE  \A j \in Jobs : \A b \in job[j].built \ undercut' :
           /\ b[1] \in Scopes /\ b[2] \in Nat
           /\ b[2] <= disk'[b[1]].builtAt
           /\ job[j].pc = "done" => cache[b[1]] = None \/ cache[b[1]].builtAt >= b[2]
<1> SUFFICES ASSUME NEW j \in Jobs, NEW b \in job[j].built, b \notin undercut'
             PROVE  /\ b[1] \in Scopes /\ b[2] \in Nat
                    /\ b[2] <= disk'[b[1]].builtAt
                    /\ job[j].pc = "done" => cache[b[1]] = None \/ cache[b[1]].builtAt >= b[2]
  OBVIOUS
<1>1. b[1] \in Scopes /\ b[2] \in Nat /\ b = <<b[1], b[2]>>
  BY DEF Shape, Tasks
<1>2. b[2] <= disk[b[1]].builtAt
      /\ (job[j].pc = "done" => cache[b[1]] = None \/ cache[b[1]].builtAt >= b[2])
  BY DEF ServedInv
<1>3. b[2] <= disk'[b[1]].builtAt \/ <<b[1], b[2]>> \in undercut'
  BY <1>1, <1>2
<1> QED BY <1>1, <1>2, <1>3
(* The copy a query takes is none older than the file, if there is one, nor *)
(* than the copy the server held.                                           *)
LEMMA AdoptedIsNew ==
  ASSUME Shape, NEW s \in Scopes
  PROVE  /\ Adopted(s) \in Indexes
         /\ Present(Adopted(s)) => Adopted(s).builtAt >= disk[s].builtAt
         /\ cache[s] = None => Adopted(s) = disk[s]
         /\ cache[s] # None => Adopted(s).builtAt >= cache[s].builtAt
<1> DEFINE held == IF cache[s] = None THEN disk[s] ELSE cache[s]
<1>1. held \in Indexes /\ disk[s] \in Indexes
  BY DEF Shape
<1>2. Adopted(s) = IF Present(held) /\ disk[s].builtAt > held.builtAt THEN disk[s] ELSE held
  BY DEF Adopted
<1>3. held.builtAt \in Nat /\ disk[s].builtAt \in Nat
  BY <1>1 DEF Indexes
<1>4. Adopted(s) \in Indexes /\ (Present(Adopted(s)) => Adopted(s).builtAt >= disk[s].builtAt)
  <2> HIDE DEF held
  <2> QED BY <1>1, <1>2, <1>3 DEF Present
<1>5. cache[s] = None => Adopted(s) = disk[s]
  BY <1>2, <1>3
<1>6. cache[s] # None => Adopted(s).builtAt >= cache[s].builtAt
  BY <1>2, <1>3
<1> QED BY <1>4, <1>5, <1>6

(* Nothing is stale only if the index is what the pass has seen. *)
LEMMA NotStale ==
  ASSUME NEW docs \in Docs, NEW pass \in Docs, Stale(docs, pass) = {}
  PROVE  docs = pass
<1>1. \A f \in Files : docs[f] = pass[f]
  BY DEF Stale
<1> QED BY <1>1 DEF Docs


-----------------------------------------------------------------------------
(* The world around the server. *)
LEMMA EditInv ==
  ASSUME IndexInv, NEW s \in Scopes, NEW f \in Files, Edit(s, f)
  PROVE  IndexInv'
<1> USE DEF IndexInv
<1> DEFINE sees(q) == query[q].scope = s /\ Repairing(q)
<1>1. PICK m \in {0, edits + 1} : corpus' = [corpus EXCEPT ![s][f] = m]
  BY DEF Edit
<1>2. query' = [q \in Queries |-> IF sees(q) THEN [query[q] EXCEPT !.seen = @ \cup {corpus'[s]}]
                                  ELSE query[q]]
  BY DEF Edit
<1>3. /\ edits' = edits + 1
      /\ UNCHANGED <<disk, builds, undercut, cache, statCache, inflight, building, job, other>>
  BY DEF Edit, memory
<1>4. corpus' \in [Scopes -> Docs] /\ \A t \in Scopes : t # s => corpus'[t] = corpus[t]
  BY <1>1 DEF Shape, Docs
<1>5. ASSUME NEW q \in Queries
      PROVE  /\ query'[q] \in Asked
             /\ query'[q].pc = query[q].pc /\ query'[q].scope = query[q].scope
             /\ query'[q].waited = query[q].waited /\ query'[q].stamp = query[q].stamp
             /\ query'[q].idx = query[q].idx /\ query'[q].snap = query[q].snap
             /\ query'[q].found = query[q].found /\ query'[q].put = query[q].put
             /\ query'[q].dated = query[q].dated
             /\ query[q].seen \subseteq query'[q].seen
             /\ sees(q) => corpus'[s] \in query'[q].seen
  <2>1. query[q] \in Asked /\ corpus'[s] \in Docs
    BY <1>4 DEF Shape
  <2> QED BY <1>2, <2>1 DEF Asked
<1>6. Shape'
  BY <1>2, <1>3, <1>4, <1>5 DEF Shape
<1>7. InlineInv' /\ JobsInv' /\ ServedInv'
  BY <1>3, <1>5 DEF InlineInv, Repairing, JobsInv, ServedInv, Shape
<1>8. ThreadInv'
  BY <1>3, <1>5 DEF ThreadInv
<1>9. NewerInv'
  BY <1>3, <1>5 DEF NewerInv
<1>10. AccountedInv'
  <2> SUFFICES ASSUME NEW q \in Queries
               PROVE /\ Repairing(q)' => query'[q].stamp # "current"
                                         /\ corpus'[query'[q].scope] \in query'[q].seen
                     /\ query'[q].pc \in Building => query'[q].snap \in query'[q].seen
                     /\ query'[q].pc = "reload" => Finds(q)'
                     /\ query'[q].pc = "answered" /\ query'[q].stamp = "current" => Rests(q)'
    BY DEF AccountedInv
  <2>1. Repairing(q) => corpus'[query[q].scope] \in query'[q].seen
    BY <1>4, <1>5 DEF AccountedInv, InlineInv
  <2>2. Finds(q) => Finds(q)'
    BY <1>3, <1>5 DEF Finds
  <2>3. Rests(q) => Rests(q)'
    BY <1>3, <1>5 DEF Rests
  <2> QED BY <1>5, <2>1, <2>2, <2>3 DEF AccountedInv, Repairing
<1> QED BY <1>6, <1>7, <1>8, <1>9, <1>10

(* What another process does, but for the rename, concerns it alone. *)
LEMMA OtherMovesInv ==
  ASSUME IndexInv, NEW o \in Others, NEW next \in Outside,
         other' = [other EXCEPT ![o] = next],
         next.pc \in Building => next.scope \in Scopes,
         builds' \in Nat, builds <= builds', next.dated <= builds',
         UNCHANGED <<corpus, edits, disk, undercut, cache, statCache, inflight, building, query, job>>
  PROVE  IndexInv'
<1> USE DEF IndexInv
<1>1. other'[o] = next /\ \A p \in Others \ {o} : other'[p] = other[p]
  BY DEF Shape
<1>2. Shape'
  BY <1>1 DEF Shape
<1>3. NewerInv'
  <2>1. /\ \A s \in Scopes : disk[s].builtAt \in Nat /\ disk[s].builtAt <= builds
        /\ \A p \in Others : other[p].dated \in Nat /\ other[p].dated <= builds
        /\ \A j \in Jobs : job[j].dated \in Nat /\ job[j].dated <= builds
        /\ \A q \in Queries : /\ query[q].found \in Nat /\ query[q].found <= builds
                              /\ query[q].dated \in Nat /\ query[q].dated <= builds
    BY DEF Shape, Indexes, Outside, Tasks, Asked, NewerInv
  <2>2. builds \in Nat /\ \A n \in Nat : n <= builds => n <= builds'
    BY DEF Shape
  <2>3. /\ \A s \in Scopes : disk'[s].builtAt <= builds'
        /\ \A p \in Others : other'[p].dated <= builds'
        /\ \A j \in Jobs : job'[j].dated <= builds'
        /\ \A q \in Queries : query'[q].found <= builds' /\ query'[q].dated <= builds'
    BY <1>1, <2>1, <2>2
  <2> QED BY <2>3 DEF NewerInv
<1>4. InlineInv' /\ JobsInv' /\ ThreadInv' /\ ServedInv'
  BY DEF InlineInv, Repairing, JobsInv, ThreadInv, ServedInv
<1>5. AccountedInv'
  BY DEF AccountedInv, Repairing, Finds, Rests
<1> QED BY <1>2, <1>3, <1>4, <1>5

LEMMA OtherBeginsInv ==
  ASSUME IndexInv, NEW o \in Others, OtherStart(o) \/ OtherDates(o) \/ OtherFails(o)
  PROVE  IndexInv'
<1> USE DEF IndexInv
<1> DEFINE stopped == [other[o] EXCEPT !.pc = "ended"]
           ended == [NewOther EXCEPT !.pc = "ended"]
<1>1. other[o] \in Outside /\ builds \in Nat /\ other[o].dated <= builds
      /\ (other[o].pc \in Building => other[o].scope \in Scopes)
  BY DEF Shape, NewerInv
<1>2. CASE OtherStart(o)
  <2>1. PICK s \in Scopes : other' = [other EXCEPT ![o] =
                              IF WouldErase(s) THEN [@ EXCEPT !.pc = "ended"]
                              ELSE [@ EXCEPT !.pc = "build", !.scope = s, !.snap = corpus[s]]]
    BY <1>2 DEF OtherStart
  <2> DEFINE begun == [other[o] EXCEPT !.pc = "build", !.scope = s, !.snap = corpus[s]]
  <2>2. stopped \in Outside /\ stopped.pc \notin Building /\ stopped.dated = other[o].dated
    BY <1>1 DEF Outside, Building
  <2>3. begun \in Outside /\ begun.scope \in Scopes /\ begun.dated = other[o].dated
    BY <1>1 DEF Shape, Outside
  <2>4. other' = [other EXCEPT ![o] = stopped] \/ other' = [other EXCEPT ![o] = begun]
    BY <2>1
  <2>5. builds' = builds /\ UNCHANGED <<corpus, edits, disk, undercut, cache, statCache,
                                        inflight, building, query, job>>
    BY <1>2 DEF OtherStart, disks, memory
  <2> HIDE DEF stopped, begun
  <2> QED BY <1>1, <2>2, <2>3, <2>4, <2>5, OtherMovesInv
<1>3. CASE OtherDates(o)
  <2> DEFINE b == builds + 1
  <2>0. b \in Nat /\ builds <= b
    BY <1>1
  <2> HIDE DEF b
  <2> DEFINE next == [other[o] EXCEPT !.pc = "dated", !.dated = b]
  <2>1. next \in Outside /\ next.pc = "dated" /\ next.dated = b /\ next.scope = other[o].scope
    <3>1. other[o] \in Outside
      BY <1>1
    <3> QED BY <2>0, <3>1 DEF Outside
  <2>2. /\ other' = [other EXCEPT ![o] = next] /\ other[o].pc = "build" /\ builds' = b
        /\ UNCHANGED <<corpus, edits, disk, undercut, cache, statCache, inflight, building,
                       query, job>>
    BY <1>3 DEF OtherDates, Dated, memory, b
  <2> HIDE DEF next
  <2>3. next.pc \in Building => next.scope \in Scopes
    BY <1>1, <2>1, <2>2 DEF Building
  <2>4. builds' \in Nat /\ builds <= builds' /\ next.dated <= builds'
    BY <2>0, <2>1, <2>2
  <2> QED BY <2>1, <2>2, <2>3, <2>4, OtherMovesInv
<1>4. CASE OtherFails(o)
  <2>1. ended \in Outside /\ ended.pc \notin Building /\ ended.dated = 0
    BY NewShapes DEF NewOther, Outside, Building
  <2>2. /\ other' = [other EXCEPT ![o] = ended] /\ builds' = builds /\ 0 <= builds
        /\ UNCHANGED <<corpus, edits, disk, undercut, cache, statCache, inflight, building,
                       query, job>>
    BY <1>1, <1>4 DEF OtherFails, disks, memory
  <2> HIDE DEF ended
  <2>3. builds' \in Nat /\ builds <= builds' /\ ended.dated <= builds'
    BY <1>1, <2>1, <2>2
  <2> QED BY <2>1, <2>2, <2>3, OtherMovesInv
<1> QED BY <1>2, <1>3, <1>4

(* Whoever is to read an index back is told what it will find. *)
LEMMA OtherRenamesInv ==
  ASSUME IndexInv, NEW o \in Others, OtherRenames(o)
  PROVE  IndexInv'
<1> USE DEF IndexInv
<1> DEFINE s == other[o].scope
           told(q) == query[q].scope = s /\ query[q].pc = "reload"
           ended == [NewOther EXCEPT !.pc = "ended"]
<1>1. /\ other[o].pc = "dated" /\ Renamed(s, other[o].dated, other[o].snap)
      /\ other' = [other EXCEPT ![o] = ended]
      /\ query' = [q \in Queries |-> IF told(q) THEN [query[q] EXCEPT !.put = @ \cup {other[o].snap}]
                                     ELSE query[q]]
      /\ UNCHANGED <<cache, statCache, inflight, building, job>>
  BY DEF OtherRenames, memory
<1>2. /\ other[o] \in Outside /\ s \in Scopes /\ other[o].snap \in Docs /\ other[o].dated \in Nat
      /\ other[o].dated <= builds
  BY <1>1 DEF Shape, Outside, NewerInv, Building
<1>3. /\ disk' \in [Scopes -> Indexes]
      /\ disk'[s].docs = other[o].snap
      /\ \A t \in Scopes : /\ t # s => disk'[t] = disk[t]
                           /\ disk'[t].builtAt <= builds
                           /\ \A n \in Nat : n <= disk[t].builtAt =>
                                n <= disk'[t].builtAt \/ <<t, n>> \in undercut'
      /\ undercut \subseteq undercut'
      /\ UNCHANGED <<corpus, edits, builds>>
  BY <1>1, <1>2, InPlace
<1>4. ended \in Outside /\ ended.pc \notin Building /\ ended.dated = 0
  BY NewShapes DEF NewOther, Outside, Building
<1> HIDE DEF ended
<1>5. ASSUME NEW q \in Queries
      PROVE  /\ query'[q] \in Asked
             /\ query'[q].pc = query[q].pc /\ query'[q].scope = query[q].scope
             /\ query'[q].waited = query[q].waited /\ query'[q].stamp = query[q].stamp
             /\ query'[q].idx = query[q].idx /\ query'[q].snap = query[q].snap
             /\ query'[q].found = query[q].found /\ query'[q].seen = query[q].seen
             /\ query'[q].dated = query[q].dated
             /\ query[q].put \subseteq query'[q].put
             /\ told(q) => disk'[s].docs \in query'[q].put
  <2>1. query[q] \in Asked
    BY DEF Shape
  <2> QED BY <1>1, <1>2, <1>3, <2>1 DEF Asked
<1>6. \A p \in Others : other'[p] = ended \/ other'[p] = other[p]
  BY <1>1 DEF Shape
<1>7. Shape'
  <2>1. query' \in [Queries -> Asked] /\ other' \in [Others -> Outside]
    BY <1>1, <1>4, <1>5 DEF Shape
  <2>2. \A p \in Others : other'[p].pc \in Building => other'[p].scope \in Scopes
    BY <1>4, <1>6 DEF Shape
  <2> HIDE DEF s, told
  <2> QED BY <1>1, <1>3, <2>1, <2>2 DEF Shape
<1>8. InlineInv' /\ JobsInv'
  BY <1>1, <1>5 DEF InlineInv, Repairing, JobsInv, Shape
<1>9. ThreadInv'
  BY <1>1, <1>5 DEF ThreadInv
<1>10. NewerInv'
  <2>1. \A p \in Others : other'[p].dated <= builds
    BY <1>2, <1>4, <1>6 DEF NewerInv, Shape
  <2>2. ASSUME NEW q \in Queries, query'[q].pc = "reload"
        PROVE  \/ disk'[query'[q].scope].builtAt >= query'[q].found
               \/ disk'[query'[q].scope].docs \in query'[q].put
    <3>1. query[q].pc = "reload" /\ query[q].scope \in Scopes
      BY <1>5, <2>2 DEF InlineInv, Repairing
    <3>2. CASE told(q)
      BY <1>5, <3>2
    <3>3. CASE ~told(q)
      BY <1>3, <1>5, <3>1, <3>3 DEF NewerInv
    <3> QED BY <3>2, <3>3
  <2>3. ASSUME NEW q \in Queries
        PROVE  /\ query'[q].found <= builds /\ query'[q].dated <= builds
               /\ query'[q].stamp # "missing" =>
                    \/ query'[q].idx.builtAt >= query'[q].found
                    \/ query'[q].idx.docs \in query'[q].put
               /\ query'[q].pc = "dated" =>
                    \A p \in Queries : query'[p].found <= query'[q].dated
    BY <1>5 DEF NewerInv
  <2> HIDE DEF s, told
  <2> QED BY <1>1, <1>3, <2>1, <2>2, <2>3 DEF NewerInv
<1>11. AccountedInv'
  <2> SUFFICES ASSUME NEW q \in Queries
               PROVE /\ Repairing(q)' => query'[q].stamp # "current"
                                         /\ corpus'[query'[q].scope] \in query'[q].seen
                     /\ query'[q].pc \in Building => query'[q].snap \in query'[q].seen
                     /\ query'[q].pc = "reload" => Finds(q)'
                     /\ query'[q].pc = "answered" /\ query'[q].stamp = "current" => Rests(q)'
    BY DEF AccountedInv
  <2>1. ASSUME query[q].pc = "reload" PROVE Finds(q)'
    <3>1. Finds(q) /\ query[q].scope \in Scopes
      BY <2>1 DEF AccountedInv, InlineInv, Repairing
    <3>2. disk'[query[q].scope].docs \in query'[q].put \cup {disk[query[q].scope].docs}
      BY <1>3, <1>5, <2>1, <3>1
    <3>3. query[q].waited \in Queries => /\ query'[query[q].waited].pc = query[query[q].waited].pc
                                         /\ query'[query[q].waited].snap = query[query[q].waited].snap
      BY <1>5
    <3> QED BY <1>5, <3>1, <3>2, <3>3 DEF Finds
  <2>2. Rests(q) => Rests(q)'
    BY <1>5 DEF Rests
  <2> QED BY <1>3, <1>5, <2>1, <2>2 DEF AccountedInv, Repairing
<1>12. ServedInv'
  BY <1>1, <1>3, StillServed DEF ServedInv
<1> QED BY <1>7, <1>8, <1>9, <1>10, <1>11, <1>12

LEMMA ExpireInv ==
  ASSUME IndexInv, NEW s \in Scopes, Expire(s)
  PROVE  IndexInv'
<1> USE DEF IndexInv
<1>1. UNCHANGED <<corpus, edits, disk, builds, undercut, cache, inflight, building, query, job, other>>
  BY DEF Expire, disks, tasks
<1>2. statCache' \in [Scopes -> Docs \cup {None}]
  BY DEF Expire, Shape
<1>3. Shape' /\ InlineInv' /\ JobsInv' /\ ThreadInv' /\ NewerInv' /\ ServedInv'
  BY <1>1, <1>2 DEF Shape, InlineInv, Repairing, JobsInv, ThreadInv, NewerInv, ServedInv
<1>4. AccountedInv'
  BY <1>1 DEF AccountedInv, Repairing, Finds, Rests
<1> QED BY <1>3, <1>4

LEMMA ModelBreaksInv ==
  ASSUME IndexInv, ModelBreaks
  PROVE  IndexInv'
<1> USE DEF IndexInv
<1>1. UNCHANGED <<corpus, edits, disk, builds, undercut, cache, statCache, inflight, building,
                  query, job, other>>
  BY DEF ModelBreaks, disks, tasks
<1>2. Shape' /\ InlineInv' /\ JobsInv' /\ ThreadInv' /\ NewerInv' /\ ServedInv'
  BY <1>1 DEF Shape, InlineInv, Repairing, JobsInv, ThreadInv, NewerInv, ServedInv
<1>3. AccountedInv'
  BY <1>1 DEF AccountedInv, Repairing, Finds, Rests
<1> QED BY <1>2, <1>3

-----------------------------------------------------------------------------
(* Queries. *)

(* The answer of a query that has a stale index, and its shape. *)
LEMMA AdmittedShape ==
  ASSUME NEW asked \in Asked
  PROVE  /\ Admitted(asked) \in Asked
         /\ Admitted(asked).pc = "answered" /\ Admitted(asked).stamp = asked.stamp
         /\ Admitted(asked).idx = asked.idx /\ Admitted(asked).found = asked.found
         /\ Admitted(asked).put = asked.put /\ Admitted(asked).dated = 0
BY NoFilesIsDocs DEF Admitted, Asked

(* A query that neither builds nor reads back what was built takes nothing  *)
(* from the others.                                                         *)
LEMMA QuietInv ==
  ASSUME IndexInv, Free, NEW q \in Queries, NEW next \in Asked,
         query[q].pc \in {"new", "repair"},
         query' = [query EXCEPT ![q] = next],
         next.pc \in {"answered", "repair", "wait"},
         next.pc # "answered" => /\ next.scope \in Scopes /\ next.stamp # "current"
                                 /\ corpus[next.scope] \in next.seen,
         next.pc = "repair" => next.waited = None,
         next.pc = "wait" => inflight[next.scope] # None /\ next.waited = inflight[next.scope],
         next.stamp # "missing" =>
           next.idx.builtAt >= next.found \/ next.idx.docs \in next.put,
         next.found <= builds, next.dated <= builds,
         next.pc = "answered" /\ next.stamp = "current" => next.idx.docs \in next.seen,
         UNCHANGED <<corpus, disk, builds, inflight, building, job, other>>
  PROVE  InlineInv' /\ JobsInv' /\ ThreadInv' /\ NewerInv' /\ AccountedInv'
<1> USE DEF IndexInv
<1>1. query'[q] = next /\ \A p \in Queries \ {q} : query'[p] = query[p]
  BY DEF Shape
<1>2. \A s \in Scopes : inflight[s] # None => inflight[s] \in Queries \ {q}
  BY DEF Shape, InlineInv, Building
<1>3. \A p \in Queries : query[p].pc \notin {"dated", "reload"}
  BY DEF Free
<1>4. InlineInv'
  <2>1. ASSUME NEW p \in Queries
        PROVE  /\ Repairing(p)' => query'[p].scope \in Scopes
               /\ query'[p].pc \in Building => inflight[query'[p].scope] = p
               /\ query'[p].pc \in {"new", "repair", "build", "dated"} => query'[p].waited = None
               /\ query'[p].pc = "wait" => /\ inflight[query'[p].scope] # None
                                           /\ query'[p].waited = inflight[query'[p].scope]
    <3>1. CASE p = q
      BY <1>1, <3>1 DEF Repairing, Building
    <3>2. CASE p # q
      BY <1>1, <3>2 DEF InlineInv, Repairing
    <3> QED BY <3>1, <3>2
  <2>2. \A s \in Scopes : inflight[s] # None =>
          query'[inflight[s]].pc \in Building /\ query'[inflight[s]].scope = s
    BY <1>1, <1>2 DEF InlineInv
  <2> QED BY <2>1, <2>2 DEF InlineInv
<1>5. JobsInv' /\ ThreadInv'
  BY <1>1, <1>3 DEF JobsInv, ThreadInv
<1>6. NewerInv'
  BY <1>1, <1>3 DEF NewerInv
<1>7. AccountedInv'
  <2> SUFFICES ASSUME NEW p \in Queries
               PROVE /\ Repairing(p)' => query'[p].stamp # "current"
                                         /\ corpus'[query'[p].scope] \in query'[p].seen
                     /\ query'[p].pc \in Building => query'[p].snap \in query'[p].seen
                     /\ query'[p].pc = "reload" => Finds(p)'
                     /\ query'[p].pc = "answered" /\ query'[p].stamp = "current" => Rests(p)'
    BY DEF AccountedInv
  <2>1. CASE p = q
    BY <1>1, <2>1 DEF Repairing, Building, Rests
  <2>2. CASE p # q
    <3>1. Rests(p) => Rests(p)'
      BY <1>1, <2>2 DEF Rests
    <3> QED BY <1>1, <1>3, <2>2, <3>1 DEF AccountedInv, Repairing
  <2> QED BY <2>1, <2>2
<1> QED BY <1>4, <1>5, <1>6, <1>7

LEMMA ArriveInv ==
  ASSUME IndexInv, NEW q \in Queries, Arrive(q)
  PROVE  IndexInv'
<1> USE DEF IndexInv
<1>1. PICK s \in Scopes :
        LET idx   == Adopted(s)
            stale == Stale(idx.docs, Pass(s))
            needs == ~Present(idx) \/ stale # {}
            looks == Present(idx) \/ s \notin Driven
            asked == [query[q] EXCEPT
                        !.scope = s, !.idx = idx, !.seen = {corpus[s], Pass(s)},
                        !.found = disk[s].builtAt, !.stamp = StampOf(idx, stale)]
        IN /\ cache' = [cache EXCEPT ![s] = idx]
           /\ statCache' = IF looks THEN [statCache EXCEPT ![s] = Pass(s)] ELSE statCache
           /\ query' = [query EXCEPT ![q] =
                          IF ~needs THEN [asked EXCEPT !.pc = "answered"]
                          ELSE IF MayRepair(s, idx) THEN [asked EXCEPT !.pc = "repair"]
                          ELSE Admitted(asked)]
  BY DEF Arrive
<1> DEFINE idx   == Adopted(s)
           stale == Stale(idx.docs, Pass(s))
           needs == ~Present(idx) \/ stale # {}
           asked == [query[q] EXCEPT
                       !.scope = s, !.idx = idx, !.seen = {corpus[s], Pass(s)},
                       !.found = disk[s].builtAt, !.stamp = StampOf(idx, stale)]
<1>2. /\ query[q].pc = "new" /\ Free
      /\ UNCHANGED <<corpus, edits, disk, builds, undercut, inflight, building, job, other>>
  BY DEF Arrive, disks
<1>3. idx \in Indexes /\ Pass(s) \in Docs /\ corpus[s] \in Docs /\ disk[s].builtAt \in Nat
  BY AdoptedIsNew DEF Pass, Shape, Indexes
<1>4. /\ StampOf(idx, stale) \in {"missing", "stale", "current"}
      /\ needs => StampOf(idx, stale) # "current"
      /\ Present(idx) <=> StampOf(idx, stale) # "missing"
  BY DEF StampOf
<1>5. /\ asked \in Asked
      /\ asked.scope = s /\ asked.idx = idx /\ asked.seen = {corpus[s], Pass(s)}
      /\ asked.found = disk[s].builtAt /\ asked.stamp = StampOf(idx, stale)
      /\ asked.dated = query[q].dated /\ asked.waited = query[q].waited
  <2>1. query[q] \in Asked
    BY DEF Shape
  <2> HIDE DEF idx, stale
  <2> QED BY <1>3, <1>4, <2>1 DEF Asked
<1>6. asked.stamp # "missing" => asked.idx.builtAt >= asked.found
  BY <1>4, <1>5, AdoptedIsNew
<1>7. asked.found <= builds /\ asked.dated <= builds
  BY <1>5 DEF NewerInv
<1>8. asked.stamp = "current" => ~needs /\ asked.idx.docs \in asked.seen
  <2>1. stale = {} => idx.docs = Pass(s)
    BY <1>3, NotStale DEF Indexes
  <2> QED BY <1>4, <1>5, <2>1
<1>9. ServedInv'
  <2>1. cache' = [cache EXCEPT ![s] = idx]
    BY <1>1
  <2> SUFFICES ASSUME NEW j \in Jobs, NEW b \in job[j].built \ undercut, job[j].pc = "done"
               PROVE  cache'[b[1]] = None \/ cache'[b[1]].builtAt >= b[2]
    BY <1>2 DEF ServedInv
  <2>2. b[1] \in Scopes /\ b[2] \in Nat
    BY DEF Shape, Tasks
  <2>3. CASE b[1] = s
    <3>1. cache'[b[1]] = idx
      BY <2>1, <2>3 DEF Shape
    <3>2. b[2] <= disk[s].builtAt /\ (cache[s] = None \/ cache[s].builtAt >= b[2])
      BY <2>3 DEF ServedInv
    <3>3. CASE cache[s] = None
      BY <2>2, <3>1, <3>2, <3>3, <1>3, AdoptedIsNew
    <3>4. CASE cache[s] # None
      <4>1. idx.builtAt >= cache[s].builtAt
        BY <3>4, AdoptedIsNew
      <4>2. idx.builtAt \in Nat /\ cache[s].builtAt \in Nat
        BY <1>3, <3>4 DEF Shape, Indexes
      <4> HIDE DEF idx
      <4> QED BY <2>2, <3>1, <3>2, <3>4, <4>1, <4>2
    <3> QED BY <3>3, <3>4
  <2>4. CASE b[1] # s
    BY <2>1, <2>2, <2>4 DEF Shape, ServedInv
  <2> QED BY <2>3, <2>4
<1>10. cache' \in [Scopes -> Indexes \cup {None}] /\ statCache' \in [Scopes -> Docs \cup {None}]
  BY <1>1, <1>3 DEF Shape
<1>11. PICK next \in Asked :
         /\ query' = [query EXCEPT ![q] = next]
         /\ next.idx = idx /\ next.found = asked.found /\ next.stamp = asked.stamp
         /\ next.dated <= builds
         /\ \/ next.pc = "answered" /\ (next.stamp = "current" => next.idx.docs \in next.seen)
            \/ /\ next.pc = "repair" /\ next.scope = s /\ corpus[s] \in next.seen
               /\ next.stamp # "current" /\ next.waited = asked.waited
  <2> DEFINE done == [asked EXCEPT !.pc = "answered"]
             repair == [asked EXCEPT !.pc = "repair"]
  <2>1. query' = [query EXCEPT ![q] = IF ~needs THEN done
                                      ELSE IF MayRepair(s, idx) THEN repair ELSE Admitted(asked)]
    BY <1>1
  <2>2. 0 <= builds
    BY DEF Shape
  <2> HIDE DEF asked, needs, idx, stale
  <2>3. /\ done \in Asked /\ done.pc = "answered" /\ done.idx = asked.idx /\ done.seen = asked.seen
        /\ done.found = asked.found /\ done.stamp = asked.stamp /\ done.dated = asked.dated
    BY <1>5 DEF Asked
  <2>4. /\ repair \in Asked /\ repair.pc = "repair" /\ repair.idx = asked.idx
        /\ repair.scope = asked.scope /\ repair.seen = asked.seen /\ repair.dated = asked.dated
        /\ repair.found = asked.found /\ repair.stamp = asked.stamp /\ repair.waited = asked.waited
    BY <1>5 DEF Asked
  <2> HIDE DEF done, repair
  <2>5. CASE ~needs
    BY <2>1, <2>3, <2>5, <1>5, <1>7, <1>8
  <2>6. CASE needs /\ MayRepair(s, idx)
    BY <2>1, <2>4, <2>6, <1>5, <1>7, <1>8
  <2>7. CASE needs /\ ~MayRepair(s, idx)
    BY <2>1, <2>2, <2>7, <1>5, <1>8, AdmittedShape
  <2> QED BY <2>5, <2>6, <2>7
<1>12. asked.waited = None
  BY <1>2, <1>5 DEF InlineInv
<1> HIDE DEF asked, needs, idx, stale
<1>13. Shape'
  BY <1>2, <1>10, <1>11 DEF Shape
<1>14. InlineInv' /\ JobsInv' /\ ThreadInv' /\ NewerInv' /\ AccountedInv'
  <2>1. next.stamp # "missing" => next.idx.builtAt >= next.found \/ next.idx.docs \in next.put
    BY <1>5, <1>6, <1>11
  <2>2. next.found <= builds
    BY <1>7, <1>11
  <2> QED BY <1>2, <1>11, <1>12, <2>1, <2>2, QuietInv
<1> QED BY <1>9, <1>13, <1>14

(* A repair that is refused leaves a stamp that is not "current". *)
LEMMA AdmitInv ==
  ASSUME IndexInv, Free, NEW q \in Queries, query[q].pc = "repair", Admit(q),
         UNCHANGED <<disks, cache, statCache, inflight, building, job, other>>
  PROVE  IndexInv'
<1> USE DEF IndexInv
<1> DEFINE next == Admitted(query[q])
<1>1. query' = [query EXCEPT ![q] = next]
  BY DEF Admit
<1>2. UNCHANGED <<corpus, edits, disk, builds, undercut, cache, statCache, inflight, building,
                  job, other>>
  BY DEF disks
<1>3. /\ next \in Asked /\ next.pc = "answered" /\ next.stamp = query[q].stamp
      /\ next.idx = query[q].idx /\ next.found = query[q].found
      /\ next.put = query[q].put /\ next.dated = 0
  BY AdmittedShape DEF Shape
<1>4. next.stamp # "current"
  BY <1>3 DEF AccountedInv, Repairing
<1>5. /\ next.found <= builds /\ next.dated <= builds
      /\ next.stamp # "missing" => next.idx.builtAt >= next.found \/ next.idx.docs \in next.put
  BY <1>3 DEF NewerInv, Shape
<1> HIDE DEF next
<1>6. InlineInv' /\ JobsInv' /\ ThreadInv' /\ NewerInv' /\ AccountedInv'
  BY <1>1, <1>2, <1>3, <1>4, <1>5, QuietInv
<1>7. Shape' /\ ServedInv'
  BY <1>1, <1>2, <1>3 DEF Shape, ServedInv
<1> QED BY <1>6, <1>7

LEMMA RepairRefusedInv ==
  ASSUME IndexInv, NEW q \in Queries, RepairRefused(q) \/ RepairThrows(q)
  PROVE  IndexInv'
BY AdmitInv DEF RepairRefused, RepairThrows, memory

(* The query waits for the one that the map names. *)
LEMMA RepairWaitInv ==
  ASSUME IndexInv, NEW q \in Queries, RepairWait(q)
  PROVE  IndexInv'
<1> USE DEF IndexInv
<1> DEFINE s == query[q].scope
           next == [query[q] EXCEPT !.pc = "wait", !.waited = inflight[s]]
<1>1. query' = [query EXCEPT ![q] = next]
  BY DEF RepairWait
<1>2. /\ query[q].pc = "repair" /\ inflight[s] # None /\ Free
      /\ UNCHANGED <<corpus, edits, disk, builds, undercut, cache, statCache, inflight, building,
                     job, other>>
  BY DEF RepairWait, disks, memory
<1>3. s \in Scopes /\ inflight[s] \in Queries
  BY <1>2 DEF InlineInv, Repairing, Shape
<1>4. /\ next \in Asked /\ next.pc = "wait" /\ next.waited = inflight[s]
      /\ next.scope = s /\ next.stamp = query[q].stamp /\ next.idx = query[q].idx
      /\ next.found = query[q].found /\ next.seen = query[q].seen
      /\ next.put = query[q].put /\ next.dated = query[q].dated
  <2>1. query[q] \in Asked
    BY DEF Shape
  <2> QED BY <1>3, <2>1 DEF Asked
<1>5. next.stamp # "current" /\ corpus[next.scope] \in next.seen
  BY <1>2, <1>4 DEF AccountedInv, Repairing
<1>6. /\ next.found <= builds /\ next.dated <= builds
      /\ next.stamp # "missing" => next.idx.builtAt >= next.found \/ next.idx.docs \in next.put
  BY <1>4 DEF NewerInv
<1> HIDE DEF next
<1>7. Shape' /\ ServedInv'
  BY <1>1, <1>2, <1>4 DEF Shape, ServedInv
<1>8. InlineInv' /\ JobsInv' /\ ThreadInv' /\ NewerInv' /\ AccountedInv'
  BY <1>1, <1>2, <1>3, <1>4, <1>5, <1>6, QuietInv
<1> QED BY <1>7, <1>8

(* What the rebuild reads is what the corpus is, which the query has seen.  *)
LEMMA RepairStartInv ==
  ASSUME IndexInv, NEW q \in Queries, RepairStart(q)
  PROVE  IndexInv'
<1> USE DEF IndexInv
<1> DEFINE s == query[q].scope
           next == [query[q] EXCEPT !.pc = "build", !.snap = corpus[s]]
<1>1. query' = [query EXCEPT ![q] = next] /\ inflight' = [inflight EXCEPT ![s] = q]
  BY DEF RepairStart
<1>2. /\ query[q].pc = "repair" /\ inflight[s] = None /\ Free
      /\ UNCHANGED <<corpus, edits, disk, builds, undercut, cache, statCache, building, job, other>>
  BY DEF RepairStart, disks
<1>3. s \in Scopes /\ corpus[s] \in query[q].seen /\ query[q].waited = None
  BY <1>2 DEF InlineInv, AccountedInv, Repairing
<1>4. /\ next \in Asked /\ next.pc = "build" /\ next.snap = corpus[s]
      /\ next.scope = s /\ next.stamp = query[q].stamp /\ next.idx = query[q].idx
      /\ next.found = query[q].found /\ next.seen = query[q].seen
      /\ next.put = query[q].put /\ next.dated = query[q].dated /\ next.waited = query[q].waited
  <2>1. query[q] \in Asked /\ corpus[s] \in Docs
    BY <1>3 DEF Shape
  <2> QED BY <2>1 DEF Asked
<1> HIDE DEF next
<1>5. query'[q] = next /\ \A p \in Queries \ {q} : query'[p] = query[p]
  BY <1>1 DEF Shape
<1>6. inflight'[s] = q /\ \A t \in Scopes \ {s} : inflight'[t] = inflight[t]
  BY <1>1, <1>3 DEF Shape
<1>7. Shape' /\ JobsInv' /\ ServedInv'
  BY <1>1, <1>2, <1>4 DEF Shape, JobsInv, ServedInv
<1>8. InlineInv'
  <2>1. ASSUME NEW p \in Queries \ {q}
        PROVE  /\ Repairing(p)' => query'[p].scope \in Scopes
               /\ query'[p].pc \in Building => inflight'[query'[p].scope] = p
               /\ query'[p].pc \in {"new", "repair", "build", "dated"} => query'[p].waited = None
               /\ query'[p].pc = "wait" => /\ inflight'[query'[p].scope] # None
                                           /\ query'[p].waited = inflight'[query'[p].scope]
    <3>1. query[p].pc \in Building \cup {"wait"} => query[p].scope \in Scopes \ {s}
      BY <1>2, IndexAssumption DEF InlineInv, Repairing, Building
    <3> QED BY <1>5, <1>6, <3>1 DEF InlineInv, Repairing
  <2>2. \A t \in Scopes \ {s} : inflight[t] # None => inflight[t] \in Queries \ {q}
    BY <1>2 DEF Shape, InlineInv, Building
  <2>3. q # None
    BY IndexAssumption
  <2>4. /\ query'[q].pc = "build" /\ query'[q].scope = s /\ query'[q].waited = None
        /\ inflight'[query'[q].scope] = q
    BY <1>3, <1>4, <1>5, <1>6
  <2>5. \A t \in Scopes : inflight'[t] # None =>
          query'[inflight'[t]].pc \in Building /\ query'[inflight'[t]].scope = t
    BY <1>5, <1>6, <2>2, <2>4 DEF InlineInv, Building
  <2> QED BY <1>3, <2>1, <2>4, <2>5 DEF InlineInv, Repairing, Building
<1>9. \A p \in Queries : query[p].pc \notin {"dated", "reload"}
  BY <1>2 DEF Free
<1>10. ThreadInv'
  BY <1>4, <1>5, <1>9 DEF ThreadInv
<1>11. NewerInv'
  BY <1>2, <1>4, <1>5, <1>9 DEF NewerInv
<1>12. AccountedInv'
  <2> SUFFICES ASSUME NEW p \in Queries
               PROVE /\ Repairing(p)' => query'[p].stamp # "current"
                                         /\ corpus'[query'[p].scope] \in query'[p].seen
                     /\ query'[p].pc \in Building => query'[p].snap \in query'[p].seen
                     /\ query'[p].pc = "reload" => Finds(p)'
                     /\ query'[p].pc = "answered" /\ query'[p].stamp = "current" => Rests(p)'
    BY DEF AccountedInv
  <2>1. CASE p = q
    BY <1>2, <1>3, <1>4, <1>5, <2>1 DEF AccountedInv, Repairing, Building
  <2>2. CASE p # q
    <3>1. Rests(p) => Rests(p)'
      BY <1>2, <1>5, <2>2 DEF Rests
    <3> QED BY <1>2, <1>5, <1>9, <2>2, <3>1 DEF AccountedInv, Repairing
  <2> QED BY <2>1, <2>2
<1> QED BY <1>7, <1>8, <1>10, <1>11, <1>12

(* Nobody else is between a date and a reload: what has come so far has     *)
(* found nothing that is dated later.                                       *)
LEMMA RepairDatesInv ==
  ASSUME IndexInv, NEW q \in Queries, RepairDates(q)
  PROVE  IndexInv'
<1> USE DEF IndexInv
<1> DEFINE d == builds + 1
<1>1. d \in Nat /\ builds <= d /\ builds \in Nat
  BY DEF Shape
<1>2. /\ query[q].pc = "build" /\ Free /\ builds' = d
      /\ query' = [query EXCEPT ![q] = [@ EXCEPT !.pc = "dated", !.dated = d]]
      /\ UNCHANGED <<corpus, edits, disk, undercut, cache, statCache, inflight, building, job, other>>
  BY DEF RepairDates, Dated, memory
<1> HIDE DEF d
<1>3. PICK next : next = [query[q] EXCEPT !.pc = "dated", !.dated = d]
  OBVIOUS
<1>4. /\ next \in Asked /\ next.pc = "dated" /\ next.dated = d /\ next.scope = query[q].scope
      /\ next.stamp = query[q].stamp /\ next.idx = query[q].idx /\ next.snap = query[q].snap
      /\ next.found = query[q].found /\ next.seen = query[q].seen
      /\ next.put = query[q].put /\ next.waited = query[q].waited
  <2>1. query[q] \in Asked
    BY DEF Shape
  <2> QED BY <1>1, <1>3, <2>1 DEF Asked
<1>5. query' = [query EXCEPT ![q] = next]
  BY <1>2, <1>3 DEF Shape
<1>6. query'[q] = next /\ \A p \in Queries \ {q} : query'[p] = query[p]
  BY <1>5 DEF Shape
<1>7. \A p \in Queries : query[p].pc \notin {"dated", "reload"}
  BY <1>2 DEF Free
<1>8. Shape'
  BY <1>1, <1>2, <1>4, <1>5 DEF Shape
<1>9. JobsInv' /\ ServedInv'
  BY <1>2 DEF JobsInv, ServedInv
<1>10. InlineInv'
  BY <1>2, <1>4, <1>6 DEF InlineInv, Repairing, Building, Shape
<1>11. ThreadInv'
  <2>1. \A j \in Jobs : job[j].pc \notin {"loop", "dated"}
    BY <1>2 DEF Free
  <2> QED BY <1>2, <1>4, <1>6, <1>7, <2>1 DEF ThreadInv
<1>12. NewerInv'
  <2>1. \A n \in Nat : n <= builds => n <= d
    BY <1>1
  <2>2. \A p \in Queries : /\ query[p].found \in Nat /\ query[p].found <= builds
                           /\ query[p].dated \in Nat /\ query[p].dated <= builds
                           /\ query'[p].found = query[p].found /\ query'[p].put = query[p].put
                           /\ query'[p].idx = query[p].idx /\ query'[p].stamp = query[p].stamp
    BY <1>4, <1>6 DEF Shape, Asked, NewerInv
  <2>3. \A p \in Queries : query'[p].found <= d /\ query'[p].dated <= d
    BY <1>1, <1>4, <1>6, <2>1, <2>2
  <2>4. /\ \A s \in Scopes : disk[s].builtAt <= d
        /\ \A o \in Others : other[o].dated <= d
        /\ \A j \in Jobs : job[j].dated <= d
    BY <2>1 DEF NewerInv, Shape, Indexes, Outside, Tasks
  <2>5. \A p \in Queries : query'[p].pc = "dated" => p = q /\ query'[p].dated = d
    BY <1>4, <1>6, <1>7
  <2>6. \A p \in Queries : query'[p].pc # "reload"
    BY <1>4, <1>6, <1>7
  <2>7. \A p \in Queries : query'[p].stamp # "missing" =>
          query'[p].idx.builtAt >= query'[p].found \/ query'[p].idx.docs \in query'[p].put
    BY <2>2 DEF NewerInv
  <2> QED BY <1>2, <2>3, <2>4, <2>5, <2>6, <2>7 DEF NewerInv
<1>13. AccountedInv'
  <2> SUFFICES ASSUME NEW p \in Queries
               PROVE /\ Repairing(p)' => query'[p].stamp # "current"
                                         /\ corpus'[query'[p].scope] \in query'[p].seen
                     /\ query'[p].pc \in Building => query'[p].snap \in query'[p].seen
                     /\ query'[p].pc = "reload" => Finds(p)'
                     /\ query'[p].pc = "answered" /\ query'[p].stamp = "current" => Rests(p)'
    BY DEF AccountedInv
  <2>1. CASE p = q
    BY <1>2, <1>4, <1>6, <2>1 DEF AccountedInv, Repairing, Building
  <2>2. CASE p # q
    <3>1. Rests(p) => Rests(p)'
      BY <1>2, <1>6, <2>2 DEF Rests
    <3> QED BY <1>2, <1>6, <1>7, <2>2, <3>1 DEF AccountedInv, Repairing
  <2> QED BY <2>1, <2>2
<1> QED BY <1>8, <1>9, <1>10, <1>11, <1>12, <1>13

(* Everyone who has waited for the rebuild is to read what it has put there. *)
LEMMA RepairRenamesInv ==
  ASSUME IndexInv, NEW q \in Queries, RepairRenames(q)
  PROVE  IndexInv'
<1> USE DEF IndexInv
<1> DEFINE s == query[q].scope
           W == Waiting(s) \cup {q}
<1>1. query[q].pc = "dated" /\ Renamed(s, query[q].dated, query[q].snap)
  BY DEF RepairRenames
<1>2. /\ inflight' = [inflight EXCEPT ![s] = None] /\ statCache' = [t \in Scopes |-> None]
      /\ query' = [p \in Queries |-> IF p \in W
                     THEN [query[p] EXCEPT !.pc = "reload", !.dated = 0] ELSE query[p]]
      /\ UNCHANGED <<cache, building, job, other>>
  BY DEF RepairRenames
<1>3. /\ s \in Scopes /\ query[q].snap \in Docs /\ inflight[s] = q /\ query[q].waited = None
      /\ query[q].snap \in query[q].seen /\ query[q].dated \in Nat /\ query[q].dated <= builds
      /\ \A p \in Queries : query[p].found <= query[q].dated
  BY <1>1 DEF InlineInv, Repairing, Building, Shape, Asked, AccountedInv, NewerInv
<1>4. /\ disk' \in [Scopes -> Indexes]
      /\ disk'[s].builtAt = query[q].dated /\ disk'[s].docs = query[q].snap
      /\ \A t \in Scopes : /\ t # s => disk'[t] = disk[t]
                           /\ disk'[t].builtAt <= builds
                           /\ \A n \in Nat : n <= disk[t].builtAt =>
                                n <= disk'[t].builtAt \/ <<t, n>> \in undercut'
      /\ undercut \subseteq undercut'
      /\ UNCHANGED <<corpus, edits, builds>>
  BY <1>1, <1>3, InPlace
<1>5. \A p \in W : /\ p \in Queries /\ query[p].scope = s
                   /\ p = q \/ (query[p].pc = "wait" /\ query[p].waited = q)
  <2> SUFFICES ASSUME NEW p \in Waiting(s)
               PROVE  p \in Queries /\ query[p].scope = s /\ query[p].pc = "wait"
                      /\ query[p].waited = q
    OBVIOUS
  <2>1. p \in Queries /\ query[p].pc = "wait" /\ query[p].scope = s
    BY DEF Waiting
  <2> QED BY <1>3, <2>1 DEF InlineInv
<1>6. \A p \in Queries : query[p].pc \in Building \cup {"wait"} /\ query[p].scope = s => p \in W
  BY <1>3 DEF InlineInv, Waiting
<1>7. q \in W
  OBVIOUS
<1> HIDE DEF W
<1>8. ASSUME NEW p \in W
      PROVE  /\ query'[p] \in Asked
             /\ query'[p].pc = "reload" /\ query'[p].scope = s /\ query'[p].dated = 0
             /\ query'[p].stamp = query[p].stamp /\ query'[p].idx = query[p].idx
             /\ query'[p].snap = query[p].snap /\ query'[p].found = query[p].found
             /\ query'[p].waited = query[p].waited /\ query'[p].seen = query[p].seen
             /\ query'[p].put = query[p].put
  <2>1. query[p] \in Asked /\ p \in Queries /\ query[p].scope = s
    BY <1>5 DEF Shape
  <2> HIDE DEF s
  <2> QED BY <1>2, <2>1 DEF Asked
<1>9. \A p \in Queries \ W : query'[p] = query[p]
  BY <1>2
<1>10. /\ \A p \in Queries : p # q => query[p].pc \notin {"dated", "reload"}
       /\ \A j \in Jobs : job[j].pc \notin {"loop", "dated"}
  BY <1>1 DEF ThreadInv
<1>11. Shape'
  <2>1. \A p \in Queries : query'[p] \in Asked
    BY <1>8, <1>9 DEF Shape
  <2>2. query' \in [Queries -> Asked]
    BY <1>2, <2>1, Zenon
  <2>3. inflight' \in [Scopes -> Queries \cup {None}] /\ statCache' \in [Scopes -> Docs \cup {None}]
    BY <1>2 DEF Shape
  <2> HIDE DEF s
  <2> QED BY <1>2, <1>4, <2>2, <2>3 DEF Shape
<1>12. InlineInv'
  <2>1. ASSUME NEW p \in Queries
        PROVE  /\ Repairing(p)' => query'[p].scope \in Scopes
               /\ query'[p].pc \in Building => inflight'[query'[p].scope] = p
               /\ query'[p].pc \in {"new", "repair", "build", "dated"} => query'[p].waited = None
               /\ query'[p].pc = "wait" => /\ inflight'[query'[p].scope] # None
                                           /\ query'[p].waited = inflight'[query'[p].scope]
    <3>1. CASE p \in W
      BY <1>3, <1>8, <3>1 DEF Building
    <3>2. CASE p \notin W
      <4>1. query'[p] = query[p] /\ (query[p].pc \in Building \cup {"wait"} => query[p].scope # s)
        BY <1>6, <1>9, <3>2
      <4>2. \A t \in Scopes \ {s} : inflight'[t] = inflight[t]
        BY <1>2 DEF Shape
      <4> QED BY <4>1, <4>2 DEF InlineInv, Repairing, Building
    <3> QED BY <3>1, <3>2
  <2>2. ASSUME NEW t \in Scopes, inflight'[t] # None
        PROVE  query'[inflight'[t]].pc \in Building /\ query'[inflight'[t]].scope = t
    <3>1. t # s /\ inflight'[t] = inflight[t]
      BY <1>2, <1>3, <2>2 DEF Shape
    <3>2. /\ inflight[t] \in Queries /\ query[inflight[t]].pc \in Building
          /\ query[inflight[t]].scope = t
      BY <2>2, <3>1 DEF Shape, InlineInv
    <3>3. inflight[t] \notin W
      BY <1>5, <3>1, <3>2
    <3> QED BY <1>9, <3>1, <3>2, <3>3
  <2> QED BY <2>1, <2>2 DEF InlineInv
<1>13. JobsInv'
  BY <1>2 DEF JobsInv
<1>14. ThreadInv'
  <2>1. \A p \in Queries : query'[p].pc # "dated"
    BY <1>7, <1>8, <1>9, <1>10
  <2> QED BY <1>2, <1>10, <2>1 DEF ThreadInv
<1>15. NewerInv'
  <2>1. ASSUME NEW p \in Queries
        PROVE  /\ query'[p].found <= builds /\ query'[p].dated <= builds
               /\ query'[p].stamp # "missing" =>
                    \/ query'[p].idx.builtAt >= query'[p].found
                    \/ query'[p].idx.docs \in query'[p].put
               /\ query'[p].pc = "reload" =>
                    \/ disk'[query'[p].scope].builtAt >= query'[p].found
                    \/ disk'[query'[p].scope].docs \in query'[p].put
               /\ query'[p].pc # "dated"
    <3>1. CASE p \in W
      <4>1. 0 <= builds /\ query[q].dated \in Nat /\ query[p].found \in Nat
            /\ query[p].found <= query[q].dated
        BY <1>3 DEF Shape, Asked
      <4>2. disk'[query'[p].scope].builtAt >= query'[p].found
        BY <1>4, <1>8, <3>1, <4>1
      <4> QED BY <1>8, <3>1, <4>1, <4>2 DEF NewerInv
    <3>2. CASE p \notin W
      BY <1>7, <1>9, <1>10, <3>2 DEF NewerInv
    <3> QED BY <3>1, <3>2
  <2> HIDE DEF s
  <2> QED BY <1>2, <1>4, <2>1 DEF NewerInv
<1>16. AccountedInv'
  <2> SUFFICES ASSUME NEW p \in Queries
               PROVE /\ Repairing(p)' => query'[p].stamp # "current"
                                         /\ corpus'[query'[p].scope] \in query'[p].seen
                     /\ query'[p].pc \in Building => query'[p].snap \in query'[p].seen
                     /\ query'[p].pc = "reload" => Finds(p)'
                     /\ query'[p].pc = "answered" /\ query'[p].stamp = "current" => Rests(p)'
    BY DEF AccountedInv
  <2>1. CASE p \in W
    <3>1. /\ query'[p].pc = "reload" /\ query'[p].scope = s /\ query'[p].stamp = query[p].stamp
          /\ query'[p].seen = query[p].seen /\ query'[p].waited = query[p].waited
          /\ query'[p].snap = query[p].snap
      BY <1>8, <2>1
    <3>2. query[p].stamp # "current" /\ corpus[s] \in query[p].seen
      BY <1>1, <1>5, <2>1 DEF AccountedInv, Repairing
    <3>3. Finds(p)'
      <4>1. CASE p = q
        BY <1>3, <1>4, <3>1, <4>1 DEF Finds
      <4>2. CASE p # q
        <5>1. query'[p].waited = q /\ q # None
          BY <1>5, <2>1, <3>1, <4>2, IndexAssumption
        <5>2. query'[q].pc = "reload" /\ query'[q].snap = query[q].snap
          BY <1>7, <1>8
        <5> QED BY <1>4, <3>1, <5>1, <5>2 DEF Finds
      <4> QED BY <4>1, <4>2
    <3> QED BY <1>4, <3>1, <3>2, <3>3 DEF Building
  <2>2. CASE p \notin W
    <3>1. query'[p] = query[p] /\ p # q
      BY <1>7, <1>9, <2>2
    <3>2. Rests(p) => Rests(p)'
      <4>1. ASSUME query[p].waited \in Queries, query[query[p].waited].pc = "answered"
            PROVE  query'[query[p].waited] = query[query[p].waited]
        BY <1>1, <1>5, <1>9, <4>1
      <4> QED BY <3>1, <4>1 DEF Rests
    <3> QED BY <1>4, <1>10, <3>1, <3>2 DEF AccountedInv, Repairing
  <2> QED BY <2>1, <2>2
<1>17. ServedInv'
  BY <1>2, <1>4, StillServed DEF ServedInv
<1> QED BY <1>11, <1>12, <1>13, <1>14, <1>15, <1>16, <1>17

(* It finds what the build it has waited for had read, or what another      *)
(* process has put there since.                                             *)
LEMMA ReloadInv ==
  ASSUME IndexInv, NEW q \in Queries, Reload(q)
  PROVE  IndexInv'
<1> USE DEF IndexInv
<1> DEFINE s == query[q].scope
<1>1. /\ query[q].pc = "reload" /\ MayReload(q)
      /\ cache' = [cache EXCEPT ![s] = disk[s]]
      /\ query' = [query EXCEPT ![q] =
                     [@ EXCEPT !.pc = "answered", !.idx = disk[s], !.stamp = "current"]]
      /\ UNCHANGED <<corpus, edits, disk, builds, undercut, statCache, inflight, building, job, other>>
  BY DEF Reload, MayReload, disks
<1>2. /\ s \in Scopes /\ disk[s] \in Indexes /\ Finds(q)
  BY <1>1 DEF InlineInv, Repairing, Shape, AccountedInv
<1>3. PICK next : next = [query[q] EXCEPT !.pc = "answered", !.idx = disk[s], !.stamp = "current"]
  OBVIOUS
<1>4. /\ next \in Asked /\ next.pc = "answered" /\ next.idx = disk[s] /\ next.stamp = "current"
      /\ next.dated = query[q].dated /\ next.snap = query[q].snap
      /\ next.found = query[q].found /\ next.seen = query[q].seen
      /\ next.put = query[q].put /\ next.waited = query[q].waited
  <2>1. query[q] \in Asked
    BY DEF Shape
  <2> HIDE DEF s
  <2> QED BY <1>2, <1>3, <2>1 DEF Asked
<1>5. query' = [query EXCEPT ![q] = next]
  BY <1>1, <1>3 DEF Shape
<1>6. query'[q] = next /\ \A p \in Queries \ {q} : query'[p] = query[p]
  BY <1>5 DEF Shape
<1>7. Shape'
  BY <1>1, <1>2, <1>4, <1>5 DEF Shape
<1>8. InlineInv'
  <2>1. \A t \in Scopes : inflight[t] # None => inflight[t] \in Queries \ {q}
    BY <1>1 DEF Shape, InlineInv, Building
  <2>2. \A t \in Scopes : inflight[t] # None =>
          query'[inflight[t]].pc \in Building /\ query'[inflight[t]].scope = t
    BY <1>6, <2>1 DEF InlineInv
  <2>3. ASSUME NEW p \in Queries
        PROVE  /\ Repairing(p)' => query'[p].scope \in Scopes
               /\ query'[p].pc \in Building => inflight[query'[p].scope] = p
               /\ query'[p].pc \in {"new", "repair", "build", "dated"} => query'[p].waited = None
               /\ query'[p].pc = "wait" => /\ inflight[query'[p].scope] # None
                                           /\ query'[p].waited = inflight[query'[p].scope]
    <3>1. CASE p = q
      BY <1>4, <1>6, <3>1 DEF Repairing, Building
    <3>2. CASE p # q
      BY <1>6, <3>2 DEF InlineInv, Repairing
    <3> QED BY <3>1, <3>2
  <2> QED BY <1>1, <2>2, <2>3 DEF InlineInv
<1>9. JobsInv' /\ ThreadInv'
  BY <1>1, <1>4, <1>6 DEF JobsInv, ThreadInv
<1>10. NewerInv'
  <2>1. ASSUME NEW p \in Queries
        PROVE  /\ query'[p].found = query[p].found /\ query'[p].dated = query[p].dated
               /\ query'[p].put = query[p].put
               /\ query'[p].pc = query[p].pc \/ (p = q /\ query'[p].pc = "answered")
               /\ query'[p].scope = query[p].scope \/ p = q
    BY <1>4, <1>6
  <2>2. next.idx.builtAt >= next.found \/ next.idx.docs \in next.put
    BY <1>1, <1>4 DEF NewerInv
  <2>3. ASSUME NEW p \in Queries
        PROVE  /\ query'[p].found <= builds /\ query'[p].dated <= builds
               /\ query'[p].stamp # "missing" =>
                    \/ query'[p].idx.builtAt >= query'[p].found
                    \/ query'[p].idx.docs \in query'[p].put
               /\ query'[p].pc = "reload" =>
                    \/ disk[query'[p].scope].builtAt >= query'[p].found
                    \/ disk[query'[p].scope].docs \in query'[p].put
               /\ query'[p].pc # "dated"
    <3>1. CASE p = q
      BY <1>4, <1>6, <2>1, <2>2, <3>1 DEF NewerInv
    <3>2. CASE p # q
      <4>1. query[p].pc # "dated"
        BY <1>1, <3>2 DEF ThreadInv
      <4> QED BY <1>6, <3>2, <4>1 DEF NewerInv
    <3> QED BY <3>1, <3>2
  <2> HIDE DEF s
  <2> QED BY <1>1, <2>3 DEF NewerInv
<1>11. AccountedInv'
  <2> SUFFICES ASSUME NEW p \in Queries
               PROVE /\ Repairing(p)' => query'[p].stamp # "current"
                                         /\ corpus'[query'[p].scope] \in query'[p].seen
                     /\ query'[p].pc \in Building => query'[p].snap \in query'[p].seen
                     /\ query'[p].pc = "reload" => Finds(p)'
                     /\ query'[p].pc = "answered" /\ query'[p].stamp = "current" => Rests(p)'
    BY DEF AccountedInv
  <2>1. ASSUME NEW w \in Queries
        PROVE  /\ query'[w].snap = query[w].snap
               /\ query[w].pc \in {"reload", "answered"} => query'[w].pc \in {"reload", "answered"}
               /\ query[w].pc = "answered" => query'[w].pc = "answered"
    BY <1>4, <1>6
  <2>2. CASE p = q
    <3>1. Rests(q)'
      <4>1. CASE query[q].waited = None
        BY <1>2, <1>4, <1>6, <4>1 DEF Finds, Rests
      <4>2. CASE query[q].waited # None
        <5>1. /\ query[q].waited \in Queries /\ query[query[q].waited].pc = "answered"
              /\ disk[s].docs \in query[q].put \cup {query[query[q].waited].snap}
          BY <1>1, <1>2, <4>2 DEF Finds, MayReload
        <5>2. query'[q].waited = query[q].waited /\ query'[q].put = query[q].put
              /\ query'[q].idx.docs = disk[s].docs
          BY <1>4, <1>6
        <5> HIDE DEF s
        <5> QED BY <2>1, <5>1, <5>2 DEF Rests
      <4> QED BY <4>1, <4>2
    <3> QED BY <1>4, <1>6, <2>2, <3>1 DEF Repairing, Building
  <2>3. CASE p # q
    <3>1. query'[p] = query[p]
      BY <1>6, <2>3
    <3>2. Finds(p) => Finds(p)'
      BY <1>1, <2>1, <3>1 DEF Finds
    <3>3. Rests(p) => Rests(p)'
      BY <2>1, <3>1 DEF Rests
    <3> QED BY <1>1, <3>1, <3>2, <3>3 DEF AccountedInv, Repairing
  <2> QED BY <2>2, <2>3
<1>12. ServedInv'
  <2> SUFFICES ASSUME NEW j \in Jobs, NEW b \in job[j].built \ undercut
               PROVE  /\ b[2] <= disk[b[1]].builtAt
                      /\ job[j].pc = "done" => cache'[b[1]] = None \/ cache'[b[1]].builtAt >= b[2]
    BY <1>1 DEF ServedInv
  <2>1. b[1] \in Scopes /\ b[2] \in Nat /\ b[2] <= disk[b[1]].builtAt
    BY DEF Shape, Tasks, ServedInv
  <2>2. cache'[b[1]] = IF b[1] = s THEN disk[s] ELSE cache[b[1]]
    BY <1>1, <2>1 DEF Shape
  <2>3. disk[b[1]].builtAt \in Nat
    BY <2>1 DEF Shape, Indexes
  <2> HIDE DEF s
  <2> QED BY <2>1, <2>2, <2>3 DEF ServedInv
<1> QED BY <1>7, <1>8, <1>9, <1>10, <1>11, <1>12

(* A rebuild that throws releases those who wait for it, with their stamps. *)
LEMMA RepairFailedInv ==
  ASSUME IndexInv, NEW q \in Queries, RepairFailed(q)
  PROVE  IndexInv'
<1> USE DEF IndexInv
<1> DEFINE s == query[q].scope
           W == Waiting(s) \cup {q}
<1>1. /\ query[q].pc \in Building
      /\ inflight' = [inflight EXCEPT ![s] = None]
      /\ query' = [p \in Queries |-> IF p \in W THEN Admitted(query[p]) ELSE query[p]]
      /\ UNCHANGED <<corpus, edits, disk, builds, undercut, cache, statCache, building, job, other>>
  BY DEF RepairFailed, Breaks, Building, disks
<1>2. s \in Scopes /\ inflight[s] = q
  BY <1>1 DEF InlineInv, Repairing, Building
<1>3. \A p \in W : p \in Queries /\ (p = q \/ (query[p].pc = "wait" /\ query[p].waited = q))
  <2> SUFFICES ASSUME NEW p \in Waiting(s)
               PROVE  p \in Queries /\ query[p].pc = "wait" /\ query[p].waited = q
    OBVIOUS
  <2>1. p \in Queries /\ query[p].pc = "wait" /\ query[p].scope = s
    BY DEF Waiting
  <2> QED BY <1>2, <2>1 DEF InlineInv
<1>4. \A p \in Queries : query[p].pc \in Building \cup {"wait"} /\ query[p].scope = s => p \in W
  BY <1>2 DEF InlineInv, Waiting
<1>5. \A p \in W : query[p].pc \in Building \cup {"wait"}
  BY <1>1, <1>3
<1> HIDE DEF W
<1>6. ASSUME NEW p \in W
      PROVE  /\ query'[p] \in Asked /\ query'[p].pc = "answered" /\ query'[p].stamp # "current"
             /\ query'[p].stamp = query[p].stamp
             /\ query'[p].idx = query[p].idx /\ query'[p].found = query[p].found
             /\ query'[p].put = query[p].put /\ query'[p].dated = 0
  <2>1. query'[p] = Admitted(query[p]) /\ query[p] \in Asked
    BY <1>1, <1>3 DEF Shape
  <2>2. query[p].stamp # "current"
    BY <1>3, <1>5 DEF AccountedInv, Repairing, Building
  <2> QED BY <2>1, <2>2, AdmittedShape
<1>7. \A p \in Queries \ W : query'[p] = query[p]
  BY <1>1
<1>8. Shape'
  <2>1. query' \in [Queries -> Asked]
    <3>1. \A p \in Queries : query'[p] \in Asked
      BY <1>6, <1>7 DEF Shape
    <3> QED BY <1>1, <3>1, Zenon
  <2>2. inflight' \in [Scopes -> Queries \cup {None}]
    BY <1>1 DEF Shape
  <2> HIDE DEF s
  <2> QED BY <1>1, <2>1, <2>2 DEF Shape
<1>9. InlineInv'
  <2>1. ASSUME NEW p \in Queries
        PROVE  /\ Repairing(p)' => query'[p].scope \in Scopes
               /\ query'[p].pc \in Building => inflight'[query'[p].scope] = p
               /\ query'[p].pc \in {"new", "repair", "build", "dated"} => query'[p].waited = None
               /\ query'[p].pc = "wait" => /\ inflight'[query'[p].scope] # None
                                           /\ query'[p].waited = inflight'[query'[p].scope]
    <3>1. CASE p \in W
      BY <1>6, <3>1 DEF Repairing, Building
    <3>2. CASE p \notin W
      <4>1. query'[p] = query[p] /\ (query[p].pc \in Building \cup {"wait"} => query[p].scope # s)
        BY <1>4, <1>7, <3>2
      <4>2. \A t \in Scopes \ {s} : inflight'[t] = inflight[t]
        BY <1>1 DEF Shape
      <4> QED BY <4>1, <4>2 DEF InlineInv, Repairing, Building
    <3> QED BY <3>1, <3>2
  <2>2. ASSUME NEW t \in Scopes, inflight'[t] # None
        PROVE  query'[inflight'[t]].pc \in Building /\ query'[inflight'[t]].scope = t
    <3>1. t # s /\ inflight'[t] = inflight[t]
      BY <1>1, <1>2, <2>2 DEF Shape
    <3>2. /\ inflight[t] \in Queries /\ query[inflight[t]].pc \in Building
          /\ query[inflight[t]].scope = t
      BY <2>2, <3>1 DEF Shape, InlineInv
    <3>3. inflight[t] \notin W
      BY <1>3, <3>1, <3>2 DEF Building
    <3> QED BY <1>7, <3>1, <3>2, <3>3
  <2> QED BY <2>1, <2>2 DEF InlineInv
<1>10. JobsInv' /\ ServedInv'
  BY <1>1 DEF JobsInv, ServedInv
<1>11. ThreadInv'
  BY <1>1, <1>6, <1>7 DEF ThreadInv
<1>12. NewerInv'
  <2>1. ASSUME NEW p \in Queries
        PROVE  /\ query'[p].found = query[p].found /\ query'[p].dated <= builds
               /\ query'[p].stamp # "missing" =>
                    \/ query'[p].idx.builtAt >= query'[p].found
                    \/ query'[p].idx.docs \in query'[p].put
               /\ query'[p].pc \in {"reload", "dated"} => query'[p] = query[p]
    <3>1. 0 <= builds
      BY DEF Shape
    <3>2. CASE p \in W
      BY <1>6, <3>1, <3>2 DEF NewerInv
    <3>3. CASE p \notin W
      BY <1>7, <3>3 DEF NewerInv
    <3> QED BY <3>2, <3>3
  <2> HIDE DEF s
  <2> QED BY <1>1, <2>1 DEF NewerInv
<1>13. AccountedInv'
  <2> SUFFICES ASSUME NEW p \in Queries \ W
               PROVE /\ Repairing(p)' => query'[p].stamp # "current"
                                         /\ corpus'[query'[p].scope] \in query'[p].seen
                     /\ query'[p].pc \in Building => query'[p].snap \in query'[p].seen
                     /\ query'[p].pc = "reload" => Finds(p)'
                     /\ query'[p].pc = "answered" /\ query'[p].stamp = "current" => Rests(p)'
    BY <1>6 DEF AccountedInv, Repairing, Building
  <2>1. query'[p] = query[p]
    BY <1>7
  <2>2. ASSUME query[p].waited \in Queries, query[query[p].waited].pc \in {"reload", "answered"}
        PROVE  query'[query[p].waited] = query[query[p].waited]
    BY <1>5, <1>7, <2>2 DEF Building
  <2>3. Finds(p) => Finds(p)'
    BY <1>1, <2>1, <2>2 DEF Finds
  <2>4. Rests(p) => Rests(p)'
    BY <2>1, <2>2 DEF Rests
  <2> QED BY <1>1, <2>1, <2>3, <2>4 DEF AccountedInv, Repairing
<1> QED BY <1>8, <1>9, <1>10, <1>11, <1>12, <1>13

-----------------------------------------------------------------------------
(* Jobs. What a job that is not building does next, without a build: while  *)
(* an index is read back no job moves.                                      *)
LEMMA JobMovesInv ==
  ASSUME IndexInv, NEW j \in Jobs, NEW next \in Tasks,
         Free \/ job[j].pc = "loop",
         job[j].pc \in {"new", "loop"}, job' = [job EXCEPT ![j] = next],
         next.pc \in {"loop", "failed"}, next.built \subseteq job[j].built, next.dated <= builds,
         UNCHANGED <<disks, cache, statCache, inflight, building, query, other>>
  PROVE  IndexInv'
<1> USE DEF IndexInv
<1>1. UNCHANGED <<corpus, edits, disk, builds, undercut, cache, statCache, inflight, building,
                  query, other>>
  BY DEF disks
<1>2. job'[j] = next /\ \A k \in Jobs \ {j} : job'[k] = job[k]
  BY DEF Shape
<1>3. Shape'
  BY <1>1 DEF Shape
<1>4. JobsInv'
  <2>1. \A s \in Scopes : building[s] # None => building[s] \in Jobs \ {j}
    BY DEF Shape, JobsInv, Building
  <2> QED BY <1>1, <1>2, <2>1 DEF JobsInv, Building
<1>5. ThreadInv'
  <2>1. \A q \in Queries : query[q].pc \notin {"dated", "reload"}
    BY DEF Free, ThreadInv
  <2> QED BY <1>1, <2>1 DEF ThreadInv
<1>6. ServedInv'
  BY <1>1, <1>2 DEF ServedInv
<1>7. NewerInv'
  BY <1>1, <1>2 DEF NewerInv
<1>8. InlineInv' /\ AccountedInv'
  BY <1>1 DEF InlineInv, Repairing, AccountedInv, Finds, Rests
<1> QED BY <1>3, <1>4, <1>5, <1>6, <1>7, <1>8

LEMMA JobStartInv ==
  ASSUME IndexInv, NEW j \in Jobs, JobStart(j)
  PROVE  IndexInv'
<1>1. PICK todo \in JobScopes : job' = [job EXCEPT ![j] = [@ EXCEPT !.pc = "loop", !.todo = todo]]
  BY DEF JobStart
<1> DEFINE next == [job[j] EXCEPT !.pc = "loop", !.todo = todo]
<1>2. next \in Tasks /\ next.pc = "loop" /\ next.built = job[j].built /\ next.dated = job[j].dated
  BY IndexAssumption DEF IndexInv, Shape, Tasks
<1>3. job' = [job EXCEPT ![j] = next]
  BY <1>1 DEF IndexInv, Shape
<1>4. job[j].dated <= builds
  BY DEF IndexInv, NewerInv
<1> HIDE DEF next
<1> QED BY <1>2, <1>3, <1>4, JobMovesInv DEF JobStart, memory

LEMMA JobSkipInv ==
  ASSUME IndexInv, NEW j \in Jobs, JobSkip(j)
  PROVE  IndexInv'
<1> DEFINE next == [job[j] EXCEPT !.todo = Tail(job[j].todo)]
<1>1. job[j] \in Tasks /\ job[j].pc = "loop" /\ Tail(job[j].todo) \in Seq(Scopes)
      /\ job[j].dated <= builds
  BY DEF JobSkip, IndexInv, Shape, Tasks, NewerInv
<1>2. next \in Tasks /\ next.pc = "loop" /\ next.built = job[j].built /\ next.dated = job[j].dated
  BY <1>1 DEF Tasks
<1>3. job' = [job EXCEPT ![j] = next]
  BY DEF JobSkip, IndexInv, Shape
<1> HIDE DEF next
<1> QED BY <1>1, <1>2, <1>3, JobMovesInv DEF JobSkip, memory

LEMMA JobBuildInv ==
  ASSUME IndexInv, NEW j \in Jobs, JobBuild(j)
  PROVE  IndexInv'
<1> USE DEF IndexInv
<1> DEFINE s == Head(job[j].todo)
           next == [job[j] EXCEPT !.pc = "build", !.snap = corpus[s]]
<1>1. /\ job[j].pc = "loop" /\ job[j].todo # <<>> /\ building[s] = None
      /\ building' = [building EXCEPT ![s] = j] /\ job' = [job EXCEPT ![j] = next]
      /\ UNCHANGED <<corpus, edits, disk, builds, undercut, cache, statCache, inflight, query, other>>
  BY DEF JobBuild, disks
<1>2. job[j] \in Tasks /\ s \in Scopes /\ corpus[s] \in Docs
  BY <1>1 DEF Shape, Tasks
<1>3. /\ next \in Tasks /\ next.pc = "build" /\ next.todo = job[j].todo
      /\ next.built = job[j].built /\ next.dated = job[j].dated
  BY <1>2 DEF Tasks
<1> HIDE DEF next
<1>4. job'[j] = next /\ \A k \in Jobs \ {j} : job'[k] = job[k]
  BY <1>1 DEF Shape
<1>5. building'[s] = j /\ \A t \in Scopes \ {s} : building'[t] = building[t]
  BY <1>1, <1>2 DEF Shape
<1>6. Shape'
  BY <1>1, <1>3 DEF Shape
<1>7. JobsInv'
  <2>1. \A t \in Scopes : building[t] # None => building[t] \in Jobs \ {j}
    BY <1>1 DEF Shape, JobsInv, Building
  <2>2. \A k \in Jobs \ {j} : job[k].pc \in Building => Head(job[k].todo) \in Scopes \ {s}
    BY <1>1, IndexAssumption DEF JobsInv, Shape, Tasks
  <2>3. \A k \in Jobs : job'[k].pc \in Building =>
          job'[k].todo # <<>> /\ building'[Head(job'[k].todo)] = k
    BY <1>1, <1>3, <1>4, <1>5, <2>2 DEF JobsInv
  <2>4. \A t \in Scopes : building'[t] # None =>
          job'[building'[t]].pc \in Building /\ Head(job'[building'[t]].todo) = t
    BY <1>3, <1>4, <1>5, <2>1 DEF JobsInv, Building
  <2> QED BY <2>3, <2>4 DEF JobsInv
<1>8. ThreadInv'
  BY <1>1, <1>3, <1>4 DEF ThreadInv
<1>9. NewerInv'
  BY <1>1, <1>3, <1>4 DEF NewerInv
<1>10. ServedInv'
  BY <1>1, <1>3, <1>4 DEF ServedInv
<1>11. InlineInv' /\ AccountedInv'
  BY <1>1 DEF InlineInv, Repairing, AccountedInv, Finds, Rests
<1> QED BY <1>6, <1>7, <1>8, <1>9, <1>10, <1>11

(* A job's entry in INDEX_INFLIGHT goes with its build. *)
LEMMA JobLeaves ==
  ASSUME Shape, JobsInv, NEW j \in Jobs, NEW next, job[j].pc \in Building,
         building' = [building EXCEPT ![Head(job[j].todo)] = None],
         job' = [job EXCEPT ![j] = next], next.pc \in {"loop", "failed"}
  PROVE  JobsInv' /\ building' \in [Scopes -> Jobs \cup {None}]
<1> DEFINE s == Head(job[j].todo)
<1>1. job'[j] = next /\ \A k \in Jobs \ {j} : job'[k] = job[k]
  BY DEF Shape
<1>2. job[j].todo # <<>> /\ building[s] = j /\ s \in Scopes
  BY DEF JobsInv, Shape, Tasks
<1>3. building'[s] = None /\ \A t \in Scopes \ {s} : building'[t] = building[t]
  BY <1>2 DEF Shape
<1>4. \A k \in Jobs \ {j} : job[k].pc \in Building =>
        Head(job[k].todo) \in Scopes \ {s}
  BY <1>2 DEF JobsInv, Shape, Tasks
<1>5. \A t \in Scopes \ {s} : building[t] # None => building[t] \in Jobs \ {j}
  BY DEF JobsInv, Shape
<1>6. \A k \in Jobs : job'[k].pc \in Building =>
        job'[k].todo # <<>> /\ building'[Head(job'[k].todo)] = k
  BY <1>1, <1>3, <1>4 DEF JobsInv, Building
<1>7. \A t \in Scopes : building'[t] # None =>
        job'[building'[t]].pc \in Building /\ Head(job'[building'[t]].todo) = t
  BY <1>1, <1>3, <1>5 DEF JobsInv
<1> QED BY <1>6, <1>7 DEF JobsInv, Shape

LEMMA JobDatesInv ==
  ASSUME IndexInv, NEW j \in Jobs, JobDates(j)
  PROVE  IndexInv'
<1> USE DEF IndexInv
<1> DEFINE d == builds + 1
<1>1. d \in Nat /\ builds <= d /\ builds \in Nat
  BY DEF Shape
<1>2. /\ job[j].pc = "build" /\ Free /\ builds' = d
      /\ job' = [job EXCEPT ![j] = [@ EXCEPT !.pc = "dated", !.dated = d]]
      /\ UNCHANGED <<corpus, edits, disk, undercut, cache, statCache, inflight, building, query, other>>
  BY DEF JobDates, Dated, memory
<1> HIDE DEF d
<1>3. PICK next : next = [job[j] EXCEPT !.pc = "dated", !.dated = d]
  OBVIOUS
<1>4. /\ next \in Tasks /\ next.pc = "dated" /\ next.dated = d
      /\ next.todo = job[j].todo /\ next.built = job[j].built
  <2>1. job[j] \in Tasks
    BY DEF Shape
  <2> QED BY <1>1, <1>3, <2>1 DEF Tasks
<1>5. job' = [job EXCEPT ![j] = next]
  BY <1>2, <1>3 DEF Shape
<1>6. job'[j] = next /\ \A k \in Jobs \ {j} : job'[k] = job[k]
  BY <1>5 DEF Shape
<1>7. Shape'
  BY <1>1, <1>2, <1>4, <1>5 DEF Shape
<1>8. JobsInv'
  BY <1>2, <1>4, <1>6 DEF JobsInv, Building, Shape
<1>9. ThreadInv'
  <2>1. \A q \in Queries : query[q].pc \notin {"dated", "reload"}
    BY <1>2 DEF Free
  <2> QED BY <1>2, <2>1 DEF ThreadInv
<1>10. NewerInv'
  <2>1. /\ \A s \in Scopes : disk[s].builtAt \in Nat /\ disk[s].builtAt <= builds
        /\ \A o \in Others : other[o].dated \in Nat /\ other[o].dated <= builds
        /\ \A k \in Jobs : job[k].dated \in Nat /\ job[k].dated <= builds
        /\ \A q \in Queries : /\ query[q].found \in Nat /\ query[q].found <= builds
                              /\ query[q].dated \in Nat /\ query[q].dated <= builds
    BY DEF Shape, Indexes, Outside, Tasks, Asked, NewerInv
  <2>2. \A n \in Nat : n <= builds => n <= d
    BY <1>1
  <2>3. /\ \A s \in Scopes : disk[s].builtAt <= d
        /\ \A o \in Others : other[o].dated <= d
        /\ \A q \in Queries : query[q].found <= d /\ query[q].dated <= d
    BY <2>1, <2>2
  <2>4. \A k \in Jobs : job'[k].dated <= d
    BY <1>1, <1>4, <1>6, <2>1, <2>2
  <2> QED BY <1>2, <2>3, <2>4 DEF NewerInv
<1>11. ServedInv'
  BY <1>2, <1>4, <1>6 DEF ServedInv
<1>12. InlineInv' /\ AccountedInv'
  BY <1>2 DEF InlineInv, Repairing, AccountedInv, Finds, Rests
<1> QED BY <1>7, <1>8, <1>9, <1>10, <1>11, <1>12

LEMMA JobRenamesInv ==
  ASSUME IndexInv, NEW j \in Jobs, JobRenames(j)
  PROVE  IndexInv'
<1> USE DEF IndexInv
<1> DEFINE s == Head(job[j].todo)
           d == job[j].dated
           next == [NewJob EXCEPT !.pc = "loop", !.todo = Tail(job[j].todo),
                                  !.built = job[j].built \cup {<<s, d>>}]
<1>1. /\ job[j].pc = "dated" /\ Renamed(s, d, job[j].snap)
      /\ building' = [building EXCEPT ![s] = None]
      /\ UNCHANGED <<cache, statCache, inflight, query, other>>
  BY DEF JobRenames
<1>2. job' = [job EXCEPT ![j] = next]
  BY DEF JobRenames, Shape
<1>3. /\ job[j] \in Tasks /\ job[j].todo # <<>> /\ s \in Scopes /\ job[j].snap \in Docs
      /\ d \in Nat /\ d <= builds
  BY <1>1 DEF Shape, JobsInv, Tasks, NewerInv, Building
<1>4. /\ disk' \in [Scopes -> Indexes]
      /\ disk'[s].builtAt = d
      /\ \A t \in Scopes : /\ t # s => disk'[t] = disk[t]
                           /\ disk'[t].builtAt <= builds
                           /\ \A n \in Nat : n <= disk[t].builtAt =>
                                n <= disk'[t].builtAt \/ <<t, n>> \in undercut'
      /\ undercut \subseteq undercut'
      /\ UNCHANGED <<corpus, edits, builds>>
  BY <1>1, <1>3, InPlace
<1>5. /\ next \in Tasks /\ next.pc = "loop" /\ next.built = job[j].built \cup {<<s, d>>}
      /\ next.dated = 0
  <2>1. Tail(job[j].todo) \in Seq(Scopes) /\ <<s, d>> \in Scopes \X Nat
    BY <1>3 DEF Tasks
  <2>2. NewJob.dated = 0
    BY DEF NewJob
  <2> HIDE DEF s, d
  <2> QED BY <1>3, <2>1, <2>2, NewShapes DEF Tasks
<1> HIDE DEF next
<1>6. JobsInv' /\ building' \in [Scopes -> Jobs \cup {None}]
  <2>1. job[j].pc \in Building
    BY <1>1 DEF Building
  <2> QED BY <1>1, <1>2, <1>5, <2>1, JobLeaves
<1>7. \A k \in Jobs : job'[k] = IF k = j THEN next ELSE job[k]
  BY <1>2 DEF Shape
<1>8. Shape'
  BY <1>1, <1>2, <1>4, <1>5, <1>6 DEF Shape
<1>9. \A q \in Queries : query[q].pc \notin {"dated", "reload"}
  BY <1>1 DEF ThreadInv
<1>10. ThreadInv'
  BY <1>1, <1>9 DEF ThreadInv
<1>11. NewerInv'
  <2>1. 0 <= builds
    BY DEF Shape
  <2>2. \A k \in Jobs : job'[k].dated <= builds
    BY <1>5, <1>7, <2>1 DEF NewerInv
  <2> HIDE DEF s, d
  <2> QED BY <1>1, <1>4, <1>9, <2>2 DEF NewerInv
<1>12. ServedInv'
  <2> SUFFICES ASSUME NEW k \in Jobs, NEW b \in job'[k].built \ undercut'
               PROVE  /\ b[2] <= disk'[b[1]].builtAt
                      /\ job'[k].pc = "done" => cache[b[1]] = None \/ cache[b[1]].builtAt >= b[2]
    BY <1>1 DEF ServedInv
  <2>1. CASE b \in job[k].built
    <3>1. /\ b[2] <= disk'[b[1]].builtAt
          /\ job[k].pc = "done" => cache[b[1]] = None \/ cache[b[1]].builtAt >= b[2]
      BY <1>4, <2>1, StillServed
    <3> QED BY <1>5, <1>7, <3>1
  <2>2. CASE b \notin job[k].built
    <3>1. k = j /\ b = <<s, d>>
      BY <1>5, <1>7, <2>2
    <3> QED BY <1>3, <1>4, <1>5, <1>7, <3>1
  <2> QED BY <2>1, <2>2
<1>13. InlineInv'
  BY <1>1 DEF InlineInv, Repairing
<1>14. AccountedInv'
  BY <1>1, <1>4, <1>9 DEF AccountedInv, Repairing, Rests
<1> QED BY <1>6, <1>8, <1>10, <1>11, <1>12, <1>13, <1>14

LEMMA JobFailInv ==
  ASSUME IndexInv, NEW j \in Jobs, JobFail(j)
  PROVE  IndexInv'
<1> USE DEF IndexInv
<1> DEFINE s == Head(job[j].todo)
           next == [NewJob EXCEPT !.pc = "failed"]
<1>1. /\ job' = [job EXCEPT ![j] = next] /\ job[j].todo # <<>>
      /\ UNCHANGED <<disks, cache, statCache, inflight, query, other>>
      /\ building' = IF building[s] = j THEN [building EXCEPT ![s] = None] ELSE building
      /\ job[j].pc = "loop" \/ job[j].pc \in Building
  BY DEF JobFail, Breaks, Building
<1>2. next \in Tasks /\ next.pc = "failed" /\ next.built = {} /\ next.dated = 0
  BY NewShapes DEF NewJob, Tasks
<1>3. CASE job[j].pc = "loop"
  <2>1. building' = building
    <3>1. s \in Scopes
      BY <1>1 DEF Shape, Tasks
    <3>2. building[s] # j
      BY <1>3, <3>1, IndexAssumption DEF JobsInv, Building
    <3> QED BY <1>1, <3>2
  <2>2. next.dated <= builds
    BY <1>2 DEF Shape
  <2> HIDE DEF next
  <2> QED BY <1>1, <1>2, <1>3, <2>1, <2>2, JobMovesInv
<1>4. CASE job[j].pc \in Building
  <2>1. building' = [building EXCEPT ![s] = None]
    BY <1>1, <1>4 DEF JobsInv
  <2> HIDE DEF next
  <2>2. JobsInv' /\ building' \in [Scopes -> Jobs \cup {None}]
    BY <1>1, <1>2, <1>4, <2>1, JobLeaves
  <2>3. \A k \in Jobs : job'[k] = IF k = j THEN next ELSE job[k]
    BY <1>1 DEF Shape
  <2>4. Shape'
    BY <1>1, <1>2, <2>2 DEF Shape, disks
  <2>5. ServedInv'
    BY <1>1, <1>2, <2>3 DEF ServedInv, disks
  <2>6. ThreadInv'
    BY <1>1, <1>2, <2>3 DEF ThreadInv
  <2>7. NewerInv'
    <3>1. 0 <= builds
      BY DEF Shape
    <3>2. \A k \in Jobs : job'[k].dated <= builds
      BY <1>2, <2>3, <3>1 DEF NewerInv
    <3> QED BY <1>1, <3>2 DEF NewerInv, disks
  <2>8. InlineInv' /\ AccountedInv'
    BY <1>1 DEF InlineInv, Repairing, AccountedInv, Finds, Rests, disks
  <2> QED BY <2>2, <2>4, <2>5, <2>6, <2>7, <2>8
<1> QED BY <1>1, <1>3, <1>4

LEMMA JobDoneInv ==
  ASSUME IndexInv, NEW j \in Jobs, JobDone(j)
  PROVE  IndexInv'
<1> USE DEF IndexInv
<1> DEFINE next == [job[j] EXCEPT !.pc = "done"]
<1>1. /\ job[j].pc = "loop" /\ job' = [job EXCEPT ![j] = next]
      /\ cache' = [s \in Scopes |-> None] /\ statCache' = [s \in Scopes |-> None]
      /\ UNCHANGED <<corpus, edits, disk, builds, undercut, inflight, building, query, other>>
  BY DEF JobDone, disks, Shape
<1>2. next \in Tasks /\ next.pc = "done" /\ next.built = job[j].built /\ next.dated = job[j].dated
  BY DEF Shape, Tasks
<1> HIDE DEF next
<1>3. job'[j] = next /\ \A k \in Jobs \ {j} : job'[k] = job[k]
  BY <1>1 DEF Shape
<1>4. Shape'
  BY <1>1, <1>2 DEF Shape
<1>5. JobsInv'
  <2>1. \A s \in Scopes : building[s] # None => building[s] \in Jobs \ {j}
    BY <1>1 DEF Shape, JobsInv, Building
  <2> QED BY <1>1, <1>2, <1>3, <2>1 DEF JobsInv, Building
<1>6. ServedInv'
  <2>1. ASSUME NEW k \in Jobs, NEW b \in job'[k].built PROVE b \in job[k].built /\ b[1] \in Scopes
    <3>1. b \in job[k].built
      BY <1>2, <1>3
    <3> QED BY <3>1 DEF Shape, Tasks
  <2> QED BY <1>1, <2>1 DEF ServedInv
<1>7. ThreadInv' /\ NewerInv'
  BY <1>1, <1>2, <1>3 DEF ThreadInv, NewerInv
<1>8. InlineInv' /\ AccountedInv'
  BY <1>1 DEF InlineInv, Repairing, AccountedInv, Finds, Rests
<1> QED BY <1>4, <1>5, <1>6, <1>7, <1>8

-----------------------------------------------------------------------------
(* What was under way when the server is killed is in no map any more. *)
LEMMA RestartInv ==
  ASSUME IndexInv, Restart
  PROVE  IndexInv'
<1> USE DEF IndexInv
<1> DEFINE lost == [NewQuery EXCEPT !.pc = "lost"]
           forgotten == [NewJob EXCEPT !.pc = "forgotten"]
<1>1. /\ cache' = [s \in Scopes |-> None] /\ statCache' = [s \in Scopes |-> None]
      /\ inflight' = [s \in Scopes |-> None] /\ building' = [s \in Scopes |-> None]
      /\ query' = [q \in Queries |-> IF Repairing(q) THEN lost ELSE query[q]]
      /\ job' = [j \in Jobs |-> IF job[j].pc = "new" THEN job[j] ELSE forgotten]
      /\ UNCHANGED <<corpus, edits, disk, builds, undercut, other>>
  BY DEF Restart, disks
<1>2. /\ lost \in Asked /\ lost.pc = "lost" /\ lost.found = 0 /\ lost.idx.builtAt = 0
      /\ lost.dated = 0
  BY NewShapes DEF NewQuery, Asked, Absent
<1>3. /\ forgotten \in Tasks /\ forgotten.pc = "forgotten" /\ forgotten.built = {}
      /\ forgotten.dated = 0
  BY NewShapes DEF NewJob, Tasks
<1> HIDE DEF lost, forgotten
<1>4. \A q \in Queries : \/ query'[q] = lost
                         \/ query'[q] = query[q] /\ ~Repairing(q)
  BY <1>1
<1>5. Shape'
  BY <1>1, <1>2, <1>3 DEF Shape
<1>6. InlineInv'
  BY <1>1, <1>2, <1>4 DEF InlineInv, Repairing, Building
<1>7. JobsInv'
  BY <1>1, <1>3 DEF JobsInv, Building
<1>8. ThreadInv'
  BY <1>2, <1>4 DEF ThreadInv, Repairing
<1>9. NewerInv'
  <2>1. 0 <= builds
    BY DEF Shape
  <2>2. \A j \in Jobs : job'[j].dated <= builds
    BY <1>1, <1>3, <2>1 DEF NewerInv
  <2>3. \A q \in Queries : query'[q].pc \notin {"reload", "dated"}
    BY <1>2, <1>4 DEF Repairing
  <2>4. \A q \in Queries : /\ query'[q].found <= builds /\ query'[q].dated <= builds
                           /\ query'[q].stamp # "missing" =>
                                \/ query'[q].idx.builtAt >= query'[q].found
                                \/ query'[q].idx.docs \in query'[q].put
    BY <1>2, <1>4, <2>1 DEF NewerInv
  <2> QED BY <1>1, <2>2, <2>3, <2>4 DEF NewerInv
<1>10. AccountedInv'
  <2>1. \A q \in Queries : query[q].pc = "answered" => query'[q] = query[q]
    BY <1>1 DEF Repairing
  <2>2. ASSUME NEW q \in Queries, query'[q].pc = "answered", query'[q].stamp = "current"
        PROVE  Rests(q)'
    <3>1. query'[q] = query[q] /\ Rests(q)
      BY <1>2, <1>4, <2>2 DEF AccountedInv
    <3> QED BY <2>1, <3>1 DEF Rests
  <2>3. \A q \in Queries : ~Repairing(q)' /\ query'[q].pc \notin Building
    BY <1>2, <1>4 DEF Repairing, Building
  <2> QED BY <2>2, <2>3 DEF AccountedInv, Repairing
<1>11. ServedInv'
  BY <1>1, <1>3 DEF ServedInv
<1> QED BY <1>5, <1>6, <1>7, <1>8, <1>9, <1>10, <1>11

-----------------------------------------------------------------------------
(* The invariant is kept by every step. *)
LEMMA StutterInv ==
  ASSUME IndexInv, UNCHANGED vars
  PROVE  IndexInv'
<1> USE DEF IndexInv
<1>1. UNCHANGED <<corpus, edits, disk, builds, undercut, cache, statCache, inflight, building,
                  query, job, other>>
  BY DEF vars, disks, memory, tasks
<1>2. Shape' /\ InlineInv' /\ JobsInv' /\ ThreadInv' /\ NewerInv' /\ ServedInv'
  BY <1>1 DEF Shape, InlineInv, Repairing, JobsInv, ThreadInv, NewerInv, ServedInv
<1>3. AccountedInv'
  BY <1>1 DEF AccountedInv, Repairing, Finds, Rests
<1> QED BY <1>2, <1>3

LEMMA NextInv ==
  ASSUME IndexInv, [IndexNext]_vars
  PROVE  IndexInv'
<1>1. CASE UNCHANGED vars
  BY <1>1, StutterInv
<1>2. ASSUME NEW s \in Scopes, Expire(s) \/ \E f \in Files : Edit(s, f) PROVE IndexInv'
  BY <1>2, ExpireInv, EditInv
<1>3. ASSUME NEW o \in Others, OtherStart(o) \/ OtherDates(o) \/ OtherRenames(o) \/ OtherFails(o)
      PROVE  IndexInv'
  BY <1>3, OtherBeginsInv, OtherRenamesInv
<1>4. ASSUME NEW q \in Queries, Arrive(q) \/ Turn(q) PROVE IndexInv'
  BY <1>4, ArriveInv, RepairRefusedInv, RepairWaitInv, RepairStartInv, RepairDatesInv,
     RepairRenamesInv, ReloadInv, RepairFailedInv DEF Turn
<1>5. ASSUME NEW j \in Jobs, JobStart(j) \/ JobTurn(j) PROVE IndexInv'
  BY <1>5, JobStartInv, JobSkipInv, JobBuildInv, JobDatesInv, JobRenamesInv, JobFailInv,
     JobDoneInv DEF JobTurn
<1> QED BY <1>1, <1>2, <1>3, <1>4, <1>5, ModelBreaksInv, RestartInv DEF IndexNext

(* The maps of the server are exact, its one thread stays with a build      *)
(* until it is read back, and every answer without a stamp is accounted for *)
(* (freshness.js 205-264, search.js 186-342, index-store.js 408-480,        *)
(* memory.js 795-877).                                                      *)
THEOREM IndexInvariant == IndexSpec => []IndexInv
<1>1. IndexInit => IndexInv
  BY InitInv
<1>2. IndexInv /\ [IndexNext]_vars => IndexInv'
  BY NextInv
<1> QED BY <1>1, <1>2, PTL DEF IndexSpec

(* However many queries find an index stale at once, one of them rebuilds   *)
(* it, and nobody waits for a rebuild that is not under way (freshness.js   *)
(* 236-264).                                                                *)
THEOREM OneRebuildAtATime == IndexSpec => []OneInlineBuild
<1>1. IndexInv => OneInlineBuild
  <2> SUFFICES ASSUME IndexInv, NEW s \in Scopes
               PROVE  /\ QueriesBuilding(s) = IF inflight[s] = None THEN {} ELSE {inflight[s]}
                      /\ Waiting(s) # {} => inflight[s] # None
    BY DEF OneInlineBuild
  <2>1. \A q \in Queries : query[q].pc \in Building /\ query[q].scope = s <=> inflight[s] = q
    BY IndexAssumption DEF IndexInv, InlineInv
  <2>2. inflight[s] \in Queries \cup {None} /\ None \notin Queries
    BY IndexAssumption DEF IndexInv, Shape
  <2>3. QueriesBuilding(s) = {q \in Queries : inflight[s] = q}
    BY <2>1 DEF QueriesBuilding
  <2>4. QueriesBuilding(s) = IF inflight[s] = None THEN {} ELSE {inflight[s]}
    BY <2>2, <2>3
  <2>5. Waiting(s) # {} => inflight[s] # None
    BY DEF Waiting, IndexInv, InlineInv
  <2> QED BY <2>4, <2>5
<1> QED BY <1>1, IndexInvariant, PTL

(* Two jobs never rebuild one index at once, and a scope that no job        *)
(* rebuilds is not refused to the next (memory.js 822-837).                 *)
THEOREM OneJobAtATime == IndexSpec => []OneJobPerIndex
<1>1. IndexInv => OneJobPerIndex
  <2> SUFFICES ASSUME IndexInv, NEW s \in Scopes
               PROVE  JobsBuilding(s) = IF building[s] = None THEN {} ELSE {building[s]}
    BY DEF OneJobPerIndex
  <2>1. \A j \in Jobs : job[j].pc \in Building /\ Head(job[j].todo) = s <=> building[s] = j
    BY IndexAssumption DEF IndexInv, JobsInv
  <2>2. building[s] \in Jobs \cup {None} /\ None \notin Jobs
    BY IndexAssumption DEF IndexInv, Shape
  <2>3. JobsBuilding(s) = {j \in Jobs : building[s] = j}
    BY <2>1 DEF JobsBuilding
  <2> QED BY <2>2, <2>3
<1> QED BY <1>1, IndexInvariant, PTL

(* An answer is never older than the index file was when the query came,    *)
(* unless another process has renamed its own index in before the reload    *)
(* (search.js 202-225, 329-342).                                            *)
THEOREM AnswersAreAsNewAsTheFile == IndexSpec => []ServesWhatIsOnDisk
<1>1. IndexInv => ServesWhatIsOnDisk
  BY DEF IndexInv, NewerInv, ServesWhatIsOnDisk
<1> QED BY <1>1, IndexInvariant, PTL

(* An answer without a stamp rests on the corpus as it was since the query  *)
(* came or on its stat pass, on what the rebuild it waited for had read, or *)
(* on the index that another process has renamed in between that rebuild    *)
(* and the reload (search.js 188-193, 329-342; index-store.js 408-480).     *)
THEOREM UnstampedAnswersRest == IndexSpec => []UnstampedIsAccountedFor
<1>1. IndexInv => UnstampedIsAccountedFor
  <2> SUFFICES ASSUME IndexInv, NEW q \in Queries, query[q].pc = "answered",
                      query[q].stamp = "current"
               PROVE  query[q].idx.docs \in query[q].seen \cup query[q].put
                        \cup (IF query[q].waited = None THEN {} ELSE {query[query[q].waited].snap})
    BY DEF UnstampedIsAccountedFor
  <2>1. query[q].waited \in Queries => query[q].waited # None
    BY IndexAssumption
  <2> QED BY <2>1 DEF IndexInv, AccountedInv, Rests
<1> QED BY <1>1, IndexInvariant, PTL

(* Once a job is done, the server answers from no index that is older than  *)
(* those the job has written, but for those that an index dated before has  *)
(* replaced (memory.js 839-844, 873-874; index-store.js 412, 476).          *)
THEOREM DoneJobsAreServed == IndexSpec => []JobDoneIsServed
<1>1. IndexInv => JobDoneIsServed
  BY DEF IndexInv, ServedInv, JobDoneIsServed
<1> QED BY <1>1, IndexInvariant, PTL
=============================================================================
