---------------------------- MODULE MemoryGitProofs ----------------------------
(***************************************************************************)
(* Proofs about commit-memories.js: what a run finds missing stays in HEAD, *)
(* and what it commits carries its date.                                   *)
(*                                                                         *)
(* The first rests on what a reset leaves behind.  A run that holds a      *)
(* memory back puts HEAD's version of it into git's index; from then on,   *)
(* whatever other runs reset or commit, that memory is missing from the    *)
(* index only if it is missing from HEAD, until another run's add.  The    *)
(* status shows a missing memory as deleted unless the index had another   *)
(* version of it.  The second speaks of a run that no other run crossed.   *)
(***************************************************************************)
EXTENDS MemoryGit, TLAPS

PCs == {"new", "stamp", "add", "reset", "commit", "done"}

Entries == [pc : PCs, gone : SUBSET Memories, other : SUBSET Memories,
            todo : SUBSET Paths, held : SUBSET Paths]

(* The shape of the state, without its bounds. *)
Shape == /\ run \in [Runs -> Entries]
         /\ staged = [f \in Paths |-> staged[f]]
         /\ head = [f \in Paths |-> head[f]]
         /\ work = [f \in Paths |-> work[f]]

Alone(r) == r \in UnderWay /\ r \notin crossed

(* A run that accepts no deletions holds back what it found missing. *)
HeldBack(r) == run[r].gone \ run[r].other \in SUBSET run[r].held

(* What it holds back is not missing from the index when it commits. *)
Kept(r) == run[r].pc = "commit" /\ r \notin undone =>
             \A f \in run[r].held \cap (Memories \ Quoted) :
               staged[f] = NoFile => head[f] = NoFile

HeldInv == \A r \in Runs \ Accepting : HeldBack(r) /\ Kept(r)

GitInv == Shape /\ HeldInv

-----------------------------------------------------------------------------
LEMMA MemoriesAreNoShots ==
  /\ \A f \in Memories : f \in Paths /\ f \notin Shots
  /\ \A s \in Shots : s \in Paths
BY GitAssumption DEF Paths, Shots

LEMMA QuotedMemories == \A f \in Memories : IsQuoted(f) <=> f \in Quoted
BY MemoriesAreNoShots DEF IsQuoted

(* In the first state of MemoryGit no run holds anything. *)
LEMMA InitInv == GitInit => GitInv
<1> SUFFICES ASSUME GitInit PROVE GitInv
  OBVIOUS
<1>1. Shape
  <2>1. Idle \in Entries
    BY DEF Idle, Entries, PCs
  <2> QED BY <2>1 DEF GitInit, Shape
<1>2. \A r \in Runs : run[r] = Idle
  BY DEF GitInit
<1>3. HeldInv
  BY <1>2 DEF HeldInv, HeldBack, Kept, Idle
<1> QED BY <1>1, <1>3 DEF GitInv

(* Nothing that happens in the folder touches git or the runs. *)
LEMMA FolderSteps ==
  ASSUME GitInv, UNCHANGED <<staged, head, run, undone>>,
         work' = [f \in Paths |-> work'[f]]
  PROVE  GitInv'
<1>1. Shape'
  BY DEF GitInv, Shape
<1>2. \A r \in Runs : /\ HeldBack(r) => HeldBack(r)'
                      /\ Kept(r) => Kept(r)'
  BY DEF HeldBack, Kept
<1> QED BY <1>1, <1>2 DEF GitInv, HeldInv

-----------------------------------------------------------------------------
(* What the status shows of a missing memory. *)
LEMMA MissingIsSeen ==
  ASSUME NEW f \in Paths, work[f] = NoFile, head[f] # NoFile,
         staged[f] \in {head[f], NoFile}, ~(staged[f] = NoFile /\ Renamed(f))
  PROVE  SaysDeleted(f)
BY DEF SaysDeleted

LEMMA StatusStep ==
  ASSUME GitInv, NEW r \in Runs, Status(r)
  PROVE  GitInv'
<1> DEFINE dirty == \E f \in Paths : Listed(f)
           missing == {f \in Memories : work[f] = NoFile /\ head[f] # NoFile}
           elsewhere == {f \in Memories : /\ head[f] # NoFile
                                          /\ \/ staged[f] \notin {head[f], NoFile}
                                             \/ staged[f] = NoFile /\ Renamed(f)}
           shown == {f \in Paths : SaysDeleted(f)}
           entry == [pc |-> IF dirty THEN "stamp" ELSE "done",
                     gone |-> missing, other |-> elsewhere,
                     todo |-> {f \in Paths : Changed(f)},
                     held |-> IF r \in Accepting THEN {} ELSE shown]
<1>1. /\ run[r].pc = "new"
      /\ run' = [run EXCEPT ![r] = entry]
      /\ UNCHANGED <<work, staged, head, undone>>
  BY DEF Status, tree
<1>2. missing \ elsewhere \in SUBSET shown
  <2> SUFFICES ASSUME NEW f \in missing \ elsewhere PROVE f \in shown
    OBVIOUS
  <2>1. f \in Paths /\ work[f] = NoFile /\ head[f] # NoFile
    BY DEF Paths
  <2>2. staged[f] \in {head[f], NoFile} /\ ~(staged[f] = NoFile /\ Renamed(f))
    BY <2>1
  <2> QED BY <2>1, <2>2, MissingIsSeen
<1>3. missing \in SUBSET Memories /\ elsewhere \in SUBSET Memories /\ shown \in SUBSET Paths
  OBVIOUS
<1> HIDE DEF dirty, missing, elsewhere, shown
<1>4. Shape'
  <2>1. entry \in Entries
    BY <1>3 DEF Entries, PCs
  <2> QED BY <1>1, <2>1 DEF GitInv, Shape
<1>5. run'[r] = entry /\ \A s \in Runs \ {r} : run'[s] = run[s]
  BY <1>1 DEF GitInv, Shape
<1>6. ASSUME NEW s \in Runs \ Accepting PROVE HeldBack(s)' /\ Kept(s)'
  <2>1. CASE s = r
    BY <1>2, <1>5, <2>1 DEF HeldBack, Kept
  <2>2. CASE s # r
    BY <1>1, <1>5, <2>2 DEF GitInv, HeldInv, HeldBack, Kept
  <2> QED BY <2>1, <2>2
<1> QED BY <1>4, <1>6 DEF GitInv, HeldInv

(* A step of one run: what it and the others hold stays, and so does what   *)
(* the index keeps for those at their commit.                               *)
LEMMA GoingOn ==
  ASSUME GitInv, NEW r \in Runs, Shape',
         run'[r].gone = run[r].gone, run'[r].other = run[r].other, run'[r].held = run[r].held,
         \A s \in Runs \ {r} : run'[s] = run[s],
         \A s \in Runs \ Accepting : Kept(s) => Kept(s)'
  PROVE  GitInv'
<1>1. \A s \in Runs : HeldBack(s) => HeldBack(s)'
  BY DEF HeldBack
<1> QED BY <1>1 DEF GitInv, HeldInv

(* The steps of a run that stamps. *)
LEMMA Stamping ==
  ASSUME GitInv, NEW r \in Runs, NEW f \in run[r].todo, run[r].pc = "stamp",
         run' = [run EXCEPT ![r].todo = @ \ {f}],
         UNCHANGED <<staged, head, undone>>, work' = [p \in Paths |-> work'[p]]
  PROVE  GitInv'
<1>1. run[r] \in Entries
  BY DEF GitInv, Shape
<1>2. run' \in [Runs -> Entries]
  BY <1>1 DEF GitInv, Shape, Entries
<1>3. /\ run'[r].gone = run[r].gone /\ run'[r].other = run[r].other
      /\ run'[r].held = run[r].held /\ run'[r].pc = "stamp"
      /\ \A s \in Runs \ {r} : run'[s] = run[s]
  BY <1>1 DEF GitInv, Shape, Entries
<1>4. Shape'
  BY <1>2 DEF GitInv, Shape
<1>5. \A s \in Runs : Kept(s) => Kept(s)'
  BY <1>3 DEF Kept
<1> QED BY <1>3, <1>4, <1>5, GoingOn

LEMMA StampStep ==
  ASSUME GitInv, NEW r \in Runs, Stamp(r) \/ StampFails(r)
  PROVE  GitInv'
<1>1. /\ run[r].pc = "stamp" /\ UNCHANGED <<staged, head, undone>>
      /\ \E f \in run[r].todo : run' = [run EXCEPT ![r].todo = @ \ {f}]
  BY DEF Stamp, StampFails
<1>2. work' = [p \in Paths |-> work'[p]]
  BY DEF GitInv, Shape, Stamp, StampFails, tree, Rewritten
<1> QED BY <1>1, <1>2, Stamping

(* The steps that only move a run's program counter. *)
LEMMA Going ==
  ASSUME GitInv, NEW r \in Runs, NEW from \in PCs, NEW to \in PCs, Goto(r, from, to)
  PROVE  /\ run[r].pc = from
         /\ run' \in [Runs -> Entries]
         /\ run'[r].gone = run[r].gone
         /\ run'[r].other = run[r].other
         /\ run'[r].held = run[r].held
         /\ run'[r].pc = to
         /\ \A s \in Runs \ {r} : run'[s] = run[s]
<1>1. run[r] \in Entries
  BY DEF GitInv, Shape
<1> QED BY <1>1 DEF GitInv, Shape, Goto, Entries

LEMMA StampDoneStep ==
  ASSUME GitInv, NEW r \in Runs, StampDone(r)
  PROVE  GitInv'
<1>1. Goto(r, "stamp", "add") /\ UNCHANGED <<work, staged, head, undone>>
  BY DEF StampDone, tree
<1>2. /\ run' \in [Runs -> Entries] /\ run'[r].gone = run[r].gone
      /\ run'[r].other = run[r].other /\ run'[r].held = run[r].held /\ run'[r].pc = "add"
      /\ \A s \in Runs \ {r} : run'[s] = run[s]
  BY <1>1, Going DEF PCs
<1>3. Shape'
  BY <1>1, <1>2 DEF GitInv, Shape
<1>4. \A s \in Runs : Kept(s) => Kept(s)'
  BY <1>1, <1>2 DEF Kept
<1> QED BY <1>2, <1>3, <1>4, GoingOn

(* An add undoes the resets of the others that are at their commit; the run *)
(* itself goes straight to its commit only if it holds nothing back.        *)
LEMMA AddStep ==
  ASSUME GitInv, NEW r \in Runs, Add(r)
  PROVE  GitInv'
<1> DEFINE to == IF run[r].held = {} THEN "commit" ELSE "reset"
<1>1. /\ Goto(r, "add", to) /\ staged' = work /\ UNCHANGED <<work, head>>
      /\ undone' = undone \cup {q \in Runs \ {r} : run[q].pc = "commit"}
  BY DEF Add, tree
<1>2. /\ run' \in [Runs -> Entries] /\ run'[r].gone = run[r].gone
      /\ run'[r].other = run[r].other /\ run'[r].held = run[r].held /\ run'[r].pc = to
      /\ \A s \in Runs \ {r} : run'[s] = run[s]
  BY <1>1, Going DEF PCs
<1>3. Shape'
  BY <1>1, <1>2 DEF GitInv, Shape
<1>4. ASSUME NEW s \in Runs PROVE Kept(s)'
  <2>1. CASE s = r
    BY <1>2, <2>1 DEF Kept
  <2>2. CASE s # r
    BY <1>1, <1>2, <2>2 DEF Kept
  <2> QED BY <2>1, <2>2
<1> QED BY <1>2, <1>3, <1>4, GoingOn

LEMMA ResetStep ==
  ASSUME GitInv, NEW r \in Runs, Reset(r)
  PROVE  GitInv'
<1>1. /\ Goto(r, "reset", "commit")
      /\ staged' = [f \in Paths |-> IF f \in run[r].held /\ ~IsQuoted(f) THEN head[f] ELSE staged[f]]
      /\ UNCHANGED <<work, head, undone>>
  BY DEF Reset, tree
<1>2. /\ run' \in [Runs -> Entries] /\ run'[r].gone = run[r].gone
      /\ run'[r].other = run[r].other /\ run'[r].held = run[r].held
      /\ \A s \in Runs \ {r} : run'[s] = run[s]
  BY <1>1, Going DEF PCs
<1>3. Shape'
  BY <1>1, <1>2 DEF GitInv, Shape
<1>4. \A f \in Memories \ Quoted :
        /\ f \in run[r].held => staged'[f] = head[f]
        /\ staged'[f] \in {head[f], staged[f]}
  BY <1>1, QuotedMemories, MemoriesAreNoShots
<1>5. ASSUME NEW s \in Runs, Kept(s) PROVE Kept(s)'
  <2>1. CASE s = r
    BY <1>1, <1>2, <1>4, <2>1 DEF Kept
  <2>2. CASE s # r
    BY <1>1, <1>2, <1>4, <1>5, <2>2 DEF Kept
  <2> QED BY <2>1, <2>2
<1> QED BY <1>2, <1>3, <1>5, GoingOn

(* A commit is of what the index holds, so what is missing from the one is  *)
(* missing from the other.                                                  *)
LEMMA CommitStep ==
  ASSUME GitInv, NEW r \in Runs, Commit(r)
  PROVE  GitInv'
<1>1. /\ Goto(r, "commit", "done") /\ head' = staged
      /\ UNCHANGED <<work, staged, undone>>
  BY DEF Commit, tree
<1>2. /\ run' \in [Runs -> Entries] /\ run'[r].gone = run[r].gone
      /\ run'[r].other = run[r].other /\ run'[r].held = run[r].held
      /\ \A s \in Runs \ {r} : run'[s] = run[s]
  BY <1>1, Going DEF PCs
<1>3. Shape'
  BY <1>1, <1>2 DEF GitInv, Shape
<1>4. \A s \in Runs : Kept(s)'
  BY <1>1 DEF Kept
<1> QED BY <1>2, <1>3, <1>4, GoingOn

(* A refused reset is remembered; a run that ends holds nothing any more.   *)
LEMMA RefusedStep ==
  ASSUME GitInv, NEW r \in Runs, Refused(r)
  PROVE  GitInv'
<1>1. UNCHANGED <<work, staged, head>>
  BY DEF Refused, tree
<1>2. PICK to \in PCs : /\ run' = [run EXCEPT ![r].pc = to]
                        /\ \/ to = "commit" /\ undone' = undone \cup {r}
                           \/ to = "done" /\ undone' = undone
  BY DEF Refused, Goto, PCs
<1>3. run[r] \in Entries
  BY DEF GitInv, Shape
<1>4. /\ run' \in [Runs -> Entries] /\ run'[r].gone = run[r].gone
      /\ run'[r].other = run[r].other /\ run'[r].held = run[r].held /\ run'[r].pc = to
      /\ \A s \in Runs \ {r} : run'[s] = run[s]
  BY <1>2, <1>3 DEF GitInv, Shape, Entries
<1>5. Shape'
  BY <1>1, <1>4 DEF GitInv, Shape
<1>6. ASSUME NEW s \in Runs, Kept(s) PROVE Kept(s)'
  <2>1. CASE s = r
    BY <1>2, <1>4, <2>1 DEF Kept
  <2>2. CASE s # r
    BY <1>1, <1>2, <1>4, <1>6, <2>2 DEF Kept
  <2> QED BY <2>1, <2>2
<1> QED BY <1>4, <1>5, <1>6, GoingOn

-----------------------------------------------------------------------------
LEMMA NextInv == GitInv /\ [GitNext]_vars => GitInv'
<1> SUFFICES ASSUME GitInv, [GitNext]_vars PROVE GitInv'
  OBVIOUS
<1>1. work = [f \in Paths |-> work[f]]
  BY DEF GitInv, Shape
<1>2. ASSUME NEW f \in Memories, Save(f) \/ Restamp(f) \/ Delete(f) PROVE GitInv'
  <2>1. UNCHANGED <<staged, head, run, undone>>
    BY <1>2 DEF Save, Restamp, Delete
  <2>2. work' = [p \in Paths |-> work'[p]]
    BY <1>1, <1>2 DEF Save, Restamp, Delete, Rewritten
  <2> QED BY <2>1, <2>2, FolderSteps
<1>3. ASSUME NEW f \in Memories, NEW g \in Memories, Move(f, g) PROVE GitInv'
  <2>1. UNCHANGED <<staged, head, run, undone>>
    BY <1>3 DEF Move
  <2>2. work' = [p \in Paths |-> work'[p]]
    BY <1>1, <1>3 DEF Move
  <2> QED BY <2>1, <2>2, FolderSteps
<1>4. ASSUME NEW r \in Runs, Work(r) \/ Refused(r) \/ StampFails(r) PROVE GitInv'
  BY <1>4, StatusStep, StampStep, StampDoneStep, AddStep, ResetStep, CommitStep,
     RefusedStep DEF Work
<1>5. CASE UNCHANGED vars
  BY <1>1, <1>5, FolderSteps DEF vars, tree
<1> QED BY <1>2, <1>3, <1>4, <1>5 DEF GitNext

(* The invariant of commit-memories.js: a run that accepts no deletions     *)
(* holds back every memory it found missing, but for those of which the     *)
(* index had another version; and at its commit none of what it holds back  *)
(* by a name that git knows is missing from the index but in HEAD, unless   *)
(* its reset was refused or undone (lines 165-181).                         *)
THEOREM GitInvariant == GitSpec => []GitInv
<1>1. GitInit => GitInv
  BY InitInv
<1>2. GitInv /\ [GitNext]_vars => GitInv'
  BY NextInv
<1> QED BY <1>1, <1>2, PTL DEF GitSpec

(* Only a commit changes HEAD. *)
LEMMA HeadChanges ==
  ASSUME GitInv, [GitNext]_vars, head' # head
  PROVE  \E r \in Runs : Commits(r) /\ head' = staged
<1>1. PICK r \in Runs : Commit(r)
  BY DEF GitNext, Save, Restamp, Delete, Move, Work, Status, Stamp, StampDone,
         Add, Reset, Refused, StampFails, vars, tree
<1>2. run[r].pc = "commit" /\ run'[r].pc = "done" /\ head' = staged
  BY <1>1, Going DEF Commit, PCs
<1> QED BY <1>2 DEF Commits

(* However the runs of commit-memories.js cross, are refused and are        *)
(* killed, a memory leaves HEAD only by the commit of a run that accepts    *)
(* deletions, or saw the memory in its place, or whose reset was refused or *)
(* undone, or found another version of it in the index, or to which git     *)
(* gave a name that is no file's.                                           *)
THEOREM MissingMemoriesStayInHead == GitSpec => GoneStaysInHead
<1> DEFINE Excused(r, f) == \/ r \in Accepting \cup undone
                            \/ f \notin run[r].gone
                            \/ f \in run[r].other \cup Quoted
<1>1. GitInv /\ [GitNext]_vars =>
        [\A f \in Memories : head[f] # NoFile /\ head'[f] = NoFile =>
           \E r \in Runs : Commits(r) /\ Excused(r, f)]_vars
  <2> SUFFICES ASSUME GitInv, [GitNext]_vars, NEW f \in Memories,
                      head[f] # NoFile, head'[f] = NoFile
               PROVE  \E r \in Runs : Commits(r) /\ Excused(r, f)
    OBVIOUS
  <2>1. PICK r \in Runs : Commits(r) /\ head' = staged
    BY HeadChanges
  <2>2. Excused(r, f)
    <3>1. SUFFICES ASSUME ~Excused(r, f) PROVE FALSE
      OBVIOUS
    <3>2. f \in run[r].held \cap (Memories \ Quoted)
      BY <3>1 DEF GitInv, HeldInv, HeldBack
    <3>3. staged[f] = NoFile => head[f] = NoFile
      BY <2>1, <3>1, <3>2 DEF GitInv, HeldInv, Kept, Commits
    <3> QED BY <2>1, <3>3
  <2> QED BY <2>1, <2>2
<1>2. GitSpec => []GitInv
  BY GitInvariant
<1> QED BY <1>1, <1>2, PTL DEF GitSpec, GoneStaysInHead

-----------------------------------------------------------------------------
(* A changed memory carries the date of the run that commits it.  As long   *)
(* as a run is alone, every memory with frontmatter that differs from HEAD  *)
(* and that nobody touched since its status is on its list or has its date  *)
(* already; its add takes that into the index, and its reset only undoes    *)
(* differences.                                                             *)

IsRecord(c) == \/ c = NoFile
               \/ \E t, m : \E b \in BOOLEAN : c = [text |-> t, front |-> b, modified |-> m]

Differs(c, f) == /\ c # NoFile /\ c.front
                 /\ head[f] = NoFile \/ head[f].text # c.text

Stamped(r) == Memories \ (late[r] \cup Quoted)

Dated(r) ==
  /\ UnderWay = {r}
  /\ r \notin ReadOnly => \A f \in Stamped(r) :
       /\ run[r].pc \in {"stamp", "add"} /\ Differs(work[f], f) =>
            (run[r].pc = "stamp" /\ f \in run[r].todo) \/ work[f].modified = r
       /\ run[r].pc \in {"reset", "commit"} /\ Differs(staged[f], f) => staged[f].modified = r

DatedInv == /\ DOMAIN late = Runs
            /\ \A p \in Paths : IsRecord(work[p])
            /\ \A r \in Runs : Alone(r) => Dated(r)

LEMMA DatedInit == GitInit => DatedInv
<1> SUFFICES ASSUME GitInit PROVE DatedInv
  OBVIOUS
<1>1. \A p \in Paths : IsRecord(work[p])
  <2>1. \A p \in Paths : work[p] = NoFile \/ work[p] = [text |-> <<p, 0>>, front |-> p \notin Bare,
                                                        modified |-> NoFile]
    BY DEF GitInit
  <2>2. \A p : (p \notin Bare) \in BOOLEAN
    OBVIOUS
  <2> QED BY <2>1, <2>2 DEF IsRecord
<1>2. UnderWay = {} /\ DOMAIN late = Runs
  BY DEF GitInit, UnderWay, Idle
<1> QED
  BY <1>1, <1>2 DEF DatedInv, Alone

(* What safe-write does to the other memories: nothing. *)
LEMMA RewrittenFiles ==
  ASSUME GitInv, DatedInv, NEW f \in Paths, NEW c, NextShot \in Shots, IsRecord(c)
  PROVE  /\ \A g \in Memories \ {f} : Rewritten(f, c)[g] = work[g]
         /\ Rewritten(f, c)[f] = c
         /\ \A p \in Paths : IsRecord(Rewritten(f, c)[p])
<1> DEFINE mine == SnapshotsOf(f) \cup {NextShot}
           old == {s \in mine : Cardinality({t \in mine : t > s}) >= Keep}
<1>1. mine \in SUBSET Shots
  BY DEF SnapshotsOf, Taken
<1>2. old \in SUBSET Shots
  <2> HIDE DEF mine
  <2> QED
    BY <1>1
<1>3. Rewritten(f, c) = [p \in Paths |-> IF p = f THEN c ELSE IF p \in old THEN NoFile
                                         ELSE IF p = NextShot THEN work[f] ELSE work[p]]
  BY DEF Rewritten
<1> HIDE DEF old
<1>4. \A g \in Memories \ {f} : Rewritten(f, c)[g] = work[g]
  BY <1>2, <1>3, MemoriesAreNoShots
<1>5. IsRecord(NoFile)
  BY DEF IsRecord
<1>6. \A p \in Paths : IsRecord(Rewritten(f, c)[p])
  BY <1>3, <1>5 DEF DatedInv
<1> QED
  BY <1>3, <1>4, <1>6

(* In the folder: whatever changes is marked as late for a run that has     *)
(* looked and not yet added.                                                *)
LEMMA FolderDates ==
  ASSUME GitInv, DatedInv, UNCHANGED <<staged, head, run, crossed>>,
         NEW files, Touched(files),
         \A p \in Paths : IsRecord(work'[p]),
         \A g \in Memories \ files : work'[g] = work[g]
  PROVE  DatedInv'
<1>1. UnderWay' = UnderWay
  BY DEF UnderWay
<1>2. ASSUME NEW r \in Runs, Alone(r)' PROVE Dated(r)'
  <2>1. Dated(r)
    BY <1>1, <1>2 DEF DatedInv, Alone
  <2>2. late[r] \in SUBSET late'[r]
    BY DEF Touched
  <2>3. run[r].pc \in {"stamp", "add"} =>
          \A f \in Memories \ late'[r] : work'[f] = work[f]
    BY DEF Touched
  <2>4. Stamped(r)' \in SUBSET Stamped(r) /\ Stamped(r)' \in SUBSET (Memories \ late'[r])
    BY <2>2 DEF Stamped
  <2> QED
    BY <1>1, <2>1, <2>3, <2>4 DEF Dated, Differs
<1>3. DOMAIN late' = Runs
  BY DEF Touched
<1> QED
  BY <1>2, <1>3 DEF DatedInv

LEMMA EditedIsRecord ==
  ASSUME NEW f, NEW b \in BOOLEAN PROVE IsRecord(Edited(f, b))
BY DEF IsRecord, Edited

LEMMA PeopleDate ==
  ASSUME GitInv, DatedInv, NEW f \in Memories, NEW g \in Memories,
         Save(f) \/ Restamp(f) \/ Delete(f) \/ Move(f, g)
  PROVE  DatedInv'
<1>1. f \in Paths /\ g \in Paths /\ IsRecord(work[f])
  BY MemoriesAreNoShots DEF DatedInv
<1>2. UNCHANGED <<staged, head, run, crossed>>
  BY DEF Save, Restamp, Delete, Move
<1>3. work = [p \in Paths |-> work[p]] /\ \A p \in Paths : IsRecord(work[p])
  BY DEF GitInv, Shape, DatedInv
<1>4. IsRecord(NoFile)
  BY DEF IsRecord
<1>5. CASE Save(f)
  <2>1. PICK c : c = Edited(f, f \notin Bare)
    OBVIOUS
  <2>2. IsRecord(c)
    <3>1. (f \notin Bare) \in BOOLEAN
      OBVIOUS
    <3>2. IsRecord(Edited(f, f \notin Bare))
      BY <3>1, EditedIsRecord
    <3> QED BY <2>1, <3>2
  <2>3. work' = [work EXCEPT ![f] = c] /\ Touched({f})
    BY <1>5, <2>1 DEF Save
  <2>4. /\ \A h \in Memories \ {f} : work'[h] = work[h]
        /\ \A p \in Paths : IsRecord(work'[p])
    BY <1>1, <1>3, <2>2, <2>3, MemoriesAreNoShots
  <2> QED BY <1>2, <2>3, <2>4, FolderDates
<1>6. CASE Restamp(f)
  <2> DEFINE files == {f, NextShot} \cup SnapshotsOf(f)
  <2>1. NextShot \in Shots /\ work' = Rewritten(f, Edited(f, TRUE)) /\ Touched(files)
    BY <1>6 DEF Restamp
  <2>2. /\ \A h \in Memories \ {f} : work'[h] = work[h]
        /\ \A p \in Paths : IsRecord(work'[p])
    <3>1. PICK c : c = Edited(f, TRUE)
      OBVIOUS
    <3>2. IsRecord(c) /\ work' = Rewritten(f, c)
      BY <2>1, <3>1, EditedIsRecord
    <3>3. NextShot \in Shots
      BY <2>1
    <3>4. /\ \A h \in Memories \ {f} : Rewritten(f, c)[h] = work[h]
          /\ \A p \in Paths : IsRecord(Rewritten(f, c)[p])
      <4>1. f \in Paths /\ IsRecord(c)
        BY <1>1, <3>2
      <4> HIDE DEF files
      <4> QED BY <3>3, <4>1, RewrittenFiles
    <3> QED BY <3>2, <3>4
  <2>3. f \in files
    OBVIOUS
  <2> HIDE DEF files
  <2> QED
    BY <1>2, <2>1, <2>2, <2>3, FolderDates
<1>7. CASE Delete(f)
  BY <1>1, <1>2, <1>3, <1>4, <1>7, FolderDates DEF Delete
<1>8. CASE Move(f, g)
  <2>1. work' = [work EXCEPT ![f] = NoFile, ![g] = work[f]] /\ Touched({f, g})
    BY <1>8 DEF Move
  <2>2. \A h \in Memories \ {f, g} : work'[h] = work[h]
    BY <1>3, <2>1, MemoriesAreNoShots
  <2>3. \A p \in Paths : work'[p] \in {NoFile, work[f], work[p]}
    BY <1>1, <1>3, <2>1
  <2>4. \A p \in Paths : IsRecord(work'[p])
    BY <1>1, <1>3, <1>4, <2>3
  <2> QED
    BY <1>2, <2>1, <2>2, <2>4, FolderDates
<1> QED
  BY <1>5, <1>6, <1>7, <1>8

(* A run that starts alone lists every memory that differs from HEAD.       *)
LEMMA StatusDates ==
  ASSUME GitInv, DatedInv, NEW r \in Runs, Status(r)
  PROVE  DatedInv'
<1> DEFINE dirty == \E f \in Paths : Listed(f)
           entry == [pc |-> IF dirty THEN "stamp" ELSE "done",
                     gone |-> {f \in Memories : work[f] = NoFile /\ head[f] # NoFile},
                     other |-> {f \in Memories : /\ head[f] # NoFile
                                                 /\ \/ staged[f] \notin {head[f], NoFile}
                                                    \/ staged[f] = NoFile /\ Renamed(f)},
                     todo |-> {f \in Paths : Changed(f)},
                     held |-> IF r \in Accepting THEN {} ELSE {f \in Paths : SaysDeleted(f)}]
<1>1. /\ run[r].pc = "new"
      /\ run' = [run EXCEPT ![r] = entry]
      /\ crossed' = IF dirty /\ UnderWay # {} THEN crossed \cup UnderWay \cup {r} ELSE crossed
      /\ UNCHANGED <<work, source, staged, head, late, saves, faults>>
  BY DEF Status, tree
<1> HIDE DEF dirty
<1>2. run'[r] = entry /\ \A s \in Runs \ {r} : run'[s] = run[s]
  BY <1>1 DEF GitInv, Shape
<1>3. UnderWay' = IF dirty THEN UnderWay \cup {r} ELSE UnderWay
  BY <1>1, <1>2 DEF UnderWay
<1>4. ASSUME NEW s \in Runs, Alone(s)' PROVE Dated(s)'
  <2>1. CASE dirty /\ UnderWay # {}
    BY <1>1, <1>3, <1>4, <2>1 DEF Alone
  <2>2. CASE dirty /\ UnderWay = {}
    <3>1. s = r /\ UnderWay' = {r}
      BY <1>3, <1>4, <2>2 DEF Alone
    <3>2. run'[r].pc = "stamp" /\ run'[r].todo = {f \in Paths : Changed(f)}
      BY <1>2, <2>2
    <3>3. ASSUME NEW f \in Memories, Differs(work[f], f) PROVE f \in run'[r].todo
      <4>1. f \in Paths /\ f \notin Shots
        BY MemoriesAreNoShots
      <4>2. work[f] # head[f] /\ work[f] # NoFile
        BY <3>3 DEF Differs
      <4>3. Listed(f) /\ ~Collapsed(f)
        BY <4>1, <4>2 DEF Listed, Collapsed
      <4> QED
        BY <3>2, <4>1, <4>2, <4>3 DEF Changed
    <3>4. \A f \in Memories : Differs(work[f], f)' => Differs(work[f], f)
      BY <1>1 DEF Differs
    <3>5. Stamped(r)' \in SUBSET Memories
      BY DEF Stamped
    <3> QED
      BY <1>1, <3>1, <3>2, <3>3, <3>4, <3>5 DEF Dated
  <2>3. CASE ~dirty
    <3>1. UnderWay' = UnderWay /\ crossed' = crossed
      BY <1>1, <1>3, <2>3
    <3>2. s # r
      BY <1>1, <1>4, <3>1 DEF Alone, UnderWay
    <3>3. Dated(s) /\ run'[s] = run[s]
      BY <1>2, <1>4, <3>1, <3>2 DEF DatedInv, Alone
    <3> QED
      BY <1>1, <3>1, <3>3 DEF Dated, Differs, Stamped
  <2> QED
    BY <2>1, <2>2, <2>3
<1> QED
  BY <1>1, <1>4 DEF DatedInv

(* A step of a run under way leaves it, or nobody, alone. *)
LEMMA OnlyItsOwn ==
  ASSUME GitInv, DatedInv, NEW r \in UnderWay, UNCHANGED crossed, DOMAIN late' = Runs,
         \A s \in Runs \ {r} : late'[s] = late[s],
         \A p \in Paths : IsRecord(work'[p]),
         run'[r].pc # "new", \A s \in Runs \ {r} : run'[s] = run[s],
         Dated(r) /\ run'[r].pc # "done" => Dated(r)'
  PROVE  DatedInv'
<1>1. r \in Runs /\ UnderWay' \in SUBSET UnderWay
  BY DEF UnderWay
<1>2. ASSUME NEW s \in Runs, Alone(s)' PROVE Dated(s)'
  <2>1. Alone(s)
    BY <1>1, <1>2 DEF Alone
  <2>2. UnderWay = {s} /\ Dated(s)
    BY <2>1 DEF DatedInv, Dated
  <2>3. s = r /\ run'[r].pc # "done"
    BY <1>2, <2>2 DEF Alone, UnderWay
  <2> QED
    BY <2>2, <2>3
<1> QED
  BY <1>2 DEF DatedInv

LEMMA StampDates ==
  ASSUME GitInv, DatedInv, NEW r \in Runs, Stamp(r)
  PROVE  DatedInv'
<1>1. /\ run[r].pc = "stamp" /\ UNCHANGED <<staged, head, late, crossed>>
  BY DEF Stamp
<1>2. PICK g \in run[r].todo :
        /\ run' = [run EXCEPT ![r].todo = @ \ {g}]
        /\ IF Stampable(r, g) /\ Refreshed(r, work[g]) # work[g]
           THEN NextShot \in Shots /\ work' = Rewritten(g, Refreshed(r, work[g]))
           ELSE work' = work
  BY DEF Stamp, tree
<1>3. run[r] \in Entries /\ g \in Paths
  BY <1>2 DEF GitInv, Shape, Entries
<1>4. /\ run'[r].pc = "stamp" /\ run'[r].todo = run[r].todo \ {g}
      /\ \A s \in Runs \ {r} : run'[s] = run[s]
  BY <1>1, <1>2, <1>3 DEF GitInv, Shape, Entries
<1>5. r \in UnderWay /\ UnderWay' = UnderWay
  BY <1>1, <1>4 DEF UnderWay
<1>6. IsRecord(work[g])
  BY <1>3 DEF DatedInv
<1>7. work[g] # NoFile => /\ IsRecord(Refreshed(r, work[g]))
                          /\ Refreshed(r, work[g]).modified = r
                          /\ Refreshed(r, work[g]).text = work[g].text
  <2> SUFFICES ASSUME work[g] # NoFile
               PROVE  /\ IsRecord(Refreshed(r, work[g]))
                      /\ Refreshed(r, work[g]).modified = r
                      /\ Refreshed(r, work[g]).text = work[g].text
    OBVIOUS
  <2>1. PICK t, m : \E b \in BOOLEAN : work[g] = [text |-> t, front |-> b, modified |-> m]
    BY <1>6 DEF IsRecord
  <2>2. PICK b \in BOOLEAN : work[g] = [text |-> t, front |-> b, modified |-> m]
    BY <2>1
  <2>3. Refreshed(r, work[g]) = [text |-> t, front |-> b, modified |-> r]
    BY <2>2 DEF Refreshed
  <2>4. IsRecord([text |-> t, front |-> b, modified |-> r])
    BY DEF IsRecord
  <2> QED
    BY <2>2, <2>3, <2>4
<1>8. /\ \A f \in Memories \ {g} : work'[f] = work[f]
      /\ \A p \in Paths : IsRecord(work'[p])
      /\ Stampable(r, g) => work'[g].modified = r
      /\ ~Stampable(r, g) => work'[g] = work[g]
  <2>1. CASE Stampable(r, g) /\ Refreshed(r, work[g]) # work[g]
    <3>1. work[g] # NoFile
      BY <2>1 DEF Stampable
    <3>2. PICK c : c = Refreshed(r, work[g])
      OBVIOUS
    <3>3. IsRecord(c) /\ c.modified = r /\ NextShot \in Shots /\ work' = Rewritten(g, c)
      BY <1>2, <1>7, <2>1, <3>1, <3>2
    <3> QED BY <1>3, <2>1, <3>3, RewrittenFiles
  <2>2. CASE ~(Stampable(r, g) /\ Refreshed(r, work[g]) # work[g])
    <3>1. work' = work
      BY <1>2, <2>2
    <3>2. Stampable(r, g) => work[g].modified = r
      BY <1>7, <2>2 DEF Stampable
    <3> QED BY <3>1, <3>2 DEF DatedInv
  <2> QED
    BY <2>1, <2>2
<1>9. ASSUME Dated(r) PROVE Dated(r)'
  <2> SUFFICES ASSUME r \notin ReadOnly, NEW f \in Stamped(r), Differs(work[f], f)'
               PROVE  f \in run'[r].todo \/ work'[f].modified = r
    BY <1>1, <1>4, <1>5, <1>9 DEF Dated, Stamped
  <2>f. f \in Memories /\ f \notin Quoted
    BY DEF Stamped
  <2>1. CASE f = g
    <3>1. ~Stampable(r, g) => work[g] = NoFile \/ ~work[g].front
      BY <2>1, <2>f, QuotedMemories DEF Stampable
    <3> QED BY <1>8, <2>1, <3>1 DEF Differs
  <2>2. CASE f # g
    <3>1. work'[f] = work[f]
      BY <1>8, <2>2, <2>f
    <3>2. Differs(work[f], f)
      BY <1>1, <3>1 DEF Differs
    <3> QED
      BY <1>1, <1>4, <1>9, <2>2, <3>1, <3>2 DEF Dated
  <2> QED
    BY <2>1, <2>2
<1> QED
  BY <1>1, <1>4, <1>5, <1>8, <1>9, OnlyItsOwn DEF DatedInv

(* A memory whose stamp failed is late for the run; the others stay. *)
LEMMA FailureDates ==
  ASSUME GitInv, DatedInv, NEW r \in Runs, StampFails(r)
  PROVE  DatedInv'
<1>1. /\ run[r].pc = "stamp" /\ UNCHANGED <<staged, head, crossed>>
  BY DEF StampFails
<1>2. PICK g \in run[r].todo :
        /\ Stampable(r, g)
        /\ run' = [run EXCEPT ![r].todo = @ \ {g}]
        /\ late' = [late EXCEPT ![r] = @ \cup {g}]
        /\ \/ work' = work
           \/ NextShot \in Shots /\ work' = Rewritten(g, work[g])
  BY DEF StampFails, tree
<1>3. run[r] \in Entries /\ g \in Paths
  BY <1>2 DEF GitInv, Shape, Entries
<1>4. /\ run'[r].pc = "stamp" /\ run'[r].todo = run[r].todo \ {g}
      /\ \A s \in Runs \ {r} : run'[s] = run[s]
  BY <1>1, <1>2, <1>3 DEF GitInv, Shape, Entries
<1>5. r \in UnderWay /\ UnderWay' = UnderWay
  BY <1>1, <1>4 DEF UnderWay
<1>6. IsRecord(work[g])
  BY <1>3 DEF DatedInv
<1>7. /\ \A f \in Memories \ {g} : work'[f] = work[f]
      /\ \A p \in Paths : IsRecord(work'[p])
  <2>1. CASE work' = work
    BY <2>1 DEF DatedInv
  <2>2. CASE NextShot \in Shots /\ work' = Rewritten(g, work[g])
    BY <1>3, <1>6, <2>2, RewrittenFiles
  <2> QED BY <1>2, <2>1, <2>2
<1>8. /\ DOMAIN late' = Runs /\ late'[r] = late[r] \cup {g}
      /\ \A s \in Runs \ {r} : late'[s] = late[s]
  BY <1>2 DEF DatedInv
<1>9. ASSUME Dated(r) PROVE Dated(r)'
  <2> SUFFICES ASSUME r \notin ReadOnly, NEW f \in Stamped(r)', Differs(work[f], f)'
               PROVE  f \in run'[r].todo \/ work'[f].modified = r
    BY <1>1, <1>4, <1>5, <1>9 DEF Dated
  <2>1. f \in Stamped(r) /\ f # g /\ f \in Memories
    BY <1>8 DEF Stamped
  <2>2. work'[f] = work[f] /\ Differs(work[f], f)
    BY <1>1, <1>7, <2>1 DEF Differs
  <2> QED
    BY <1>1, <1>4, <1>9, <2>1, <2>2 DEF Dated
<1> QED
  BY <1>1, <1>4, <1>5, <1>7, <1>8, <1>9, OnlyItsOwn

LEMMA LaterStepsDate ==
  ASSUME GitInv, DatedInv, NEW r \in Runs,
         StampDone(r) \/ Add(r) \/ Reset(r) \/ Commit(r) \/ Refused(r)
  PROVE  DatedInv'
<1>1. UNCHANGED <<work, crossed, late>>
  BY DEF StampDone, Add, Reset, Commit, Refused, tree
<1>2. PICK from \in PCs, to \in PCs :
        /\ Goto(r, from, to)
        /\ from \notin {"new", "done"} /\ to # "new"
        /\ to # "done" => \/ StampDone(r) /\ from = "stamp" /\ to = "add"
                          \/ Add(r) /\ from = "add" /\ to \in {"reset", "commit"}
                          \/ Reset(r) /\ from = "reset" /\ to = "commit"
                          \/ /\ UNCHANGED <<staged, head>> /\ from = "reset" /\ to = "commit"
  <2>1. CASE StampDone(r) \/ Reset(r) \/ Commit(r)
    BY <2>1 DEF StampDone, Reset, Commit, PCs
  <2>2. CASE Add(r)
    BY <2>2 DEF Add, PCs
  <2>3. CASE Refused(r)
    <3>1. CASE Goto(r, "reset", "commit")
      BY <2>3, <3>1 DEF Refused, PCs
    <3>2. CASE r \in UnderWay /\ run' = [run EXCEPT ![r].pc = "done"]
      <4>1. run[r].pc \in PCs /\ run[r].pc \notin {"new", "done"}
        BY <3>2 DEF UnderWay, GitInv, Shape, Entries
      <4> QED
        BY <3>2, <4>1 DEF Goto, PCs
    <3> QED
      BY <2>3, <3>1, <3>2 DEF Refused
  <2> QED
    BY <2>1, <2>2, <2>3
<1>3. /\ run[r].pc = from /\ run'[r].pc = to
      /\ \A s \in Runs \ {r} : run'[s] = run[s]
  BY <1>2, Going
<1>4. r \in UnderWay
  BY <1>2, <1>3 DEF UnderWay
<1>5. ASSUME Dated(r), to # "done" PROVE Dated(r)'
  <2>1. UnderWay' = {r}
    BY <1>2, <1>3, <1>4, <1>5 DEF Dated, UnderWay
  <2>2. CASE StampDone(r) /\ from = "stamp" /\ to = "add"
    <3>1. run[r].todo = {} /\ UNCHANGED <<staged, head>>
      BY <2>2 DEF StampDone
    <3> QED
      BY <1>1, <1>3, <1>5, <2>1, <2>2, <3>1 DEF Dated, Differs, Stamped
  <2>3. CASE Add(r) /\ from = "add" /\ to \in {"reset", "commit"}
    <3>1. staged' = work /\ UNCHANGED head
      BY <2>3 DEF Add
    <3> QED
      BY <1>1, <1>3, <1>5, <2>1, <2>3, <3>1 DEF Dated, Differs, Stamped
  <2>4. CASE Reset(r) /\ from = "reset" /\ to = "commit"
    <3>1. /\ staged' = [f \in Paths |-> IF f \in run[r].held /\ ~IsQuoted(f) THEN head[f] ELSE staged[f]]
          /\ UNCHANGED head
      BY <2>4 DEF Reset
    <3>2. ASSUME r \notin ReadOnly, NEW f \in Stamped(r), Differs(staged[f], f)'
          PROVE  staged'[f].modified = r
      <4>1. f \in Paths
        BY MemoriesAreNoShots DEF Stamped
      <4>2. staged'[f] = staged[f]
        BY <3>1, <3>2, <4>1 DEF Differs
      <4>3. Differs(staged[f], f)
        BY <3>1, <3>2, <4>2 DEF Differs
      <4> QED
        BY <1>3, <1>5, <2>4, <3>2, <4>2, <4>3 DEF Dated
    <3> QED
      BY <1>1, <1>3, <2>1, <2>4, <3>2 DEF Dated, Stamped
  <2>5. CASE UNCHANGED <<staged, head>> /\ from = "reset" /\ to = "commit"
    BY <1>1, <1>3, <1>5, <2>1, <2>5 DEF Dated, Differs, Stamped
  <2> QED
    BY <1>2, <1>5, <2>2, <2>3, <2>4, <2>5
<1> QED
  BY <1>1, <1>2, <1>3, <1>4, <1>5, OnlyItsOwn DEF DatedInv

LEMMA DatedNext == GitInv /\ DatedInv /\ [GitNext]_vars => DatedInv'
<1> SUFFICES ASSUME GitInv, DatedInv, [GitNext]_vars PROVE DatedInv'
  OBVIOUS
<1>1. CASE UNCHANGED vars
  BY <1>1 DEF vars, tree, DatedInv, Dated, Alone, UnderWay, Differs, Stamped
<1>2. ASSUME NEW r \in Runs, Work(r) \/ Refused(r) \/ StampFails(r) PROVE DatedInv'
  BY <1>2, StatusDates, StampDates, FailureDates, LaterStepsDate DEF Work
<1> QED
  BY <1>1, <1>2, PeopleDate DEF GitNext

(* Whatever people and the server do meanwhile, and whatever runs before it *)
(* were killed or refused: a run that no other crossed and that may write   *)
(* dates every memory it commits, but for those without frontmatter, those  *)
(* whose names git quotes, and those whose stamp failed (commit-memories.js *)
(* lines 125-152).                                                          *)
THEOREM CommittedMemoriesAreDated == GitSpec => FactTimeIsCommitTime
<1> DEFINE Fact(r) == Commits(r) /\ r \notin crossed =>
             \A f \in Memories \ (late[r] \cup Quoted) :
               (/\ head'[f] # NoFile /\ head'[f].front
                /\ head[f] = NoFile \/ head[f].text # head'[f].text)
               => head'[f].modified = r
<1>1. GitInv /\ DatedInv /\ [GitNext]_vars => [\A r \in Runs \ ReadOnly : Fact(r)]_vars
  <2> SUFFICES ASSUME GitInv, DatedInv, [GitNext]_vars, NEW r \in Runs \ ReadOnly, Commits(r),
                      r \notin crossed, NEW f \in Memories \ (late[r] \cup Quoted),
                      head'[f] # NoFile, head'[f].front,
                      head[f] = NoFile \/ head[f].text # head'[f].text
               PROVE  head'[f].modified = r
    OBVIOUS
  <2>1. run[r].pc = "commit" /\ head' = staged
    BY HeadChanges DEF Commits
  <2>2. Dated(r)
    BY <2>1 DEF DatedInv, Alone, UnderWay
  <2>3. f \in Stamped(r)
    BY DEF Stamped
  <2> QED
    BY <2>1, <2>2, <2>3 DEF Dated, Differs
<1>2. GitSpec => []DatedInv
  BY DatedInit, DatedNext, GitInvariant, PTL DEF GitSpec
<1> QED
  BY <1>1, <1>2, GitInvariant, PTL DEF GitSpec, FactTimeIsCommitTime
=============================================================================
