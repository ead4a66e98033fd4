------------------------------- MODULE MemoryGit -------------------------------
(***************************************************************************)
(* The history of the memory folder: scripts/commit-memories.js, run by    *)
(* the Stop hook of every session, in the background, with no lock of its  *)
(* own.                                                                    *)
(*                                                                         *)
(* A run is a sequence of git commands.  Each takes .git/index.lock for    *)
(* itself, so it is one step, or it is refused.  Between two commands      *)
(* people and the server go on writing, other runs proceed, and the run    *)
(* may be killed.  A file is in three places: the folder, git's index and  *)
(* HEAD.  The snapshots that lib/safe-write.js leaves in .memory-snapshots *)
(* are in the same repository, and nothing ignores them.                   *)
(***************************************************************************)
EXTENDS Naturals, FiniteSets

CONSTANTS
  Memories,   \* the memory files
  Quoted,     \* those whose names git writes with escapes, as it does outside ASCII
  Bare,       \* those that people write without frontmatter, as MEMORY.md
  MaxShots,   \* bound: snapshots taken
  Keep,       \* snapshots kept per file
  Runs,       \* the runs of the script
  Accepting,  \* those started with --accept-deletions
  ReadOnly,   \* those under MEMORY_CURATED_READ_ONLY
  MaxSaves,   \* bound: what people and the server save, move or delete
  MaxFaults,  \* bound: refused git commands, failed stamps and kills
  NoFile      \* no file; nobody

ASSUME GitAssumption ==
  /\ {MaxShots, Keep, MaxSaves, MaxFaults} \subseteq Nat
  /\ Keep > 0
  /\ Accepting \cup ReadOnly \subseteq Runs
  /\ Quoted \cup Bare \subseteq Memories
  /\ Memories \cap Nat = {}
  /\ NoFile \notin Memories \cup Runs

Shots == 1..MaxShots          \* snapshots, in the order they are taken
Paths == Memories \cup Shots

VARIABLES
  work,     \* the folder
  staged,   \* git's index
  head,     \* HEAD
  source,   \* which file each snapshot was taken of, or NoFile
  run,      \* what each run holds
  late,     \* history: per run, what others wrote between its status and its add,
            \* and what it failed to stamp
  crossed,  \* history: runs that were under way together with another
  undone,   \* history: runs whose reset was refused, or undone by another's add
  saves,    \* saves, moves and deletions so far
  faults    \* faults so far

tree == <<work, source>>
vars == <<tree, staged, head, run, late, crossed, undone, saves, faults>>

Idle == [pc |-> "new", gone |-> {}, other |-> {}, todo |-> {}, held |-> {}]

(* A file is its text, all but metadata.modified, whether it has            *)
(* frontmatter, and the run that last set the date.                         *)
GitInit == /\ head = [f \in Paths |-> IF f \in Memories
                                      THEN [text |-> <<f, 0>>, front |-> f \notin Bare, modified |-> NoFile]
                                      ELSE NoFile]
           /\ staged = head
           /\ work = head
           /\ source = [s \in Shots |-> NoFile]
           /\ run = [r \in Runs |-> Idle]
           /\ late = [r \in Runs |-> {}]
           /\ crossed = {}
           /\ undone = {}
           /\ saves = 0
           /\ faults = 0

-----------------------------------------------------------------------------
(* What happens in the folder. *)

Taken == {s \in Shots : source[s] # NoFile}
SnapshotsOf(f) == {s \in Taken : source[s] = f /\ work[s] # NoFile}
NextShot == Cardinality(Taken) + 1

(* safe-write.js: `new' takes the place of file f, the bytes it had go into *)
(* a snapshot, and all but the newest Keep snapshots of f are removed.      *)
Rewritten(f, new) ==
  LET mine == SnapshotsOf(f) \cup {NextShot}
      old == {s \in mine : Cardinality({t \in mine : t > s}) >= Keep}
  IN [p \in Paths |-> IF p = f THEN new
                      ELSE IF p \in old THEN NoFile
                      ELSE IF p = NextShot THEN work[f]
                      ELSE work[p]]

Touched(files) == late' = [r \in Runs |-> IF run[r].pc = "add" \/ run[r].pc = "stamp"
                                          THEN late[r] \cup files ELSE late[r]]

Counted == saves < MaxSaves /\ saves' = saves + 1

Edited(f, front) == [text |-> <<f, saves + 1>>, front |-> front,
                     modified |-> IF front /\ work[f] # NoFile THEN work[f].modified ELSE NoFile]

(* A person saves a memory, or creates one. *)
Save(f) == /\ Counted
           /\ work' = [work EXCEPT ![f] = Edited(f, f \notin Bare)]
           /\ Touched({f})
           /\ UNCHANGED <<source, staged, head, run, crossed, undone, faults>>

(* The server or the account hook edits its frontmatter; setTier adds one.  *)
Restamp(f) == /\ Counted
              /\ work[f] # NoFile
              /\ NextShot \in Shots
              /\ work' = Rewritten(f, Edited(f, TRUE))
              /\ source' = [source EXCEPT ![NextShot] = f]
              /\ Touched({f, NextShot} \cup SnapshotsOf(f))
              /\ UNCHANGED <<staged, head, run, crossed, undone, faults>>

Delete(f) == /\ Counted
             /\ work[f] # NoFile
             /\ work' = [work EXCEPT ![f] = NoFile]
             /\ Touched({f})
             /\ UNCHANGED <<source, staged, head, run, crossed, undone, faults>>

Move(f, g) == /\ Counted
              /\ work[f] # NoFile
              /\ work[g] = NoFile
              /\ work' = [work EXCEPT ![f] = NoFile, ![g] = work[f]]
              /\ Touched({f, g})
              /\ UNCHANGED <<source, staged, head, run, crossed, undone, faults>>

-----------------------------------------------------------------------------
(* git status --porcelain: which line each path gets. *)

Listed(f) == work[f] # staged[f] \/ staged[f] # head[f]

(* Index and HEAD differ by a file that went and one that came with the     *)
(* same text: a single line, "R  old -> new".                               *)
Renamed(f) == \E g \in Paths : /\ head[g] = NoFile
                               /\ staged[g] # NoFile
                               /\ staged[g].text = head[f].text

(* How deep in .memory-snapshots a snapshot is: the snapshot of a snapshot  *)
(* goes into a directory of its own below.                                  *)
Level[s \in Shots] == IF source[s] \in Memories \cup {NoFile} THEN 1 ELSE Level[source[s]] + 1

(* The line of a path has its name quoted, with an escape for every byte    *)
(* outside ASCII. The script takes the quotes off and leaves the escapes:   *)
(* what it then has is the name of no file. A snapshot is named for its     *)
(* file.                                                                    *)
Subject[s \in Shots] == IF source[s] \in Shots THEN Subject[source[s]] ELSE source[s]
IsQuoted(f) == (IF f \in Shots THEN Subject[f] ELSE f) \in Quoted

(* A directory without a tracked file is one line, which names no *.md.     *)
Collapsed(f) == /\ f \in Shots
                /\ staged[f] = NoFile
                /\ \A t \in Shots : staged[t] # NoFile => Level[t] < Level[f]

(* Mutant: a D in the first column, as in a whole output that was trimmed. *)
SaysDeletedStaged(f) ==
  /\ head[f] # NoFile
  /\ staged[f] = NoFile
  /\ ~Renamed(f)

(* The lines that are white space and then a D: "D  f" and " D f".          *)
SaysDeleted(f) ==
  /\ head[f] # NoFile
  /\ \/ staged[f] = NoFile /\ ~Renamed(f)
     \/ staged[f] = head[f] /\ work[f] = NoFile

(* Every other listed *.md that is there to be stamped. *)
Changed(f) == Listed(f) /\ work[f] # NoFile /\ ~Collapsed(f)

-----------------------------------------------------------------------------
(* One run of the script. *)

UnderWay == {r \in Runs : run[r].pc \notin {"new", "done"}}
Goto(r, from, to) == /\ run[r].pc = from
                     /\ run' = [run EXCEPT ![r].pc = to]

Status(r) ==
  /\ run[r].pc = "new"
  /\ LET dirty == \E f \in Paths : Listed(f) IN
       /\ run' = [run EXCEPT ![r] =
            [pc |-> IF dirty THEN "stamp" ELSE "done",
             gone |-> {f \in Memories : work[f] = NoFile /\ head[f] # NoFile},
             other |-> {f \in Memories : /\ head[f] # NoFile
                                         /\ \/ staged[f] \notin {head[f], NoFile}
                                            \/ staged[f] = NoFile /\ Renamed(f)},
             todo |-> {f \in Paths : Changed(f)},
             held |-> IF r \in Accepting THEN {} ELSE {f \in Paths : SaysDeleted(f)}]]
       /\ crossed' = IF dirty /\ UnderWay # {} THEN crossed \cup UnderWay \cup {r}
                                               ELSE crossed
  /\ UNCHANGED <<tree, staged, head, late, undone, saves, faults>>

(* Mutant: a date that is there already is left alone. *)
RefreshedIfMissing(r, c) == IF c.modified = NoFile THEN [c EXCEPT !.modified = r] ELSE c

(* setModified(): the date of this run replaces whatever date there was. *)
Refreshed(r, c) == [c EXCEPT !.modified = r]

(* What it does not write: a file that went, or that it does not find by    *)
(* the name it has; one without frontmatter; any, under the switch.         *)
Stampable(r, f) == /\ work[f] # NoFile
                   /\ ~IsQuoted(f)
                   /\ work[f].front
                   /\ r \notin ReadOnly

(* One of the changed files gets the date of this run, through safe-write   *)
(* (whose own steps are MemoryFolder's).                                    *)
Stamp(r) ==
  /\ run[r].pc = "stamp"
  /\ \E f \in run[r].todo :
       /\ run' = [run EXCEPT ![r].todo = @ \ {f}]
       /\ IF Stampable(r, f) /\ Refreshed(r, work[f]) # work[f]
          THEN /\ NextShot \in Shots
               /\ work' = Rewritten(f, Refreshed(r, work[f]))
               /\ source' = [source EXCEPT ![NextShot] = f]
          ELSE UNCHANGED tree
  /\ UNCHANGED <<staged, head, late, crossed, undone, saves, faults>>

StampDone(r) == /\ Goto(r, "stamp", "add")
                /\ run[r].todo = {}
                /\ UNCHANGED <<tree, staged, head, late, crossed, undone, saves, faults>>

(* git add -A. *)
Add(r) == /\ Goto(r, "add", IF run[r].held = {} THEN "commit" ELSE "reset")
          /\ staged' = work
          /\ undone' = undone \cup {q \in Runs \ {r} : run[q].pc = "commit"}
          /\ UNCHANGED <<tree, head, late, crossed, saves, faults>>

(* git reset -q HEAD -- <the held files>, by the names they have in status: *)
(* one that is no file is passed over.                                      *)
Reset(r) == /\ Goto(r, "reset", "commit")
            /\ staged' = [f \in Paths |-> IF f \in run[r].held /\ ~IsQuoted(f) THEN head[f] ELSE staged[f]]
            /\ UNCHANGED <<tree, head, late, crossed, undone, saves, faults>>

(* git diff --cached and git commit: of whatever the index holds by now. *)
Commit(r) == /\ Goto(r, "commit", "done")
             /\ head' = staged
             /\ UNCHANGED <<tree, staged, late, crossed, undone, saves, faults>>

Fault == faults < MaxFaults /\ faults' = faults + 1

(* index.lock is held, the disk is full, a git hook says no.  A refused     *)
(* reset is swallowed; a refused add or commit ends the run, as a kill does.*)
Refused(r) == /\ Fault
              /\ \/ Goto(r, "reset", "commit") /\ undone' = undone \cup {r}
                 \/ r \in UnderWay /\ run' = [run EXCEPT ![r].pc = "done"] /\ UNCHANGED undone
              /\ UNCHANGED <<tree, staged, head, late, crossed, saves>>

(* A stamp fails, before or after its snapshot, and that is swallowed.      *)
StampFails(r) ==
  /\ Fault
  /\ run[r].pc = "stamp"
  /\ \E f \in run[r].todo :
       /\ Stampable(r, f)
       /\ run' = [run EXCEPT ![r].todo = @ \ {f}]
       /\ late' = [late EXCEPT ![r] = @ \cup {f}]
       /\ \/ UNCHANGED tree
          \/ /\ NextShot \in Shots
             /\ work' = Rewritten(f, work[f])
             /\ source' = [source EXCEPT ![NextShot] = f]
  /\ UNCHANGED <<staged, head, crossed, undone, saves>>

Work(r) == Status(r) \/ Stamp(r) \/ StampDone(r) \/ Add(r) \/ Reset(r) \/ Commit(r)

GitNext == \/ \E f \in Memories : Save(f) \/ Restamp(f) \/ Delete(f)
           \/ \E f, g \in Memories : Move(f, g)
           \/ \E r \in Runs : Work(r) \/ Refused(r) \/ StampFails(r)

GitSpec == GitInit /\ [][GitNext]_vars
-----------------------------------------------------------------------------
Contents == [text : Memories \X (0..MaxSaves), front : BOOLEAN, modified : Runs \cup {NoFile}]
Places == [Paths -> Contents \cup {NoFile}]

Commits(r) == run[r].pc = "commit" /\ run'[r].pc = "done" /\ head' # head

(* However runs cross, are refused and are killed, a memory leaves HEAD     *)
(* only by the commit of a run that accepts deletions, or that found the    *)
(* memory in its place when it looked; or whose reset was refused, or       *)
(* undone by another run's add; or for which the index had another version  *)
(* of the memory, or its text under a new name, which an earlier run left   *)
(* there; or by whose name git means no file (commit-memories.js lines      *)
(* 21-25 and 152-181).                                                      *)
GoneStaysInHead ==
  [][\A f \in Memories : head[f] # NoFile /\ head'[f] = NoFile =>
       \E r \in Runs : Commits(r) /\ \/ r \in Accepting \cup undone
                                     \/ f \notin run[r].gone
                                     \/ f \in run[r].other \cup Quoted]_vars

(* A changed memory carries the date of the run that commits the change, in *)
(* that same commit, also when earlier runs were killed or refused halfway, *)
(* unless the file changed after the run had looked, its stamp failed, or   *)
(* two runs were under way together; and but for those that are not         *)
(* stamped: without frontmatter, with a name that git quotes, or by a run   *)
(* under the switch (commit-memories.js lines 125-152).                     *)
FactTimeIsCommitTime ==
  [][\A r \in Runs \ ReadOnly : Commits(r) /\ r \notin crossed =>
       \A f \in Memories \ (late[r] \cup Quoted) :
         (/\ head'[f] # NoFile /\ head'[f].front
          /\ head[f] = NoFile \/ head[f].text # head'[f].text)
         => head'[f].modified = r]_vars

=============================================================================
