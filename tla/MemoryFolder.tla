------------------------------ MODULE MemoryFolder ------------------------------
(***************************************************************************)
(* Folders of memories that people own and programs write into:            *)
(* lib/safe-write.js, its callers setTier, setModified, the account stamp  *)
(* and memory import, and scripts/import-memories.js, which does not use   *)
(* it.  Some of the files are in the memory folder, some in a library      *)
(* category: only the first are stamped, only the second are replaced.     *)
(*                                                                         *)
(* Every writer is a process of its own: the server, the Stop hook, the    *)
(* hook on every edit, a script.  Between any two of its system calls the  *)
(* others move, and so does a person with an editor.  A writer may be      *)
(* killed anywhere.                                                        *)
(*                                                                         *)
(* A file is its frontmatter, a set of stamps, and its body, a version.    *)
(***************************************************************************)
EXTENDS Integers, Sequences, FiniteSets

CONSTANTS
  Names,      \* the memory files
  Library,    \* those in a library category; the others are in the memory folder
  Sibling,    \* Sibling[n]: the file n.<letters>, whose snapshots share n's prefix
  Writers,    \* the writing processes; each writes once
  Kinds,      \* what they do
  Asked,      \* MEMORY_SNAPSHOTS_PER_FILE; a value that is no number counts as 0
  Default,    \* the number of snapshots kept when nothing is asked for
  ReadOnly,   \* the processes started with MEMORY_CURATED_READ_ONLY=1
  MaxSaves,   \* bound: what a person saves or deletes
  NoFile,     \* no file
  Plain       \* a file without frontmatter

Rewrites == {"demote", "promote", "modified", "account"}
Creates == {"import", "replace", "script"}

ASSUME FolderAssumption ==
  /\ Library \subseteq Names
  /\ Kinds \subseteq Rewrites \cup Creates
  /\ Asked \in Int
  /\ Default \in Nat \ {0}
  /\ ReadOnly \subseteq Writers
  /\ MaxSaves \in Nat
  /\ Sibling \in [Names -> Names \cup {NoFile}]
  /\ NoFile \notin Names

(* SNAPSHOTS_PER_FILE. *)
Keep == IF Asked = 0 THEN Default ELSE IF Asked < 1 THEN 1 ELSE Asked

VARIABLES
  text,      \* the memory files
  snaps,     \* .memory-snapshots: per file its snapshots, oldest first
  archive,   \* archive/: the superseded versions of each file
  writer,    \* what each process holds
  raced,     \* history: writers whose file another one changed since they checked it
  saves      \* what people have saved or deleted so far

vars == <<text, snaps, archive, writer, raced, saves>>

Stamps == {"archive", "account"} \cup Writers
Imported == MaxSaves + 1    \* the body of an imported document
Torn == MaxSaves + 2        \* a body cut off in the middle
Older == -1                 \* a body from before the first state
Bodies == Older..Torn
Fronts == {Plain} \cup SUBSET Stamps
Contents == [front : Fronts, body : Bodies]

Idle == [pc |-> "new", kind |-> "none", name |-> NoFile, prev |-> NoFile,
         next |-> NoFile]

FolderInit ==
  /\ text \in [Names -> {NoFile, [front |-> Plain, body |-> 0], [front |-> {}, body |-> 0]}]
  /\ \E taken \in {0, Keep} :
       snaps = [n \in Names |-> [i \in 1..taken |-> [front |-> {}, body |-> Older]]]
  /\ archive = [n \in Names |-> {}]
  /\ writer = [w \in Writers |-> Idle]
  /\ raced = {}
  /\ saves = 0

Checked == {"snapshot", "prune", "rename", "write"}
PCs == {"new", "check", "fill", "done"} \cup Checked

(* The writer's last look at its file is behind it.  A replacing import     *)
(* looks when it archives, and not again.                                   *)
Committed(w) == \/ writer[w].pc \in Checked
                \/ writer[w].kind = "replace" /\ writer[w].pc = "check"

(* Whoever is committed to this file has been overtaken. *)
Overtake(n, by) ==
  raced' = raced \cup {w \in Writers \ by : writer[w].name = n /\ Committed(w)}

Put(n, c) == text' = [text EXCEPT ![n] = c]
Step(w, from, to) == /\ writer[w].pc = from
                     /\ writer' = [writer EXCEPT ![w].pc = to]

-----------------------------------------------------------------------------
(* People. *)

Save(n) == /\ saves < MaxSaves
           /\ saves' = saves + 1
           /\ \E front \in IF text[n] = NoFile THEN {Plain, {}} ELSE {text[n].front} :
                Put(n, [front |-> front, body |-> saves + 1])
           /\ Overtake(n, {})
           /\ UNCHANGED <<snaps, archive, writer>>

Delete(n) == /\ saves < MaxSaves
             /\ saves' = saves + 1
             /\ text[n] # NoFile
             /\ Put(n, NoFile)
             /\ Overtake(n, {})
             /\ UNCHANGED <<snaps, archive, writer>>

-----------------------------------------------------------------------------
(* The callers: what they would write over the file they read. *)

Stamped(kind, w, c) ==
  LET front == IF c.front = Plain THEN {} ELSE c.front IN
  [c EXCEPT !.front =
     CASE kind = "demote"  -> front \cup {"archive"}
       [] kind = "account" -> front \cup {"account"}
       [] kind = "promote" -> IF c.front = Plain THEN Plain ELSE front \ {"archive"}
       [] kind = "modified" -> IF c.front = Plain THEN Plain ELSE (front \ Writers) \cup {w}]

(* setTier, setModified or the account stamp reads the file; without a      *)
(* change to make it stops there.                                           *)
Read(w) ==
  /\ writer[w].pc = "new"
  /\ \E kind \in Kinds \cap Rewrites, n \in Names \ Library :
       /\ text[n] # NoFile
       /\ LET next == Stamped(kind, w, text[n]) IN
            writer' = [writer EXCEPT ![w] =
              [pc |-> IF next = text[n] THEN "done" ELSE "check", kind |-> kind,
               name |-> n, prev |-> NoFile, next |-> next]]
  /\ UNCHANGED <<text, snaps, archive, raced, saves>>

(* _archiveSuperseded: a copy in archive/, with a line that says when, left *)
(* out here.                                                                *)
ArchiveSuperseded(n) == archive' = [archive EXCEPT ![n] = @ \cup {text[n]}]

(* Import decides per item: a name that is taken is skipped, or, with       *)
(* `replace' in a library category, its file is archived first.             *)
ReadItem(w) ==
  /\ writer[w].pc = "new"
  /\ \E kind \in Kinds \cap Creates, n \in Names :
       /\ kind = "replace" => n \in Library
       /\ kind = "script" => n \notin Library
       /\ LET there == text[n] # NoFile IN
            /\ writer' = [writer EXCEPT ![w] =
                 [pc |-> IF there /\ kind # "replace" THEN "done"
                         ELSE IF kind = "script" THEN "write" ELSE "check",
                  kind |-> kind, name |-> n,
                  prev |-> IF kind = "replace" THEN text[n] ELSE NoFile,
                  next |-> [front |-> {}, body |-> Imported]]]
            /\ IF there /\ kind = "replace" THEN ArchiveSuperseded(n) ELSE UNCHANGED archive
  /\ UNCHANGED <<text, snaps, raced, saves>>

-----------------------------------------------------------------------------
(* rewriteFrontmatterOnly and writeNewMemoryFile, one action per system     *)
(* call.                                                                    *)

(* Mutant: the caller's own reading is trusted. *)
CheckTrusting(w) ==
  /\ writer[w].pc = "check" /\ writer[w].kind \in Rewrites
  /\ LET prev == text[writer[w].name]
         refuse == w \in ReadOnly \/ prev = NoFile \/ prev = writer[w].next
     IN writer' = [writer EXCEPT ![w].pc = IF refuse THEN "done" ELSE "snapshot",
                                 ![w].prev = prev]
  /\ UNCHANGED <<text, snaps, archive, raced, saves>>

(* Mutant: the switch is not looked at. *)
CheckNoSwitch(w) ==
  /\ writer[w].pc = "check" /\ writer[w].kind \in Rewrites
  /\ LET prev == text[writer[w].name]
         refuse == \/ prev = NoFile \/ prev = writer[w].next
                   \/ prev.body # writer[w].next.body
     IN writer' = [writer EXCEPT ![w].pc = IF refuse THEN "done" ELSE "snapshot",
                                 ![w].prev = prev]
  /\ UNCHANGED <<text, snaps, archive, raced, saves>>

(* The switch, then a second reading: a file that is gone, that already     *)
(* says so, or whose body is another than the one to be written is left.    *)
Check(w) ==
  /\ writer[w].pc = "check"
  /\ writer[w].kind \in Rewrites
  /\ LET prev == text[writer[w].name]
         refuse == \/ w \in ReadOnly
                   \/ prev = NoFile
                   \/ prev = writer[w].next
                   \/ prev.body # writer[w].next.body
     IN writer' = [writer EXCEPT ![w].pc = IF refuse THEN "done" ELSE "snapshot",
                                 ![w].prev = prev]
  /\ UNCHANGED <<text, snaps, archive, raced, saves>>

(* Mutant: archiving is taken for granted, whoever wrote the file meanwhile. *)
CheckNewTrusting(w) ==
  /\ writer[w].pc = "check" /\ writer[w].kind \in Creates
  /\ writer' = [writer EXCEPT ![w].pc = IF w \in ReadOnly THEN "done" ELSE "rename"]
  /\ UNCHANGED <<text, snaps, archive, raced, saves>>

(* A new memory is refused over an existing file, unless this import has    *)
(* archived a version of it.                                                *)
CheckNew(w) ==
  /\ writer[w].pc = "check"
  /\ writer[w].kind \in Creates
  /\ LET n == writer[w].name
         refuse == w \in ReadOnly \/ (text[n] # NoFile /\ writer[w].prev = NoFile)
     IN writer' = [writer EXCEPT ![w].pc = IF refuse THEN "done" ELSE "rename"]
  /\ UNCHANGED <<text, snaps, archive, raced, saves>>

Snapshot(w) ==
  /\ Step(w, "snapshot", "prune")
  /\ snaps' = [snaps EXCEPT ![writer[w].name] = Append(@, writer[w].prev)]
  /\ UNCHANGED <<text, archive, raced, saves>>

Drop(s, d) == SubSeq(s, d + 1, Len(s))
AtMost(a, b) == IF a < b THEN a ELSE b

(* Keep the newest of the files that start with the name and a dot: by      *)
(* name order that is the file's own snapshots and then its sibling's.      *)
Prune(w) ==
  /\ Step(w, "prune", "rename")
  /\ LET n     == writer[w].name
         g     == Sibling[n]
         own   == Len(snaps[n])
         total == own + (IF g = NoFile THEN 0 ELSE Len(snaps[g]))
         old   == IF total > Keep THEN total - Keep ELSE 0
         mine  == AtMost(old, own)
     IN snaps' = [m \in Names |-> IF m = n THEN Drop(snaps[m], mine)
                                  ELSE IF m = g THEN Drop(snaps[m], old - mine)
                                  ELSE snaps[m]]
  /\ UNCHANGED <<text, archive, raced, saves>>

(* The new content is complete in a temporary file and takes the name in    *)
(* one step, whatever has it by now.                                        *)
Rename(w) ==
  /\ Step(w, "rename", "done")
  /\ Put(writer[w].name, writer[w].next)
  /\ Overtake(writer[w].name, {w})
  /\ UNCHANGED <<snaps, archive, saves>>

(* import-memories.js fills the file in place: first some of it, then all. *)
WritePart(w) ==
  /\ Step(w, "write", "fill")
  /\ Put(writer[w].name, [writer[w].next EXCEPT !.body = Torn])
  /\ Overtake(writer[w].name, {w})
  /\ UNCHANGED <<snaps, archive, saves>>

WriteRest(w) ==
  /\ Step(w, "fill", "done")
  /\ Put(writer[w].name, writer[w].next)
  /\ Overtake(writer[w].name, {w})
  /\ UNCHANGED <<snaps, archive, saves>>

(* A full disk or a kill: the process gets no further. *)
Stop(w) == /\ writer[w].pc \notin {"new", "done"}
           /\ writer' = [writer EXCEPT ![w].pc = "done"]
           /\ UNCHANGED <<text, snaps, archive, raced, saves>>

Work(w) == \/ Read(w) \/ ReadItem(w) \/ Check(w) \/ CheckNew(w) \/ Snapshot(w)
           \/ Prune(w) \/ Rename(w) \/ WritePart(w) \/ WriteRest(w) \/ Stop(w)

FolderNext == \/ \E n \in Names : Save(n) \/ Delete(n)
              \/ \E w \in Writers : Work(w)

FolderSpec == FolderInit /\ [][FolderNext]_vars
-----------------------------------------------------------------------------
(* This step is w putting its content at its file's name. *)
Replaces(w) == writer[w].pc = "rename" /\ writer'[w].pc # "rename"
               /\ text' # text

(* A metadata edit never changes a body, whatever a person saved between    *)
(* the caller's reading of the file and the guard's own: only a change in   *)
(* the instant between that check and the rename can slip through           *)
(* (safe-write.js lines 13-14, 74-84).                                      *)
FrontmatterEditsKeepBodies ==
  [][\A w \in Writers : Replaces(w) /\ writer[w].kind \in Rewrites /\ w \notin raced =>
       text'[writer[w].name].body = text[writer[w].name].body]_vars

(* What a program replaces can be had back: the bytes are in the snapshots  *)
(* of that file or in the archive, even when as many writers as snapshots   *)
(* are kept snapshot and prune at once, unless the file changed after the   *)
(* writer's last look at it (safe-write.js lines 15-16, 53-62, 97-103).     *)
EveryOverwriteIsUndoable ==
  [][\A w \in Writers : Replaces(w) /\ w \notin raced =>
       LET n == writer[w].name IN
         \/ text[n] = NoFile
         \/ text[n] \in archive[n]
         \/ \E i \in DOMAIN snaps[n] : snaps[n][i] = text[n]]_vars

(* A process with MEMORY_CURATED_READ_ONLY=1 changes neither the files nor  *)
(* their snapshots, whatever it was asked to do and whoever else is at work *)
(* on them (safe-write.js lines 36, 75, 105).  Two doors are open, although *)
(* MEMORY-SAFETY.md lines 50-51 say "writes nothing to it at all [...] no   *)
(* archiving": the script never asks, and a replacing import archives what  *)
(* it is about to replace before it is refused, so `archive' is left out    *)
(* here.                                                                    *)
ReadOnlyMeansUntouched ==
  [][\A w \in ReadOnly : writer'[w] # writer[w] /\ writer'[w].kind # "script" =>
       UNCHANGED <<text, snaps>>]_vars
=============================================================================
