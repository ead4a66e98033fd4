--------------------------- MODULE MemoryFolderProofs ---------------------------
(***************************************************************************)
(* Theorems about MemoryFolder: for any number of writers, files, saves    *)
(* and snapshots kept.                                                     *)
(***************************************************************************)
EXTENDS MemoryFolder, FiniteSetTheorems, TLAPS

Held == [pc : PCs, kind : Kinds \cup {"none"}, name : Names \cup {NoFile},
         prev : Contents \cup {NoFile}, next : Contents \cup {NoFile}]

(* What the proofs need of the types. *)
Typed == /\ text \in [Names -> Contents \cup {NoFile}]
         /\ writer \in [Writers -> Held]
         /\ saves \in 0..MaxSaves
         /\ \A w \in Writers : writer[w].pc # "new" =>
              writer[w].name \in Names /\ writer[w].next \in Contents

(* A rewrite that is past its check and was not overtaken still has under   *)
(* its name the body it is about to write.                                  *)
BodyAgreed ==
  \A w \in Writers :
    /\ writer[w].pc \in {"snapshot", "prune", "rename"}
    /\ writer[w].kind \in Rewrites
    /\ w \notin raced
    => text[writer[w].name].body = writer[w].next.body

(* Under the switch nobody gets past a check; only the script, which does   *)
(* not ask, could.                                                          *)
StoppedAtTheDoor ==
  \A w \in ReadOnly : writer[w].kind # "script" =>
                       writer[w].pc \in {"new", "check", "done"}

FolderInv == Typed /\ BodyAgreed /\ StoppedAtTheDoor

-----------------------------------------------------------------------------
(* Data. *)

LEMMA ContentTypes ==
  /\ \A front \in Fronts, b \in Bodies : [front |-> front, body |-> b] \in Contents
  /\ \A c \in Contents : c.front \in Fronts /\ c.body \in Bodies
  /\ {} \in Fronts /\ Plain \in Fronts
  /\ Imported \in Bodies /\ Torn \in Bodies
  /\ \A i \in 0..MaxSaves : i \in Bodies
  /\ \A c \in Contents, b \in Bodies : [c EXCEPT !.body = b] \in Contents
BY FolderAssumption DEF Contents, Fronts, Bodies, Imported, Torn, Older

LEMMA StampedType ==
  ASSUME NEW kind \in Rewrites, NEW w \in Writers, NEW c \in Contents
  PROVE  Stamped(kind, w, c) \in Contents /\ Stamped(kind, w, c).body = c.body
<1> DEFINE front == IF c.front = Plain THEN {} ELSE c.front
           out == CASE kind = "demote"  -> front \cup {"archive"}
                    [] kind = "account" -> front \cup {"account"}
                    [] kind = "promote" -> IF c.front = Plain THEN Plain ELSE front \ {"archive"}
                    [] kind = "modified" -> IF c.front = Plain THEN Plain ELSE (front \ Writers) \cup {w}
<1>1. front \in SUBSET Stamps
  BY DEF Contents, Fronts
<1>2. out \in Fronts
  BY <1>1 DEF Rewrites, Fronts, Stamps
<1>3. Stamped(kind, w, c) = [c EXCEPT !.front = out]
  BY DEF Stamped
<1> QED BY <1>2, <1>3 DEF Contents

-----------------------------------------------------------------------------
(* The initial states. *)

LEMMA FolderInvInit == FolderInit => FolderInv
<1> SUFFICES ASSUME FolderInit PROVE FolderInv
  OBVIOUS
<1>1. text \in [Names -> Contents \cup {NoFile}]
  <2>1. 0 \in Bodies
    BY FolderAssumption DEF Bodies, Older, Torn
  <2>2. [front |-> Plain, body |-> 0] \in Contents /\ [front |-> {}, body |-> 0] \in Contents
    BY <2>1, ContentTypes
  <2> QED BY <2>2 DEF FolderInit
<1>2. writer \in [Writers -> Held]
  <2>1. Idle \in Held
    BY DEF Idle, Held, PCs
  <2> QED BY <2>1 DEF FolderInit
<1>3. saves \in 0..MaxSaves
  BY FolderAssumption DEF FolderInit
<1>4. \A w \in Writers : writer[w].pc = "new"
  BY DEF FolderInit, Idle
<1>5. BodyAgreed /\ StoppedAtTheDoor
  BY <1>4, FolderAssumption DEF BodyAgreed, StoppedAtTheDoor
<1> QED BY <1>1, <1>2, <1>3, <1>4, <1>5 DEF FolderInv, Typed

-----------------------------------------------------------------------------
(* People. *)

(* Whoever changes a file marks everyone who is committed to it. *)
LEMMA OvertakenAreRaced ==
  ASSUME NEW n, NEW by, Overtake(n, by),
         NEW w \in Writers \ by, w \notin raced',
         writer[w].pc \in {"snapshot", "prune", "rename"}
  PROVE  writer[w].name # n /\ w \notin raced
BY DEF Overtake, Committed, Checked

LEMMA PeopleKeepInv ==
  ASSUME FolderInv, NEW n \in Names, Save(n) \/ Delete(n)
  PROVE  FolderInv'
<1>1. text' \in [Names -> Contents \cup {NoFile}]
  <2>1. CASE Save(n)
    <3>1. saves + 1 \in Bodies
      BY <2>1, FolderAssumption DEF Save, FolderInv, Typed, Bodies, Older, Torn
    <3>2. \A front \in (IF text[n] = NoFile THEN {Plain, {}} ELSE {text[n].front}) :
             [front |-> front, body |-> saves + 1] \in Contents
      <4>1. text[n] \in Contents \cup {NoFile}
        BY DEF FolderInv, Typed
      <4> QED BY <3>1, <4>1, ContentTypes
    <3> QED BY <2>1, <3>2 DEF Save, Put, FolderInv, Typed
  <2>2. CASE Delete(n)
    BY <2>2 DEF Delete, Put, FolderInv, Typed
  <2> QED BY <2>1, <2>2
<1>2. writer' = writer /\ Overtake(n, {})
  BY DEF Save, Delete
<1>3. saves' \in 0..MaxSaves
  BY FolderAssumption DEF Save, Delete, FolderInv, Typed
<1>4. \A m \in Names \ {n} : text'[m] = text[m]
  BY DEF Save, Delete, Put, FolderInv, Typed
<1>5. BodyAgreed'
  <2> SUFFICES ASSUME NEW w \in Writers, writer[w].pc \in {"snapshot", "prune", "rename"},
                      writer[w].kind \in Rewrites, w \notin raced'
               PROVE  text'[writer[w].name].body = writer[w].next.body
    BY <1>2 DEF BodyAgreed
  <2>1. writer[w].name # n /\ w \notin raced /\ writer[w].name \in Names
    BY <1>2, OvertakenAreRaced DEF FolderInv, Typed
  <2> QED BY <2>1, <1>4 DEF FolderInv, BodyAgreed
<1>6. StoppedAtTheDoor'
  BY <1>2 DEF FolderInv, StoppedAtTheDoor
<1> QED BY <1>1, <1>2, <1>3, <1>5, <1>6 DEF FolderInv, Typed
-----------------------------------------------------------------------------
(* Writers.  A step that leaves the files alone owes only what it says of   *)
(* itself.                                                                  *)

LEMMA QuietStep ==
  ASSUME FolderInv, NEW w \in Writers, NEW h \in Held,
         writer' = [writer EXCEPT ![w] = h],
         UNCHANGED <<text, raced, saves>>,
         h.pc \in {"snapshot", "prune", "rename"} /\ h.kind \in Rewrites /\ w \notin raced
           => text[h.name].body = h.next.body,
         h.pc # "new", h.name \in Names, h.next \in Contents,
         w \in ReadOnly /\ h.kind # "script" => h.pc \in {"new", "check", "done"}
  PROVE  FolderInv'
<1>2. \A v \in Writers : writer'[v] = IF v = w THEN h ELSE writer[v]
  BY DEF FolderInv, Typed
<1>1. Typed'
  BY <1>2 DEF FolderInv, Typed
<1>3. BodyAgreed'
  BY <1>2 DEF FolderInv, BodyAgreed
<1>4. StoppedAtTheDoor'
  BY <1>2, FolderAssumption DEF FolderInv, StoppedAtTheDoor
<1> QED BY <1>1, <1>3, <1>4 DEF FolderInv

(* A step that writes a file overtakes everyone else who is about to.       *)
LEMMA WritingStep ==
  ASSUME FolderInv, NEW w \in Writers, NEW h \in Held, NEW c \in Contents,
         writer' = [writer EXCEPT ![w] = h],
         Put(writer[w].name, c), Overtake(writer[w].name, {w}), UNCHANGED saves,
         h.pc \notin {"new", "snapshot", "prune", "rename"},
         h.name \in Names, h.next \in Contents,
         w \in ReadOnly /\ h.kind # "script" => h.pc \in {"new", "check", "done"}
  PROVE  FolderInv'
<1>2. \A v \in Writers : writer'[v] = IF v = w THEN h ELSE writer[v]
  BY DEF FolderInv, Typed
<1>1. Typed'
  BY <1>2 DEF FolderInv, Typed, Put
<1>3. BodyAgreed'
  <2> SUFFICES ASSUME NEW v \in Writers, writer'[v].pc \in {"snapshot", "prune", "rename"},
                      writer'[v].kind \in Rewrites, v \notin raced'
               PROVE  text'[writer'[v].name].body = writer'[v].next.body
    BY DEF BodyAgreed
  <2>1. v # w /\ writer'[v] = writer[v]
    BY <1>2
  <2>2. /\ writer[v].name # writer[w].name /\ v \notin raced
        /\ writer[v].name \in Names
    BY <2>1, OvertakenAreRaced DEF FolderInv, Typed
  <2>3. text[writer[v].name].body = writer[v].next.body
    BY <2>1, <2>2 DEF FolderInv, BodyAgreed
  <2> QED BY <2>1, <2>2, <2>3 DEF Put, FolderInv, Typed
<1>4. StoppedAtTheDoor'
  BY <1>2, FolderAssumption DEF FolderInv, StoppedAtTheDoor
<1> QED BY <1>1, <1>3, <1>4 DEF FolderInv

(* What a writer holds when only its place in the code changes. *)
LEMMA Moved ==
  ASSUME FolderInv, NEW w \in Writers, NEW to \in PCs, writer[w].pc # "new"
  PROVE  LET h == [writer[w] EXCEPT !.pc = to] IN
         /\ h \in Held
         /\ [writer EXCEPT ![w].pc = to] = [writer EXCEPT ![w] = h]
         /\ h.pc = to /\ h.kind = writer[w].kind /\ h.name = writer[w].name
         /\ h.next = writer[w].next
         /\ h.name \in Names /\ h.next \in Contents
BY DEF FolderInv, Typed, Held

LEMMA WorkKeepsInv ==
  ASSUME FolderInv, NEW w \in Writers, Work(w)
  PROVE  FolderInv'
<1>h. writer[w] \in Held
  BY DEF FolderInv, Typed
<1>1. CASE Read(w)
  <2>1. PICK kind \in Kinds \cap Rewrites, n \in Names \ Library :
          /\ text[n] # NoFile
          /\ LET next == Stamped(kind, w, text[n]) IN
               writer' = [writer EXCEPT ![w] =
                 [pc |-> IF next = text[n] THEN "done" ELSE "check", kind |-> kind,
                  name |-> n, prev |-> NoFile, next |-> next]]
    BY <1>1 DEF Read
  <2> DEFINE next == Stamped(kind, w, text[n])
             h == [pc |-> IF next = text[n] THEN "done" ELSE "check", kind |-> kind,
                   name |-> n, prev |-> NoFile, next |-> next]
  <2>2. next \in Contents
    BY <2>1, StampedType DEF FolderInv, Typed
  <2>3. h \in Held /\ h.pc \in {"check", "done"} /\ h.name \in Names /\ h.next \in Contents
    BY <2>2 DEF Held, PCs
  <2>4. writer' = [writer EXCEPT ![w] = h] /\ UNCHANGED <<text, raced, saves>>
    BY <1>1, <2>1 DEF Read
  <2> HIDE DEF h
  <2> QED BY <2>3, <2>4, QuietStep
<1>2. CASE ReadItem(w)
  <2>1. PICK kind \in Kinds \cap Creates, n \in Names :
          writer' = [writer EXCEPT ![w] =
            [pc |-> IF text[n] # NoFile /\ kind # "replace" THEN "done"
                    ELSE IF kind = "script" THEN "write" ELSE "check",
             kind |-> kind, name |-> n,
             prev |-> IF kind = "replace" THEN text[n] ELSE NoFile,
             next |-> [front |-> {}, body |-> Imported]]]
    BY <1>2 DEF ReadItem, ArchiveSuperseded
  <2> DEFINE h == [pc |-> IF text[n] # NoFile /\ kind # "replace" THEN "done"
                          ELSE IF kind = "script" THEN "write" ELSE "check",
                   kind |-> kind, name |-> n,
                   prev |-> IF kind = "replace" THEN text[n] ELSE NoFile,
                   next |-> [front |-> {}, body |-> Imported]]
  <2>2. [front |-> {}, body |-> Imported] \in Contents /\ text[n] \in Contents \cup {NoFile}
    BY ContentTypes DEF FolderInv, Typed
  <2>3. /\ h \in Held /\ h.pc \in {"check", "done", "write"}
        /\ h.pc = "write" => h.kind = "script"
        /\ h.name \in Names /\ h.next \in Contents
    BY <2>2 DEF Held, PCs, Checked
  <2>4. writer' = [writer EXCEPT ![w] = h] /\ UNCHANGED <<text, raced, saves>>
    BY <1>2, <2>1 DEF ReadItem, ArchiveSuperseded
  <2> HIDE DEF h
  <2> QED BY <2>3, <2>4, QuietStep
<1>3. CASE Check(w)
  <2> DEFINE prev == text[writer[w].name]
             refuse == w \in ReadOnly \/ prev = NoFile \/ prev = writer[w].next
                       \/ prev.body # writer[w].next.body
             to == IF refuse THEN "done" ELSE "snapshot"
             h == [writer[w] EXCEPT !.pc = to, !.prev = prev]
  <2>1. writer' = [writer EXCEPT ![w] = h] /\ UNCHANGED <<text, raced, saves>>
    BY <1>3, <1>h DEF Check, Held, FolderInv, Typed
  <2>2. writer[w].name \in Names /\ writer[w].next \in Contents /\ prev \in Contents \cup {NoFile}
    BY <1>3 DEF Check, FolderInv, Typed
  <2>3. to \in PCs /\ to \in {"done", "snapshot"}
    BY DEF PCs, Checked
  <2>4. /\ h \in Held /\ h.pc = to /\ h.name = writer[w].name /\ h.next = writer[w].next
        /\ h.name \in Names /\ h.next \in Contents
    BY <1>h, <2>2, <2>3 DEF Held
  <2>5. h.pc = "snapshot" => w \notin ReadOnly /\ text[h.name].body = h.next.body
    BY <2>4
  <2> HIDE DEF h
  <2> QED BY <2>1, <2>3, <2>4, <2>5, QuietStep
<1>4. CASE CheckNew(w)
  <2> DEFINE refuse == w \in ReadOnly \/ (text[writer[w].name] # NoFile /\ writer[w].prev = NoFile)
             to == IF refuse THEN "done" ELSE "rename"
             h == [writer[w] EXCEPT !.pc = to]
  <2>1. writer' = [writer EXCEPT ![w].pc = to] /\ UNCHANGED <<text, raced, saves>>
        /\ writer[w].pc = "check" /\ writer[w].kind \in Creates
    BY <1>4 DEF CheckNew
  <2>2. to \in PCs /\ to \in {"done", "rename"} /\ (to = "rename" => w \notin ReadOnly)
    BY DEF PCs, Checked
  <2>3. /\ h \in Held /\ h.pc = to /\ h.kind \in Creates
        /\ h.name \in Names /\ h.next \in Contents
        /\ writer' = [writer EXCEPT ![w] = h]
    BY <2>1, <2>2, Moved
  <2>4. h.kind \notin Rewrites
    BY <2>3 DEF Rewrites, Creates
  <2> HIDE DEF h
  <2> QED BY <2>1, <2>2, <2>3, <2>4, QuietStep
<1>5. CASE Snapshot(w) \/ Prune(w)
  <2> DEFINE to == IF writer[w].pc = "snapshot" THEN "prune" ELSE "rename"
             h == [writer[w] EXCEPT !.pc = to]
  <2>1. writer' = [writer EXCEPT ![w].pc = to] /\ UNCHANGED <<text, raced, saves>>
        /\ writer[w].pc \in {"snapshot", "prune"}
    BY <1>5 DEF Snapshot, Prune, Step
  <2>2. to \in PCs
    BY DEF PCs, Checked
  <2>3. /\ h \in Held /\ h.kind = writer[w].kind /\ h.pc \in {"prune", "rename"}
        /\ h.name \in Names /\ h.next \in Contents
        /\ h.name = writer[w].name /\ h.next = writer[w].next
        /\ writer' = [writer EXCEPT ![w] = h]
    BY <2>1, <2>2, Moved
  <2>4. h.kind \in Rewrites /\ w \notin raced => text[h.name].body = h.next.body
    BY <2>1, <2>3 DEF FolderInv, BodyAgreed
  <2>5. ~(w \in ReadOnly /\ h.kind # "script")
    BY <2>1, <2>3 DEF FolderInv, StoppedAtTheDoor
  <2> HIDE DEF h
  <2> QED BY <2>1, <2>3, <2>4, <2>5, QuietStep
<1>6. CASE Rename(w) \/ WritePart(w) \/ WriteRest(w)
  <2>1. PICK to \in {"done", "fill"}, c \in {writer[w].next, [writer[w].next EXCEPT !.body = Torn]} :
          /\ writer' = [writer EXCEPT ![w].pc = to]
          /\ Put(writer[w].name, c)
    BY <1>6 DEF Rename, WritePart, WriteRest, Step
  <2>2. /\ writer[w].pc \in {"rename", "write", "fill"}
        /\ Overtake(writer[w].name, {w}) /\ UNCHANGED saves
    BY <1>6 DEF Rename, WritePart, WriteRest, Step
  <2> DEFINE h == [writer[w] EXCEPT !.pc = to]
  <2>3. /\ h \in Held /\ h.pc = to /\ h.name \in Names /\ h.next \in Contents
        /\ h.next = writer[w].next /\ h.kind = writer[w].kind
        /\ writer' = [writer EXCEPT ![w] = h]
    BY <2>1, <2>2, Moved DEF PCs
  <2>4. c \in Contents
    BY <2>1, <2>3, ContentTypes
  <2>5. ~(w \in ReadOnly /\ h.kind # "script")
    BY <2>2, <2>3 DEF FolderInv, StoppedAtTheDoor
  <2> HIDE DEF h
  <2> QED BY <2>1, <2>2, <2>3, <2>4, <2>5, WritingStep
<1>7. CASE Stop(w)
  <2> DEFINE h == [writer[w] EXCEPT !.pc = "done"]
  <2>1. writer' = [writer EXCEPT ![w].pc = "done"] /\ UNCHANGED <<text, raced, saves>>
        /\ writer[w].pc # "new"
    BY <1>7 DEF Stop
  <2>2. /\ h \in Held /\ h.pc = "done" /\ h.name \in Names /\ h.next \in Contents
        /\ writer' = [writer EXCEPT ![w] = h]
    BY <2>1, Moved DEF PCs
  <2> HIDE DEF h
  <2> QED BY <2>1, <2>2, QuietStep
<1> QED BY <1>1, <1>2, <1>3, <1>4, <1>5, <1>6, <1>7 DEF Work

-----------------------------------------------------------------------------
(* The invariant behind the theorems: every step of every writer and person *)
(* keeps it (safe-write.js lines 74-115).                                   *)
THEOREM FolderInvariant == FolderSpec => []FolderInv
<1>1. FolderInv /\ [FolderNext]_vars => FolderInv'
  <2> SUFFICES ASSUME FolderInv, [FolderNext]_vars PROVE FolderInv'
    OBVIOUS
  <2>1. CASE UNCHANGED vars
    BY <2>1 DEF vars, FolderInv, Typed, BodyAgreed, StoppedAtTheDoor
  <2>2. CASE FolderNext
    BY <2>2, PeopleKeepInv, WorkKeepsInv DEF FolderNext
  <2> QED BY <2>1, <2>2
<1> QED BY FolderInvInit, <1>1, PTL DEF FolderSpec

(* A process changes its own variables and nobody else's.                  *)
LEMMA OwnStep ==
  ASSUME FolderInv, NEW v \in Writers, Work(v),
         NEW w \in Writers, writer'[w] # writer[w]
  PROVE  v = w
<1>1. \E h : writer' = [writer EXCEPT ![v] = h]
  BY DEF Work, Read, ReadItem, ArchiveSuperseded, Check, CheckNew, Snapshot, Prune, Rename, WritePart,
         WriteRest, Stop, Step
<1> QED BY <1>1 DEF FolderInv, Typed

(* A step in which a writer's content takes its file's name is its rename.  *)
LEMMA OnlyRenameReplaces ==
  ASSUME FolderInv, [FolderNext]_vars, NEW w \in Writers, Replaces(w)
  PROVE  Rename(w)
<1>1. writer'[w].pc # "rename" /\ writer[w].pc = "rename" /\ text' # text
  BY DEF Replaces
<1>2. PICK v \in Writers : Work(v)
  BY <1>1 DEF FolderNext, Save, Delete, vars
<1>3. v = w
  BY <1>1, <1>2, OwnStep
<1> QED BY <1>1, <1>2, <1>3 DEF Work, Read, ReadItem, ArchiveSuperseded, Check, CheckNew, Snapshot, Prune,
             WritePart, WriteRest, Stop, Step

(* With any number of writers and people: a metadata edit that nobody       *)
(* overtakes between its check and its rename leaves the body as it was     *)
(* (safe-write.js lines 74-84).                                             *)
THEOREM EditsKeepBodies == FolderSpec => FrontmatterEditsKeepBodies
<1>1. FolderInv /\ [FolderNext]_vars =>
        [\A w \in Writers : Replaces(w) /\ writer[w].kind \in Rewrites /\ w \notin raced =>
           text'[writer[w].name].body = text[writer[w].name].body]_vars
  <2> SUFFICES ASSUME FolderInv, [FolderNext]_vars, NEW w \in Writers, Replaces(w),
                      writer[w].kind \in Rewrites, w \notin raced
               PROVE  text'[writer[w].name].body = text[writer[w].name].body
    OBVIOUS
  <2>1. Rename(w)
    BY OnlyRenameReplaces
  <2>2. /\ writer[w].name \in Names
        /\ text[writer[w].name].body = writer[w].next.body
    BY <2>1 DEF Rename, Step, FolderInv, Typed, BodyAgreed
  <2> QED BY <2>1, <2>2 DEF Rename, Put, FolderInv, Typed
<1> QED BY FolderInvariant, <1>1, PTL DEF FolderSpec, FrontmatterEditsKeepBodies

(* A process with MEMORY_CURATED_READ_ONLY=1 touches neither a memory nor a *)
(* snapshot, except through the script that does not ask; a replacing       *)
(* import may still add to the archive (safe-write.js lines 75 and 105).    *)
THEOREM ReadOnlyIsKept == FolderSpec => ReadOnlyMeansUntouched
<1>1. FolderInv /\ [FolderNext]_vars =>
        [\A w \in ReadOnly : writer'[w] # writer[w] /\ writer'[w].kind # "script" =>
           UNCHANGED <<text, snaps>>]_vars
  <2> SUFFICES ASSUME FolderInv, FolderNext, NEW w \in ReadOnly,
                      writer'[w] # writer[w], writer'[w].kind # "script"
               PROVE  UNCHANGED <<text, snaps>>
    BY DEF vars
  <2>1. w \in Writers
    BY FolderAssumption
  <2>2. PICK v \in Writers : Work(v)
    BY DEF FolderNext, Save, Delete
  <2>3. v = w
    BY <2>1, <2>2, OwnStep
  <2>4. CASE writer[w].pc = "new"
    BY <2>2, <2>3, <2>4 DEF Work, Read, ReadItem, ArchiveSuperseded, Check, CheckNew, Snapshot, Prune,
       Rename, WritePart, WriteRest, Stop, Step
  <2>5. CASE writer[w].pc # "new"
    <3>1. writer'[w].kind = writer[w].kind
      <4>1. CASE Check(w)
        BY <2>1, <4>1 DEF Check, FolderInv, Typed, Held
      <4>2. CASE ~Check(w)
        <5>1. PICK to : writer' = [writer EXCEPT ![w].pc = to]
          BY <2>2, <2>3, <2>5, <4>2 DEF Work, Read, ReadItem, ArchiveSuperseded, CheckNew, Snapshot, Prune,
             Rename, WritePart, WriteRest, Stop, Step
        <5> QED BY <2>1, <5>1 DEF FolderInv, Typed, Held
      <4> QED BY <4>1, <4>2
    <3>2. writer[w].pc \in {"check", "done"}
      BY <2>5, <3>1 DEF FolderInv, StoppedAtTheDoor
    <3> QED BY <2>2, <2>3, <3>2 DEF Work, Read, ReadItem, ArchiveSuperseded, Check, CheckNew, Snapshot, Prune,
               Rename, WritePart, WriteRest, Stop, Step
  <2> QED BY <2>4, <2>5
<1> QED BY FolderInvariant, <1>1, PTL DEF FolderSpec, ReadOnlyMeansUntouched

-----------------------------------------------------------------------------
(* What a program replaces can be had back.  Two things make it so: what a  *)
(* writer last saw under the name is there until somebody overtakes it, and *)
(* the snapshot it took of that is among the newest Keep, because too few   *)
(* others take one after it.                                                *)

(* What the writer last saw is still under the name. *)
SeenIsThere(w) ==
  w \notin raced =>
    LET n == writer[w].name IN
      /\ writer[w].kind \in Rewrites /\ writer[w].pc \in {"snapshot", "prune", "rename"} =>
           text[n] = writer[w].prev
      /\ writer[w].kind = "replace" /\ writer[w].pc \in {"check", "rename"} =>
           text[n] = writer[w].prev
      /\ writer[w].kind = "import" /\ writer[w].pc = "rename" => text[n] = NoFile

(* An import archived what it is about to replace. *)
ReplacedIsArchived(w) ==
  writer[w].kind = "replace" /\ writer[w].pc \in {"check", "rename"} =>
    writer[w].prev = NoFile \/ writer[w].prev \in archive[writer[w].name]

(* Who does what where. *)
InPlace(w) == /\ writer[w].kind = "import" => writer[w].prev = NoFile
              /\ writer[w].pc \in {"snapshot", "prune"} => writer[w].kind \in Rewrites
              /\ writer[w].pc \in {"check", "rename"} =>
                   writer[w].kind \in Rewrites \cup {"import", "replace"}

UndoInv == /\ snaps \in [Names -> Seq(Contents \cup {NoFile})]
           /\ DOMAIN archive = Names
           /\ \A w \in Writers : /\ SeenIsThere(w)
                                 /\ ReplacedIsArchived(w)
                                 /\ InPlace(w)

LEMMA KeepPositive == Keep \in Nat /\ Keep >= 1
BY FolderAssumption DEF Keep

(* What a writer's step does to what it holds. *)
LEMMA WriterMoves ==
  ASSUME FolderInv, NEW v \in Writers, Work(v)
  PROVE  /\ \A w \in Writers \ {v} : writer'[w] = writer[w]
         /\ writer[v].pc # "done"
         /\ writer[v].pc = "new" => writer'[v].pc \in {"check", "write", "done"}
         /\ writer[v].pc # "new" =>
              /\ writer'[v].kind = writer[v].kind
              /\ writer'[v].name = writer[v].name
              /\ writer[v].name \in Names
              /\ writer[v].pc # "check" => writer'[v].prev = writer[v].prev
              /\ writer[v].pc \in {"prune", "rename"} => writer'[v].pc \in {"rename", "done"}
<1>1. ASSUME NEW w \in Writers \ {v} PROVE writer'[w] = writer[w]
  BY <1>1, OwnStep
<1>2. writer \in [Writers -> Held] /\ writer[v] \in Held
  BY DEF FolderInv, Typed
<1>3. CASE Read(v) \/ ReadItem(v)
  BY <1>1, <1>2, <1>3 DEF Read, ReadItem, ArchiveSuperseded
<1>4. CASE Check(v)
  <2>1. PICK to \in {"done", "snapshot"}, prev \in {text[writer[v].name]} :
          writer' = [writer EXCEPT ![v].pc = to, ![v].prev = prev]
    BY <1>4 DEF Check
  <2>2. writer'[v].kind = writer[v].kind /\ writer'[v].name = writer[v].name
    BY <1>2, <2>1 DEF Held
  <2> QED
    BY <1>1, <1>4, <2>2 DEF Check, FolderInv, Typed
<1>5. CASE ~Read(v) /\ ~ReadItem(v) /\ ~Check(v)
  <2>1. PICK to : /\ writer' = [writer EXCEPT ![v].pc = to]
                  /\ writer[v].pc \in {"prune", "rename"} => to \in {"rename", "done"}
                  /\ writer[v].pc \notin {"new", "done"}
    BY <1>5 DEF Work, CheckNew, Snapshot, Prune, Rename, WritePart, WriteRest, Stop, Step
  <2>2. /\ writer'[v].kind = writer[v].kind /\ writer'[v].name = writer[v].name
        /\ writer'[v].prev = writer[v].prev /\ writer'[v].pc = to
    BY <1>2, <2>1 DEF Held
  <2> QED
    BY <1>1, <2>1, <2>2 DEF FolderInv, Typed
<1> QED
  BY <1>3, <1>4, <1>5

NoSiblings == \A n \in Names : Sibling[n] = NoFile

LEMMA DropFacts ==
  ASSUME NEW S, NEW s \in Seq(S), NEW d \in 0..Len(s)
  PROVE  /\ Drop(s, d) \in Seq(S)
         /\ Len(Drop(s, d)) = Len(s) - d
         /\ \A i \in 1..(Len(s) - d) : Drop(s, d)[i] = s[i + d]
BY DEF Drop

(* Without a sibling a prune takes the oldest of the file's own snapshots.  *)
LEMMA PruneTakesOwn ==
  ASSUME FolderInv, UndoInv, NoSiblings, NEW v \in Writers, Prune(v)
  PROVE  LET n == writer[v].name IN
         \E old \in 0..Len(snaps[n]) :
           /\ old = IF Len(snaps[n]) > Keep THEN Len(snaps[n]) - Keep ELSE 0
           /\ snaps' \in [Names -> Seq(Contents \cup {NoFile})]
           /\ snaps'[n] = Drop(snaps[n], old)
           /\ \A m \in Names \ {n} : snaps'[m] = snaps[m]
<1> DEFINE n == writer[v].name
           own == Len(snaps[n])
           old == IF own > Keep THEN own - Keep ELSE 0
<1>1. n \in Names /\ snaps[n] \in Seq(Contents \cup {NoFile})
  BY DEF Prune, Step, FolderInv, Typed, UndoInv
<1>2. Sibling[n] = NoFile /\ \A m \in Names : m # NoFile
  BY <1>1, FolderAssumption DEF NoSiblings
<1>3. own \in Nat /\ old \in 0..own
  BY <1>1, KeepPositive
<1>4. own + 0 = own /\ AtMost(old, own) = old
  BY <1>3 DEF AtMost
<1>5. snaps' = [m \in Names |-> IF m = n THEN Drop(snaps[m], old) ELSE snaps[m]]
  <2> DEFINE g == Sibling[n]
             total == own + (IF g = NoFile THEN 0 ELSE Len(snaps[g]))
             old2 == IF total > Keep THEN total - Keep ELSE 0
             mine == AtMost(old2, own)
  <2>1. snaps' = [m \in Names |-> IF m = n THEN Drop(snaps[m], mine)
                                  ELSE IF m = g THEN Drop(snaps[m], old2 - mine)
                                  ELSE snaps[m]]
    BY DEF Prune
  <2>2. total = own
    BY <1>2, <1>4
  <2>3. old2 = old /\ mine = old
    BY <1>4, <2>2
  <2>4. \A m \in Names : m # g
    BY <1>2
  <2> HIDE DEF g, mine, old2
  <2> QED
    BY <2>1, <2>3, <2>4
<1>6. Drop(snaps[n], old) \in Seq(Contents \cup {NoFile})
  BY <1>1, <1>3, DropFacts
<1> HIDE DEF old, n
<1>7. snaps' \in [Names -> Seq(Contents \cup {NoFile})]
  BY <1>5, <1>6 DEF UndoInv
<1> QED
  BY <1>1, <1>3, <1>5, <1>7 DEF n, old

(* A prune leaves the newest Keep snapshots of the file. *)
LEMMA PruneLeavesRecent ==
  ASSUME FolderInv, UndoInv, NoSiblings, NEW v \in Writers, Prune(v),
         NEW n \in Names, n = writer[v].name,
         NEW i \in 1..Len(snaps[n]), Len(snaps[n]) - i < Keep
  PROVE  \E j \in 1..Len(snaps'[n]) : /\ snaps'[n][j] = snaps[n][i]
                                      /\ Len(snaps'[n]) - j = Len(snaps[n]) - i
<1>1. PICK s \in Seq(Contents \cup {NoFile}) : s = snaps[n]
  BY DEF UndoInv
<1>2. PICK old : /\ old \in 0..Len(s)
                 /\ old = IF Len(s) > Keep THEN Len(s) - Keep ELSE 0
                 /\ snaps'[n] = Drop(s, old)
  <2>1. PICK m : m = writer[v].name
    OBVIOUS
  <2>2. \E old \in 0..Len(snaps[m]) :
          /\ old = IF Len(snaps[m]) > Keep THEN Len(snaps[m]) - Keep ELSE 0
          /\ snaps'[m] = Drop(snaps[m], old)
    BY <2>1, PruneTakesOwn
  <2>3. m = n
    BY <2>1
  <2> QED
    BY <1>1, <2>2, <2>3
<1>3. PICK t : t = snaps'[n]
  OBVIOUS
<1>4. /\ Len(t) = Len(s) - old
      /\ \A j \in 1..(Len(s) - old) : t[j] = s[j + old]
  <2>1. /\ Len(Drop(s, old)) = Len(s) - old
        /\ \A j \in 1..(Len(s) - old) : Drop(s, old)[j] = s[j + old]
    BY <1>2, DropFacts
  <2> QED
    BY <1>2, <1>3, <2>1
<1>5. Len(s) \in Nat /\ i \in 1..Len(s) /\ Len(s) - i < Keep
  BY <1>1
<1>6. \E j \in 1..Len(t) : t[j] = s[i] /\ Len(t) - j = Len(s) - i
  <2>1. i - old \in 1..(Len(s) - old)
    <3>1. Keep \in Nat /\ Keep >= 1
      BY KeepPositive
    <3>2. i > old
      BY <1>2, <1>5, <3>1
    <3> QED
      BY <1>2, <1>5, <3>2
  <2>2. t[i - old] = s[i]
    <3>1. (i - old) + old = i
      BY <1>2, <1>5
    <3> QED
      BY <1>4, <2>1, <3>1
  <2>3. Len(t) - (i - old) = Len(s) - i
    BY <1>2, <1>4, <1>5
  <2>4. i - old \in 1..Len(t)
    BY <1>4, <2>1
  <2> QED
    BY <2>2, <2>3, <2>4
<1> QED
  BY <1>1, <1>3, <1>6

(* Of two counts of writers the later is larger by a newcomer. *)
LEMMA CountGrows ==
  ASSUME IsFiniteSet(Writers), NEW Q \in SUBSET Writers, NEW P \in SUBSET Q, NEW w \in Writers
  PROVE  /\ Cardinality(P \ {w}) \in Nat /\ Cardinality(Q \ {w}) \in Nat
         /\ Cardinality(P \ {w}) <= Cardinality(Q \ {w})
         /\ \A v \in Q \ {w} : v \notin P => Cardinality(P \ {w}) + 1 <= Cardinality(Q \ {w})
         /\ w \in P /\ Cardinality(P) <= Keep => Cardinality(P \ {w}) < Keep
<1> DEFINE p == P \ {w}
           q == Q \ {w}
<1>1. IsFiniteSet(P) /\ IsFiniteSet(p) /\ IsFiniteSet(q)
  <2>1. P \in SUBSET Writers /\ p \in SUBSET Writers /\ q \in SUBSET Writers
    OBVIOUS
  <2> QED
    BY <2>1, FS_Subset
<1>2. Cardinality(P) \in Nat /\ Cardinality(p) \in Nat /\ Cardinality(q) \in Nat
  BY <1>1, FS_CardinalityType
<1>3. Cardinality(p) <= Cardinality(q)
  <2>1. p \in SUBSET q
    OBVIOUS
  <2> QED
    BY <1>1, <2>1, FS_Subset
<1>4. ASSUME NEW v \in q, v \notin P PROVE Cardinality(p) + 1 <= Cardinality(q)
  <2>1. p \cup {v} \in SUBSET q /\ v \notin p
    BY <1>4
  <2>2. Cardinality(p \cup {v}) = Cardinality(p) + 1 /\ IsFiniteSet(p \cup {v})
    BY <1>1, <2>1, FS_AddElement
  <2>3. Cardinality(p \cup {v}) <= Cardinality(q)
    BY <1>1, <2>1, FS_Subset
  <2> QED
    BY <2>2, <2>3
<1>5. ASSUME w \in P, Cardinality(P) <= Keep PROVE Cardinality(p) < Keep
  <2>1. Cardinality(p) = Cardinality(P) - 1
    BY <1>1, <1>5, FS_RemoveElement
  <2> QED
    BY <1>2, <1>5, <2>1, KeepPositive
<1> QED
  BY <1>2, <1>3, <1>4, <1>5

(* The writer's snapshot is there, and only others of a set have added one  *)
(* since.                                                                   *)
SnapshotAmong(w, P) ==
  LET n == writer[w].name IN
    \E i \in 1..Len(snaps[n]) : /\ snaps[n][i] = writer[w].prev
                                /\ Len(snaps[n]) - i <= Cardinality(P \ {w})

(* Another's step does not take the snapshot away while the set has at most *)
(* Keep members and takes in whoever adds a snapshot.                       *)
LEMMA OthersKeepSnapshot ==
  ASSUME FolderInv, UndoInv, NoSiblings, IsFiniteSet(Writers),
         NEW w \in Writers, NEW v \in Writers \ {w}, Work(v), writer[w].name \in Names,
         NEW Q \in SUBSET Writers, NEW P \in SUBSET Q, w \in P, Cardinality(P) <= Keep,
         Snapshot(v) /\ writer[v].name = writer[w].name => v \in Q /\ v \notin P,
         SnapshotAmong(w, P)
  PROVE  SnapshotAmong(w, Q)'
<1>1. writer'[w] = writer[w]
  BY WriterMoves
<1>2. PICK n \in Names : n = writer[w].name
  OBVIOUS
<1>3. PICK i \in 1..Len(snaps[n]) : /\ snaps[n][i] = writer[w].prev
                                    /\ Len(snaps[n]) - i <= Cardinality(P \ {w})
  BY <1>2 DEF SnapshotAmong
<1>4. /\ Cardinality(P \ {w}) \in Nat /\ Cardinality(Q \ {w}) \in Nat
      /\ Cardinality(P \ {w}) <= Cardinality(Q \ {w})
      /\ Cardinality(P \ {w}) < Keep
      /\ Snapshot(v) /\ writer[v].name = n => Cardinality(P \ {w}) + 1 <= Cardinality(Q \ {w})
  BY <1>2, CountGrows
<1>5. PICK p \in Nat, q \in Nat : p = Cardinality(P \ {w}) /\ q = Cardinality(Q \ {w})
  BY <1>4
<1>6. snaps[n] \in Seq(Contents \cup {NoFile})
  BY DEF UndoInv
<1>7. Len(snaps[n]) \in Nat /\ i \in 1..Len(snaps[n])
  BY <1>6
<1> SUFFICES \E j \in 1..Len(snaps'[n]) : /\ snaps'[n][j] = writer[w].prev
                                          /\ Len(snaps'[n]) - j <= q
  BY <1>1, <1>2, <1>5 DEF SnapshotAmong
<1>8. CASE snaps'[n] = snaps[n]
  BY <1>3, <1>4, <1>5, <1>7, <1>8
<1>9. CASE Snapshot(v) /\ writer[v].name = n
  <2>1. writer[v].prev \in Contents \cup {NoFile}
    BY DEF FolderInv, Typed, Held
  <2>2. snaps'[n] = Append(snaps[n], writer[v].prev)
    BY <1>9 DEF Snapshot, UndoInv
  <2>3. Len(snaps'[n]) = Len(snaps[n]) + 1 /\ snaps'[n][i] = snaps[n][i]
    BY <1>6, <1>7, <2>1, <2>2
  <2>4. Len(snaps'[n]) - i <= q
    BY <1>3, <1>4, <1>5, <1>7, <1>9, <2>3
  <2>5. i \in 1..Len(snaps'[n]) /\ snaps'[n][i] = writer[w].prev
    BY <1>3, <1>7, <2>3
  <2> QED
    BY <2>4, <2>5
<1>10. CASE Prune(v) /\ writer[v].name = n
  <2>1. Len(snaps[n]) - i < Keep
    BY <1>3, <1>4, <1>5, <1>7, KeepPositive
  <2>2. PICK j \in 1..Len(snaps'[n]) : /\ snaps'[n][j] = snaps[n][i]
                                       /\ Len(snaps'[n]) - j = Len(snaps[n]) - i
    BY <1>10, <2>1, PruneLeavesRecent
  <2> QED
    BY <1>3, <1>4, <1>5, <1>7, <2>2
<1>11. CASE ~((Snapshot(v) \/ Prune(v)) /\ writer[v].name = n)
  <2>1. snaps'[n] = snaps[n]
    <3>1. CASE Snapshot(v)
      BY <1>11, <3>1 DEF Snapshot, UndoInv
    <3>2. CASE Prune(v)
      BY <1>11, <3>2, PruneTakesOwn
    <3>3. CASE ~Snapshot(v) /\ ~Prune(v)
      BY <3>3 DEF Work, Read, ReadItem, Check, CheckNew, Rename, WritePart, WriteRest, Stop
    <3> QED
      BY <3>1, <3>2, <3>3
  <2> QED
    BY <1>8, <2>1
<1> QED
  BY <1>9, <1>10, <1>11

(* Nor does its own. *)
LEMMA OwnStepKeepsSnapshot ==
  ASSUME FolderInv, UndoInv, NoSiblings, IsFiniteSet(Writers), NEW w \in Writers, Work(w),
         writer'[w].kind \in Rewrites, writer'[w].pc \in {"prune", "rename"},
         NEW Q \in SUBSET Writers, NEW P \in SUBSET Q, Cardinality(P) <= Keep,
         writer[w].kind \in Rewrites /\ writer[w].pc = "prune" => w \in P /\ SnapshotAmong(w, P)
  PROVE  SnapshotAmong(w, Q)'
<1>1. /\ writer[w].pc # "new" /\ writer[w].name \in Names
      /\ writer'[w].kind = writer[w].kind /\ writer'[w].name = writer[w].name
  BY WriterMoves
<1>2. Snapshot(w) \/ Prune(w)
  BY <1>1 DEF Work, Read, ReadItem, Check, CheckNew, Rename, WritePart, WriteRest, Stop, Step,
              FolderInv, Typed, Held, Rewrites, Creates
<1>3. writer'[w].prev = writer[w].prev
  BY <1>1, <1>2, WriterMoves DEF Snapshot, Prune, Step
<1>4. PICK n \in Names : n = writer[w].name
  BY <1>1
<1>5. /\ Cardinality(P \ {w}) \in Nat /\ Cardinality(Q \ {w}) \in Nat
      /\ Cardinality(P \ {w}) <= Cardinality(Q \ {w})
      /\ w \in P => Cardinality(P \ {w}) < Keep
  BY CountGrows
<1>6. PICK p \in Nat, q \in Nat : p = Cardinality(P \ {w}) /\ q = Cardinality(Q \ {w})
  BY <1>5
<1> SUFFICES \E j \in 1..Len(snaps'[n]) : /\ snaps'[n][j] = writer[w].prev
                                          /\ Len(snaps'[n]) - j <= q
  BY <1>1, <1>3, <1>4, <1>6 DEF SnapshotAmong
<1>7. snaps[n] \in Seq(Contents \cup {NoFile})
  BY DEF UndoInv
<1>8. Len(snaps[n]) \in Nat
  BY <1>7
<1>9. CASE Snapshot(w)
  <2>1. writer[w].prev \in Contents \cup {NoFile}
    BY DEF FolderInv, Typed, Held
  <2>2. snaps'[n] = Append(snaps[n], writer[w].prev)
    BY <1>4, <1>9 DEF Snapshot, UndoInv
  <2>3. Len(snaps'[n]) = Len(snaps[n]) + 1 /\ snaps'[n][Len(snaps[n]) + 1] = writer[w].prev
    BY <1>7, <1>8, <2>1, <2>2
  <2> QED
    BY <1>8, <2>3
<1>10. CASE Prune(w)
  <2>1. writer[w].kind \in Rewrites /\ writer[w].pc = "prune"
    BY <1>1, <1>10 DEF Prune, Step
  <2>2. PICK i \in 1..Len(snaps[n]) : /\ snaps[n][i] = writer[w].prev
                                      /\ Len(snaps[n]) - i <= p
    BY <1>4, <1>6, <2>1 DEF SnapshotAmong
  <2>3. Len(snaps[n]) - i < Keep
    BY <1>5, <1>6, <1>8, <2>1, <2>2, KeepPositive
  <2>4. PICK j \in 1..Len(snaps'[n]) : /\ snaps'[n][j] = snaps[n][i]
                                       /\ Len(snaps'[n]) - j = Len(snaps[n]) - i
    BY <1>4, <1>10, <2>3, PruneLeavesRecent
  <2> QED
    BY <1>5, <1>6, <1>8, <2>2, <2>4
<1> QED
  BY <1>2, <1>9, <1>10

(* What a writer knows of its file does not change while others leave the   *)
(* file alone or mark the writer as overtaken.                              *)
LEMMA UntouchedKnows ==
  ASSUME FolderInv, UndoInv, NEW w \in Writers, writer'[w] = writer[w],
         \A n \in Names : archive[n] \in SUBSET archive'[n],
         w \notin raced' =>
           /\ w \notin raced
           /\ writer[w].name \in Names /\ Committed(w) => text'[writer[w].name] = text[writer[w].name]
  PROVE  SeenIsThere(w)' /\ ReplacedIsArchived(w)' /\ InPlace(w)'
<1>1. SeenIsThere(w) /\ ReplacedIsArchived(w) /\ InPlace(w)
  BY DEF UndoInv
<1>2. writer[w].pc # "new" => writer[w].name \in Names
  BY DEF FolderInv, Typed
<1>3. SeenIsThere(w)'
  BY <1>1, <1>2 DEF SeenIsThere, Committed, Checked
<1>4. ReplacedIsArchived(w)'
  BY <1>1, <1>2 DEF ReplacedIsArchived
<1> QED
  BY <1>1, <1>3, <1>4 DEF InPlace

LEMMA OvertakenAllMarked ==
  ASSUME NEW n, NEW by, Overtake(n, by), NEW w \in Writers \ by, w \notin raced'
  PROVE  w \notin raced /\ (Committed(w) => writer[w].name # n)
BY DEF Overtake

(* People, and the other writers. *)
LEMMA PeopleKnow ==
  ASSUME FolderInv, UndoInv, NEW n \in Names, Save(n) \/ Delete(n), NEW w \in Writers
  PROVE  SeenIsThere(w)' /\ ReplacedIsArchived(w)' /\ InPlace(w)'
<1>1. writer' = writer /\ archive' = archive /\ Overtake(n, {})
  BY DEF Save, Delete
<1>2. \A m \in Names \ {n} : text'[m] = text[m]
  BY DEF Save, Delete, Put, FolderInv, Typed
<1>3. w \notin raced' => w \notin raced /\ (Committed(w) => writer[w].name # n)
  BY <1>1, OvertakenAllMarked
<1> QED
  BY <1>1, <1>2, <1>3, UntouchedKnows

LEMMA ArchiveGrows ==
  ASSUME UndoInv, NEW v \in Writers, Work(v)
  PROVE  /\ DOMAIN archive' = Names
         /\ \A n \in Names : archive[n] \in SUBSET archive'[n]
<1>1. CASE ReadItem(v)
  BY <1>1 DEF ReadItem, ArchiveSuperseded, UndoInv
<1>2. CASE ~ReadItem(v)
  <2>1. archive' = archive
    BY <1>2 DEF Work, Read, Check, CheckNew, Snapshot, Prune, Rename, WritePart, WriteRest, Stop
  <2> QED
    BY <2>1 DEF UndoInv
<1> QED
  BY <1>1, <1>2

LEMMA OthersKnow ==
  ASSUME FolderInv, UndoInv, NEW w \in Writers, NEW v \in Writers \ {w}, Work(v)
  PROVE  SeenIsThere(w)' /\ ReplacedIsArchived(w)' /\ InPlace(w)'
<1>1. writer'[w] = writer[w]
  BY WriterMoves
<1>2. \A n \in Names : archive[n] \in SUBSET archive'[n]
  BY ArchiveGrows
<1>3. CASE Rename(v) \/ WritePart(v) \/ WriteRest(v)
  <2>1. Overtake(writer[v].name, {v})
    BY <1>3 DEF Rename, WritePart, WriteRest
  <2>2. \A m \in Names : m # writer[v].name => text'[m] = text[m]
    BY <1>3 DEF Rename, WritePart, WriteRest, Put, FolderInv, Typed
  <2>3. w \notin raced' => w \notin raced /\ (Committed(w) => writer[w].name # writer[v].name)
    BY <2>1, OvertakenAllMarked
  <2> QED
    BY <1>1, <1>2, <2>2, <2>3, UntouchedKnows
<1>4. CASE ~(Rename(v) \/ WritePart(v) \/ WriteRest(v))
  <2>1. text' = text /\ raced' = raced
    BY <1>4 DEF Work, Read, ReadItem, Check, CheckNew, Snapshot, Prune, Stop
  <2> QED
    BY <1>1, <1>2, <2>1, UntouchedKnows
<1> QED
  BY <1>3, <1>4

(* A writer looks before it writes. *)
LEMMA OwnStepKnows ==
  ASSUME FolderInv, UndoInv, NEW w \in Writers, Work(w)
  PROVE  SeenIsThere(w)' /\ ReplacedIsArchived(w)' /\ InPlace(w)'
<1>1. SeenIsThere(w) /\ ReplacedIsArchived(w) /\ InPlace(w)
  BY DEF UndoInv
<1>2. writer \in [Writers -> Held] /\ writer[w] \in Held
  BY DEF FolderInv, Typed
<1>3. CASE Read(w)
  <2>1. writer'[w].pc \in {"check", "done"} /\ writer'[w].kind \in Rewrites
    BY <1>2, <1>3 DEF Read
  <2> QED
    BY <2>1 DEF SeenIsThere, ReplacedIsArchived, InPlace, Rewrites
<1>4. CASE ReadItem(w)
  <2>1. PICK kind \in Kinds \cap Creates, n \in Names :
          LET there == text[n] # NoFile IN
            /\ writer' = [writer EXCEPT ![w] =
                 [pc |-> IF there /\ kind # "replace" THEN "done"
                         ELSE IF kind = "script" THEN "write" ELSE "check",
                  kind |-> kind, name |-> n,
                  prev |-> IF kind = "replace" THEN text[n] ELSE NoFile,
                  next |-> [front |-> {}, body |-> Imported]]]
            /\ IF there /\ kind = "replace" THEN ArchiveSuperseded(n) ELSE UNCHANGED archive
    BY <1>4 DEF ReadItem
  <2>2. /\ writer'[w].pc \in {"done", "write", "check"}
        /\ writer'[w].kind = kind /\ writer'[w].name = n
        /\ writer'[w].prev = IF kind = "replace" THEN text[n] ELSE NoFile
        /\ kind = "script" => writer'[w].pc # "check"
    BY <1>2, <2>1
  <2>3. text' = text /\ raced' = raced /\ kind \in Creates
    BY <1>4 DEF ReadItem
  <2>4. SeenIsThere(w)'
    BY <2>2, <2>3 DEF SeenIsThere, Rewrites, Creates
  <2>5. kind = "replace" => text[n] = NoFile \/ text[n] \in archive'[n]
    BY <2>1 DEF ArchiveSuperseded, UndoInv
  <2>6. ReplacedIsArchived(w)'
    BY <2>2, <2>5 DEF ReplacedIsArchived
  <2>7. InPlace(w)'
    BY <2>2, <2>3 DEF InPlace, Creates
  <2> QED
    BY <2>4, <2>6, <2>7
<1>5. CASE Check(w)
  <2>1. /\ writer[w].kind \in Rewrites /\ writer'[w].kind = writer[w].kind
        /\ writer'[w].name = writer[w].name /\ text' = text
        /\ writer'[w].prev = text[writer[w].name]
        /\ writer'[w].pc \in {"done", "snapshot"}
    <3> DEFINE to == IF (\/ w \in ReadOnly \/ text[writer[w].name] = NoFile
                         \/ text[writer[w].name] = writer[w].next
                         \/ text[writer[w].name].body # writer[w].next.body)
                     THEN "done" ELSE "snapshot"
    <3>1. /\ writer' = [writer EXCEPT ![w].pc = to, ![w].prev = text[writer[w].name]]
          /\ writer[w].kind \in Rewrites /\ text' = text
      BY <1>5 DEF Check
    <3>2. to \in {"done", "snapshot"}
      OBVIOUS
    <3> HIDE DEF to
    <3> QED
      BY <1>2, <3>1, <3>2 DEF Held
  <2> QED
    BY <2>1 DEF SeenIsThere, ReplacedIsArchived, InPlace, Rewrites
<1>6. CASE ~Read(w) /\ ~ReadItem(w) /\ ~Check(w)
  <2>1. PICK to : /\ writer' = [writer EXCEPT ![w].pc = to]
                  /\ writer[w].pc # "new" /\ archive' = archive
                  /\ Snapshot(w) \/ Prune(w) => to \in {"prune", "rename"}
                  /\ CheckNew(w) => to \in {"done", "rename"}
                  /\ ~CheckNew(w) /\ ~Snapshot(w) /\ ~Prune(w) => to \in {"done", "fill"}
    BY <1>6 DEF Work, CheckNew, Snapshot, Prune, Rename, WritePart, WriteRest, Stop, Step
  <2>2. /\ writer[w].pc # "new" /\ writer'[w].kind = writer[w].kind
        /\ writer'[w].name = writer[w].name
        /\ writer'[w].prev = writer[w].prev /\ archive' = archive
    BY <1>2, <2>1 DEF Held
  <2>3. writer'[w].pc = to
    BY <1>2, <2>1 DEF Held
  <2>4. CASE writer'[w].pc \notin {"snapshot", "prune", "check", "rename"}
    BY <1>1, <2>2, <2>4 DEF SeenIsThere, ReplacedIsArchived, InPlace
  <2>5. CASE CheckNew(w) /\ writer'[w].pc = "rename"
    <3>1. /\ writer[w].pc = "check" /\ writer[w].kind \in Creates
          /\ text' = text /\ raced' = raced
          /\ text[writer[w].name] = NoFile \/ writer[w].prev # NoFile
      <4> DEFINE refuse == w \in ReadOnly \/ (text[writer[w].name] # NoFile /\ writer[w].prev = NoFile)
                 next == IF refuse THEN "done" ELSE "rename"
      <4>1. /\ writer' = [writer EXCEPT ![w].pc = next] /\ writer[w].pc = "check"
            /\ writer[w].kind \in Creates /\ text' = text /\ raced' = raced
        BY <2>5 DEF CheckNew
      <4>2. writer'[w].pc = next
        BY <1>2, <4>1 DEF Held
      <4>3. ~refuse
        BY <2>5, <4>2
      <4> QED
        BY <4>1, <4>3
    <3>2. SeenIsThere(w)'
      BY <1>1, <2>2, <2>5, <3>1 DEF SeenIsThere, InPlace, Rewrites, Creates
    <3>3. ReplacedIsArchived(w)' /\ InPlace(w)'
      BY <1>1, <2>2, <2>5, <3>1 DEF ReplacedIsArchived, InPlace, Rewrites, Creates
    <3> QED
      BY <3>2, <3>3
  <2>6. CASE Snapshot(w) \/ Prune(w)
    <3>1. /\ writer[w].pc \in {"snapshot", "prune"} /\ writer'[w].pc \in {"prune", "rename"}
          /\ text' = text /\ raced' = raced
      BY <2>1, <2>6, <2>3 DEF Snapshot, Prune, Step
    <3>2. writer[w].kind \in Rewrites
      BY <1>1, <3>1 DEF InPlace
    <3>3. SeenIsThere(w)'
      BY <1>1, <2>2, <3>1, <3>2 DEF SeenIsThere, Rewrites
    <3>4. ReplacedIsArchived(w)'
      BY <2>2, <3>2 DEF ReplacedIsArchived, Rewrites
    <3>5. InPlace(w)'
      BY <2>2, <3>2 DEF InPlace, Rewrites
    <3> QED
      BY <3>3, <3>4, <3>5
  <2>7. writer'[w].pc \notin {"snapshot", "prune", "check", "rename"} \/ CheckNew(w)
        \/ Snapshot(w) \/ Prune(w)
    BY <2>1, <2>3
  <2>8. CheckNew(w) => writer'[w].pc \in {"done", "rename"}
    BY <2>1, <2>3
  <2> QED
    BY <2>4, <2>5, <2>6, <2>7, <2>8
<1> QED
  BY <1>3, <1>4, <1>5, <1>6

-----------------------------------------------------------------------------
LEMMA UndoInvInit == FolderInit => UndoInv
<1> SUFFICES ASSUME FolderInit PROVE UndoInv
  OBVIOUS
<1>1. snaps \in [Names -> Seq(Contents \cup {NoFile})]
  <2>1. PICK taken \in {0, Keep} :
          snaps = [n \in Names |-> [i \in 1..taken |-> [front |-> {}, body |-> Older]]]
    BY DEF FolderInit
  <2>2. taken \in Nat
    BY <2>1, KeepPositive
  <2>3. [front |-> {}, body |-> Older] \in Contents
    <3>1. Older \in Bodies
      BY FolderAssumption DEF Bodies, Older, Torn
    <3> QED
      BY <3>1, ContentTypes
  <2> DEFINE c == [front |-> {}, body |-> Older]
             one == [i \in 1..taken |-> c]
  <2> HIDE DEF c
  <2>4. one \in Seq(Contents \cup {NoFile})
    BY <2>2, <2>3 DEF c
  <2> QED
    BY <2>1, <2>4 DEF c
<1>2. DOMAIN archive = Names
  BY DEF FolderInit
<1>3. \A w \in Writers : writer[w].pc = "new" /\ writer[w].kind = "none"
  BY DEF FolderInit, Idle
<1>4. ASSUME NEW w \in Writers PROVE SeenIsThere(w) /\ ReplacedIsArchived(w) /\ InPlace(w)
  BY <1>3 DEF SeenIsThere, ReplacedIsArchived, InPlace
<1> QED
  BY <1>1, <1>2, <1>4 DEF UndoInv

LEMMA SnapshotsTyped ==
  ASSUME FolderInv, UndoInv, NoSiblings, NEW v \in Writers, Work(v)
  PROVE  snaps' \in [Names -> Seq(Contents \cup {NoFile})]
<1>1. CASE Snapshot(v)
  <2>1. writer[v].prev \in Contents \cup {NoFile} /\ writer[v].name \in Names
    BY <1>1 DEF Snapshot, Step, FolderInv, Typed, Held
  <2>2. Append(snaps[writer[v].name], writer[v].prev) \in Seq(Contents \cup {NoFile})
    BY <2>1 DEF UndoInv
  <2> QED
    BY <1>1, <2>1, <2>2 DEF Snapshot, UndoInv
<1>2. CASE Prune(v)
  BY <1>2, PruneTakesOwn
<1>3. CASE ~Snapshot(v) /\ ~Prune(v)
  <2>1. snaps' = snaps
    BY <1>3 DEF Work, Read, ReadItem, Check, CheckNew, Rename, WritePart, WriteRest, Stop
  <2> QED
    BY <2>1 DEF UndoInv
<1> QED
  BY <1>1, <1>2, <1>3

LEMMA UndoInvStep ==
  ASSUME FolderInv, UndoInv, NoSiblings, [FolderNext]_vars
  PROVE  UndoInv'
<1>1. CASE UNCHANGED vars
  BY <1>1 DEF vars, UndoInv, SeenIsThere, ReplacedIsArchived, InPlace
<1>2. ASSUME NEW n \in Names, Save(n) \/ Delete(n) PROVE UndoInv'
  <2>1. snaps' = snaps /\ archive' = archive
    BY <1>2 DEF Save, Delete
  <2>2. \A w \in Writers : SeenIsThere(w)' /\ ReplacedIsArchived(w)' /\ InPlace(w)'
    BY <1>2, PeopleKnow
  <2> QED
    BY <2>1, <2>2 DEF UndoInv
<1>3. ASSUME NEW v \in Writers, Work(v) PROVE UndoInv'
  <2>1. \A w \in Writers : SeenIsThere(w)' /\ ReplacedIsArchived(w)' /\ InPlace(w)'
    BY <1>3, OwnStepKnows, OthersKnow
  <2> QED
    BY <1>3, <2>1, SnapshotsTyped, ArchiveGrows DEF UndoInv
<1> QED
  BY <1>1, <1>2, <1>3 DEF FolderNext

(* What the invariants say of a rename: what it replaces is nowhere lost.   *)
Undoable(w) ==
  LET n == writer[w].name IN
    \/ text[n] = NoFile
    \/ text[n] \in archive[n]
    \/ \E i \in DOMAIN snaps[n] : snaps[n][i] = text[n]

LEMMA RenameIsUndoable ==
  ASSUME FolderInv, UndoInv, [FolderNext]_vars, NEW w \in Writers, Replaces(w), w \notin raced,
         writer[w].kind \in Rewrites /\ writer[w].pc = "rename" => \E P : SnapshotAmong(w, P)
  PROVE  Undoable(w)
<1>1. writer[w].pc = "rename" /\ SeenIsThere(w) /\ ReplacedIsArchived(w) /\ InPlace(w)
  BY DEF Replaces, UndoInv
<1>2. writer[w].kind \in Rewrites \cup {"import", "replace"}
  BY <1>1 DEF InPlace
<1>3. PICK n \in Names : n = writer[w].name
  BY <1>1 DEF FolderInv, Typed
<1>4. CASE writer[w].kind \in Rewrites
  <2>1. text[n] = writer[w].prev
    BY <1>1, <1>3, <1>4 DEF SeenIsThere
  <2>2. PICK i \in 1..Len(snaps[n]) : snaps[n][i] = writer[w].prev
    BY <1>1, <1>3, <1>4 DEF SnapshotAmong
  <2>3. DOMAIN snaps[n] = 1..Len(snaps[n])
    BY DEF UndoInv
  <2> QED
    BY <1>3, <2>1, <2>2, <2>3 DEF Undoable
<1>5. CASE writer[w].kind = "import"
  BY <1>1, <1>5 DEF SeenIsThere, Undoable
<1>6. CASE writer[w].kind = "replace"
  BY <1>1, <1>6 DEF SeenIsThere, ReplacedIsArchived, Undoable
<1> QED
  BY <1>2, <1>4, <1>5, <1>6

-----------------------------------------------------------------------------
(* Writers that are killed anywhere leave their snapshots behind: then the  *)
(* writers that come to a file must be no more than the snapshots kept.     *)

Visitors(n) == {w \in Writers \ ReadOnly : writer[w].name = n}
FewVisitors == \A n \in Names : Cardinality(Visitors(n)) <= Keep

(* Those of them that may have added a snapshot. *)
Passed(n) == {w \in Visitors(n) : writer[w].pc \in {"prune", "rename", "done"}}

SnapshotIsRecent(w) ==
  writer[w].kind \in Rewrites /\ writer[w].pc \in {"prune", "rename"} =>
    SnapshotAmong(w, Passed(writer[w].name))

LEMMA PassedFew ==
  ASSUME IsFiniteSet(Writers), FewVisitors, NEW n \in Names
  PROVE  Passed(n) \in SUBSET Writers /\ Cardinality(Passed(n)) <= Keep
<1>1. Passed(n) \in SUBSET Visitors(n) /\ Visitors(n) \in SUBSET Writers
  BY DEF Passed, Visitors
<1>2. IsFiniteSet(Visitors(n)) /\ IsFiniteSet(Passed(n))
  BY <1>1, FS_Subset
<1>3. Cardinality(Passed(n)) <= Cardinality(Visitors(n))
  BY <1>1, <1>2, FS_Subset
<1>4. Cardinality(Visitors(n)) <= Keep
  BY DEF FewVisitors
<1>5. Cardinality(Passed(n)) \in Nat /\ Cardinality(Visitors(n)) \in Nat
  BY <1>2, FS_CardinalityType
<1> QED
  BY <1>1, <1>3, <1>4, <1>5, KeepPositive

LEMMA SnapshotStaysRecent ==
  ASSUME FolderInv, UndoInv, NoSiblings, IsFiniteSet(Writers), FewVisitors,
         \A w \in Writers : SnapshotIsRecent(w), [FolderNext]_vars, NEW w \in Writers
  PROVE  SnapshotIsRecent(w)'
<1> SUFFICES ASSUME writer'[w].kind \in Rewrites, writer'[w].pc \in {"prune", "rename"}
             PROVE  SnapshotAmong(w, Passed(writer[w].name))'
  BY DEF SnapshotIsRecent
<1>1. CASE writer' = writer /\ snaps' = snaps
  BY <1>1 DEF SnapshotIsRecent, SnapshotAmong, Passed, Visitors
<1>2. ASSUME NEW v \in Writers, Work(v) PROVE SnapshotAmong(w, Passed(writer[w].name))'
  <2>1. /\ writer[w].pc # "new" /\ writer[w].name \in Names
        /\ writer'[w].kind = writer[w].kind /\ writer'[w].name = writer[w].name
    BY <1>2, WriterMoves DEF FolderInv, Typed
  <2>2. PICK n \in Names : n = writer[w].name
    BY <2>1
  <2>3. Passed(n)' \in SUBSET Writers /\ Passed(n) \in SUBSET Passed(n)'
    BY <1>2, WriterMoves DEF Passed, Visitors
  <2>4. PICK Q, P : Q \in SUBSET Writers /\ P \in SUBSET Q /\ Q = Passed(n)' /\ P = Passed(n)
    BY <2>3
  <2>5. Passed(writer[w].name)' = Q /\ Passed(writer[w].name) = P
    BY <2>1, <2>2, <2>4 DEF Passed, Visitors
  <2>6. Cardinality(P) <= Keep
    BY <2>4, PassedFew
  <2>7. writer[w].kind \in Rewrites /\ writer[w].pc \in {"prune", "rename"} =>
          w \in P /\ SnapshotAmong(w, P)
    <3>1. writer[w].kind \in Rewrites /\ writer[w].pc \in {"prune", "rename"} => w \notin ReadOnly
      BY DEF FolderInv, StoppedAtTheDoor, Rewrites
    <3> QED
      BY <2>2, <2>4, <2>5, <3>1 DEF SnapshotIsRecent, Passed, Visitors
  <2>8. SnapshotAmong(w, Q)'
    <3>1. CASE v = w
      BY <1>2, <2>4, <2>6, <2>7, <3>1, OwnStepKeepsSnapshot
    <3>2. CASE v # w
      <4>1. writer'[w] = writer[w]
        BY <1>2, <3>2, WriterMoves
      <4>2. Snapshot(v) /\ writer[v].name = n => v \in Q /\ v \notin P
        <5>1. Snapshot(v) => /\ writer[v].pc = "snapshot" /\ writer'[v].pc = "prune"
                             /\ writer'[v].name = writer[v].name
          BY DEF Snapshot, Step, FolderInv, Typed, Held
        <5>2. Snapshot(v) => v \notin ReadOnly
          BY <5>1 DEF FolderInv, StoppedAtTheDoor, UndoInv, InPlace, Rewrites
        <5> QED
          BY <2>4, <5>1, <5>2 DEF Passed, Visitors
      <4> QED
        BY <1>2, <2>1, <2>2, <2>4, <2>6, <2>7, <3>2, <4>1, <4>2, OthersKeepSnapshot
    <3> QED
      BY <3>1, <3>2
  <2> QED
    BY <2>5, <2>8
<1> QED
  BY <1>1, <1>2 DEF FolderNext, Save, Delete, vars

(* Writers and people interleaved in any way, writers killed anywhere: what *)
(* an overwrite replaces is in the snapshots or in the archive, unless the  *)
(* writer was overtaken, as long as no file has a sibling and no file is    *)
(* visited by more writers than it keeps snapshots (safe-write.js lines     *)
(* 53-62, 97-103).                                                          *)
THEOREM FewVisitorsUndoable ==
  ASSUME IsFiniteSet(Writers), NoSiblings
  PROVE  FolderSpec /\ []FewVisitors => EveryOverwriteIsUndoable
<1> DEFINE Recent == \A w \in Writers : SnapshotIsRecent(w)
<1>1. FolderInit => UndoInv /\ Recent
  <2>1. FolderInit => Recent
    BY DEF FolderInit, Idle, SnapshotIsRecent
  <2> QED
    BY <2>1, UndoInvInit
<1>2. FolderInv /\ FewVisitors /\ UndoInv /\ Recent /\ [FolderNext]_vars => UndoInv' /\ Recent'
  BY UndoInvStep, SnapshotStaysRecent
<1>3. FolderInv /\ UndoInv /\ Recent /\ [FolderNext]_vars =>
        [\A w \in Writers : Replaces(w) /\ w \notin raced =>
           LET n == writer[w].name IN
             \/ text[n] = NoFile
             \/ text[n] \in archive[n]
             \/ \E i \in DOMAIN snaps[n] : snaps[n][i] = text[n]]_vars
  <2> SUFFICES ASSUME FolderInv, UndoInv, Recent, [FolderNext]_vars,
                      NEW w \in Writers, Replaces(w), w \notin raced
               PROVE  Undoable(w)
    BY DEF Undoable
  <2>1. writer[w].kind \in Rewrites /\ writer[w].pc = "rename" => \E P : SnapshotAmong(w, P)
    BY DEF SnapshotIsRecent
  <2> QED
    BY <2>1, RenameIsUndoable
<1> HIDE DEF Recent
<1> QED
  BY FolderInvariant, <1>1, <1>2, <1>3, PTL DEF FolderSpec, EveryOverwriteIsUndoable

(* In particular with no more writers than snapshots kept.                  *)
THEOREM AsManyWritersAsSnapshots ==
  ASSUME IsFiniteSet(Writers), NoSiblings, Cardinality(Writers \ ReadOnly) <= Keep
  PROVE  FolderSpec => EveryOverwriteIsUndoable
<1>1. FewVisitors
  <2> SUFFICES ASSUME NEW n \in Names PROVE Cardinality(Visitors(n)) <= Keep
    BY DEF FewVisitors
  <2>1. Visitors(n) \in SUBSET (Writers \ ReadOnly) /\ (Writers \ ReadOnly) \in SUBSET Writers
    BY DEF Visitors
  <2>2. IsFiniteSet(Writers \ ReadOnly) /\ IsFiniteSet(Visitors(n))
    BY <2>1, FS_Subset
  <2>3. Cardinality(Visitors(n)) <= Cardinality(Writers \ ReadOnly)
    BY <2>1, <2>2, FS_Subset
  <2>4. Cardinality(Visitors(n)) \in Nat /\ Cardinality(Writers \ ReadOnly) \in Nat
    BY <2>2, FS_CardinalityType
  <2> QED
    BY <2>3, <2>4, KeepPositive
<1>2. FolderSpec /\ []FewVisitors => EveryOverwriteIsUndoable
  BY FewVisitorsUndoable
<1> QED
  BY <1>1, <1>2, PTL

-----------------------------------------------------------------------------
(* Where none is killed between its snapshot and its rename any number of   *)
(* writers may come and go: whoever renames overtakes the others, so only   *)
(* those at work at the same time count.                                    *)

(* The rewriters of a file between their snapshot and their rename. *)
Busy(n) == {w \in Writers : /\ writer[w].name = n
                            /\ writer[w].kind \in Rewrites
                            /\ writer[w].pc \in {"prune", "rename"}}
FewAtOnce == \A n \in Names : Cardinality(Busy(n)) <= Keep

WorkIsFinished ==
  \A w \in Writers : writer[w].pc \in {"prune", "rename"} /\ writer'[w].pc = "done" => Rename(w)

SnapshotIsNewest(w) ==
  /\ writer[w].kind \in Rewrites
  /\ writer[w].pc \in {"prune", "rename"}
  /\ w \notin raced
  => SnapshotAmong(w, Busy(writer[w].name))

(* As long as w is not overtaken, nobody else leaves its file.              *)
LEMMA BusyStay ==
  ASSUME FolderInv, NEW v \in Writers, Work(v), WorkIsFinished,
         NEW w \in Writers, w \notin raced',
         writer'[w].kind \in Rewrites, writer'[w].pc \in {"prune", "rename"},
         NEW n \in Names, n = writer'[w].name
  PROVE  /\ w \notin raced
         /\ Busy(n) \in SUBSET Busy(n)' /\ Busy(n)' \in SUBSET Writers
<1>1. w \notin raced
  BY DEF Work, Read, ReadItem, Check, CheckNew, Snapshot, Prune, Rename, WritePart, WriteRest, Stop,
         Overtake
<1>2. ASSUME NEW u \in Busy(n) PROVE u \in Busy(n)'
  <2>1. u \in Writers /\ writer[u].name = n /\ writer[u].kind \in Rewrites
        /\ writer[u].pc \in {"prune", "rename"}
    BY <1>2 DEF Busy
  <2>2. CASE u # v
    BY <2>1, <2>2, WriterMoves DEF Busy
  <2>3. CASE u = v
    <3>1. /\ writer'[v].kind = writer[v].kind /\ writer'[v].name = writer[v].name
          /\ writer'[v].pc \in {"rename", "done"}
      BY <2>1, <2>3, WriterMoves
    <3>2. writer'[v].pc # "done"
      <4> SUFFICES ASSUME writer'[v].pc = "done" PROVE FALSE
        OBVIOUS
      <4>1. Rename(v)
        BY <2>1, <2>3 DEF WorkIsFinished
      <4>2. w # v /\ writer'[w] = writer[w]
        BY WriterMoves
      <4>3. Overtake(n, {v}) /\ Committed(w)
        BY <2>1, <2>3, <4>1, <4>2 DEF Rename, Committed, Checked
      <4> QED
        BY <4>2, <4>3 DEF Overtake
    <3> QED
      BY <2>1, <2>3, <3>1, <3>2 DEF Busy
  <2> QED
    BY <2>2, <2>3
<1> QED
  BY <1>1, <1>2 DEF Busy

LEMMA SnapshotStaysNewest ==
  ASSUME FolderInv, UndoInv, NoSiblings, IsFiniteSet(Writers), FewAtOnce,
         \A w \in Writers : SnapshotIsNewest(w), [FolderNext]_vars, [WorkIsFinished]_vars,
         NEW w \in Writers
  PROVE  SnapshotIsNewest(w)'
<1> SUFFICES ASSUME writer'[w].kind \in Rewrites, writer'[w].pc \in {"prune", "rename"},
                    w \notin raced'
             PROVE  SnapshotAmong(w, Busy(writer[w].name))'
  BY DEF SnapshotIsNewest
<1>1. CASE writer' = writer /\ snaps' = snaps /\ raced \in SUBSET raced'
  BY <1>1 DEF SnapshotIsNewest, SnapshotAmong, Busy
<1>2. ASSUME NEW v \in Writers, Work(v), ~UNCHANGED vars
      PROVE  SnapshotAmong(w, Busy(writer[w].name))'
  <2>1. /\ writer[w].pc # "new" /\ writer[w].name \in Names
        /\ writer'[w].kind = writer[w].kind /\ writer'[w].name = writer[w].name
    BY <1>2, WriterMoves DEF FolderInv, Typed
  <2>2. PICK n \in Names : n = writer[w].name
    BY <2>1
  <2>3. WorkIsFinished
    BY <1>2
  <2>4. w \notin raced /\ Busy(n) \in SUBSET Busy(n)' /\ Busy(n)' \in SUBSET Writers
    BY <1>2, <2>1, <2>2, <2>3, BusyStay
  <2>5. PICK Q, P : Q \in SUBSET Writers /\ P \in SUBSET Q /\ Q = Busy(n)' /\ P = Busy(n)
    BY <2>4
  <2>6. Busy(writer[w].name)' = Q /\ Busy(writer[w].name) = P
    BY <2>1, <2>2, <2>5 DEF Busy
  <2>7. Cardinality(P) <= Keep
    BY <2>5 DEF FewAtOnce
  <2>8. writer[w].kind \in Rewrites /\ writer[w].pc \in {"prune", "rename"} =>
          w \in P /\ SnapshotAmong(w, P)
    BY <2>2, <2>4, <2>5, <2>6 DEF SnapshotIsNewest, Busy
  <2>9. SnapshotAmong(w, Q)'
    <3>1. CASE v = w
      BY <1>2, <2>5, <2>7, <2>8, <3>1, OwnStepKeepsSnapshot
    <3>2. CASE v # w
      <4>1. writer'[w] = writer[w]
        BY <1>2, <3>2, WriterMoves
      <4>2. Snapshot(v) /\ writer[v].name = n => v \in Q /\ v \notin P
        <5>1. Snapshot(v) => /\ writer[v].pc = "snapshot" /\ writer'[v].pc = "prune"
                             /\ writer'[v].name = writer[v].name
                             /\ writer'[v].kind = writer[v].kind
          BY DEF Snapshot, Step, FolderInv, Typed, Held
        <5>2. Snapshot(v) => writer[v].kind \in Rewrites
          BY <5>1 DEF UndoInv, InPlace
        <5> QED
          BY <2>5, <5>1, <5>2 DEF Busy
      <4> QED
        BY <1>2, <2>1, <2>2, <2>5, <2>7, <2>8, <3>2, <4>1, <4>2, OthersKeepSnapshot
    <3> QED
      BY <3>1, <3>2
  <2> QED
    BY <2>6, <2>9
<1>3. CASE \E n \in Names : Save(n) \/ Delete(n)
  BY <1>1, <1>3 DEF Save, Delete, Overtake
<1>4. CASE UNCHANGED vars
  BY <1>1, <1>4 DEF vars
<1> QED
  BY <1>2, <1>3, <1>4 DEF FolderNext

(* Any number of writers one after the other, and as many at once on a file *)
(* as it keeps snapshots: unless a writer is killed between its snapshot    *)
(* and its rename, or a file has a sibling, what an overwrite replaces is   *)
(* in the snapshots or in the archive (safe-write.js lines 53-62, 97-103).  *)
THEOREM FewAtOnceUndoable ==
  ASSUME IsFiniteSet(Writers), NoSiblings
  PROVE  FolderSpec /\ []FewAtOnce /\ [][WorkIsFinished]_vars => EveryOverwriteIsUndoable
<1> DEFINE Newest == \A w \in Writers : SnapshotIsNewest(w)
<1>1. FolderInit => UndoInv /\ Newest
  <2>1. FolderInit => Newest
    BY DEF FolderInit, Idle, SnapshotIsNewest
  <2> QED
    BY <2>1, UndoInvInit
<1>2. FolderInv /\ FewAtOnce /\ UndoInv /\ Newest /\ [FolderNext]_vars /\ [WorkIsFinished]_vars =>
        UndoInv' /\ Newest'
  BY UndoInvStep, SnapshotStaysNewest
<1>3. FolderInv /\ UndoInv /\ Newest /\ [FolderNext]_vars =>
        [\A w \in Writers : Replaces(w) /\ w \notin raced =>
           LET n == writer[w].name IN
             \/ text[n] = NoFile
             \/ text[n] \in archive[n]
             \/ \E i \in DOMAIN snaps[n] : snaps[n][i] = text[n]]_vars
  <2> SUFFICES ASSUME FolderInv, UndoInv, Newest, [FolderNext]_vars,
                      NEW w \in Writers, Replaces(w), w \notin raced
               PROVE  Undoable(w)
    BY DEF Undoable
  <2>1. writer[w].kind \in Rewrites /\ writer[w].pc = "rename" => \E P : SnapshotAmong(w, P)
    BY DEF SnapshotIsNewest
  <2> QED
    BY <2>1, RenameIsUndoable
<1> HIDE DEF Newest
<1> QED
  BY FolderInvariant, <1>1, <1>2, <1>3, PTL DEF FolderSpec, EveryOverwriteIsUndoable
=============================================================================
