------------------------------- MODULE IndexBuild -------------------------------
(***************************************************************************)
(* What a build puts into an index: lib/index-store.js, the vector cache   *)
(* (lib/vector-cache.js), the embedder (lib/embed.js) and the documents    *)
(* that lib/corpus.js and lib/section-docs.js make of the files.           *)
(*                                                                         *)
(* Builds are incremental.  A document whose hash and modification time    *)
(* have not changed keeps the chunks and vectors of the index before; any  *)
(* other text is looked up in a cache of vectors, shared by all builds of  *)
(* the machine, before it is embedded.  Builds run in several processes,   *)
(* which may run different releases of the code, and any can be killed.    *)
(*                                                                         *)
(* A file is its frontmatter and two sections, each a version number, and  *)
(* its modification time.  A vector is the text it encodes and the recipe  *)
(* that encoded it.                                                        *)
(***************************************************************************)
EXTENDS Integers, FiniteSets

CONSTANTS
  Files,       \* the corpus
  Builders,    \* the build runs, each in a process of its own
  Seeders,     \* runs of seed-vector-cache.js
  Releases,    \* releases of the code: what their contract says
  Policies,    \* how a file is read: whole, "split" at its headings, "scrubbed"
  Versions,    \* the versions of a piece of a file
  FlushEvery,  \* MEMORY_CACHE_FLUSH_EVERY
  MaxEdits,    \* bound: edits
  MaxFaults,   \* bound: failures, kills and changes of policy
  None

(* A contract is a recipe (model, pooling, width, prefix) and a chunking.   *)
ASSUME BuildAssumption ==
  /\ Releases \subseteq [recipe : Nat, chunking : Nat]
  /\ Policies \subseteq {"whole", "split", "scrubbed"}
  /\ Versions \subseteq Nat /\ 0 \in Versions
  /\ FlushEvery \in Nat \ {0}
  /\ MaxEdits \in Nat /\ MaxFaults \in Nat
  /\ Builders \cap Seeders = {}
  /\ None \notin Nat \cup [recipe : Nat, chunking : Nat]

VARIABLES
  files,    \* the corpus as it is now
  policy,   \* secrets-exclude.json and the MEMORY_ variables
  disk,     \* the index file: the contract of its header, and its documents
  store,    \* the vector cache file: its recipe, and its vectors
  build,    \* what each run holds
  edits,    \* edits so far
  faults,   \* failures, kills and changes of policy so far
  crossed,  \* history: runs whose copy of the cache file is out of date
  mixed     \* history: "policy" once it changed, "recipe" once a seeding mixed two

vars == <<files, policy, disk, store, build, edits, faults, crossed, mixed>>

-----------------------------------------------------------------------------
(* Documents. *)

Parts == {"a", "b"}
Names == Files \X {"doc", "a", "b"}    \* a file's own document, and its sections

Text(what, version, chunking) == [what |-> what, version |-> version, chunking |-> chunking]
Body(c, parts, chunking) == {Text(p, c[p], chunking) : p \in parts}
Document(hash, c, summary, chunks) ==
  [hash |-> hash, mtime |-> c.mtime, summary |-> summary, chunks |-> chunks]

RawHash(c) == <<"file", c.front, c.a, c.b>>
Summary(c) == Text("summary", c.front, 0)

(* A file in one document; or one whose section b the policy strips, which  *)
(* has the hash of the raw file all the same.                               *)
WholeDoc(c, parts, chunking) == Document(RawHash(c), c, Summary(c), Body(c, parts, chunking))

(* A section has the hash of its own text and its file's modification time. *)
SectionDoc(c, p, chunking) ==
  Document(<<"section", p, c[p]>>, c, Text("heading", 0, 0), Body(c, {p}, chunking))

(* What is left of a split file: its description. *)
StubDoc(c, chunking) ==
  Document(RawHash(c), c, Summary(c), {Text("stub", c.front, chunking)})

DocOf(n, c, chunking, how) ==
  IF n[2] # "doc" THEN SectionDoc(c, n[2], chunking)
  ELSE IF how = "split" THEN StubDoc(c, chunking)
  ELSE WholeDoc(c, IF how = "scrubbed" THEN {"a"} ELSE Parts, chunking)

(* loadCorpus: the documents of the files there are. *)
Load(fs, chunking, how) ==
  [n \in {m \in Names : fs[m[1]] # None /\ (m[2] # "doc" => how = "split")}
     |-> DocOf(n, fs[n[1]], chunking, how)]

-----------------------------------------------------------------------------
(* Vectors. *)

Embed(texts, recipe) == {[text |-> t, recipe |-> recipe] : t \in texts}
Wanted(d) == d.chunks \cup {d.summary}

(* A document as the index has it. *)
Indexed(d, chunks, vectors) ==
  [hash |-> d.hash, mtime |-> d.mtime, chunks |-> chunks, vectors |-> vectors]

(* What a build that reuses nothing makes of a document. *)
FromScratch(d, recipe) == Indexed(d, d.chunks, Embed(Wanted(d), recipe))

NoDocs == [n \in {} |-> None]
With(f, n, x) == [m \in DOMAIN f \cup {n} |-> IF m = n THEN x ELSE f[m]]

New == [front |-> 0, a |-> 0, b |-> 0, mtime |-> 0]
Runs == Builders \cup Seeders
Idle == [pc |-> "new", contract |-> None, docs |-> NoDocs, old |-> NoDocs,
         cached |-> {}, dirty |-> FALSE, todo |-> {}, out |-> NoDocs, unflushed |-> 0]

Over == [Idle EXCEPT !.pc = "done"]

BuildInit ==
  /\ files \in [Files -> {None, New}]
  /\ policy \in Policies
  /\ disk = [contract |-> None, docs |-> NoDocs]
  /\ store = [recipe |-> None, vectors |-> {}]
  /\ build = [b \in Runs |-> Idle]
  /\ edits = 0 /\ faults = 0
  /\ crossed = {} /\ mixed = {}

Fault == faults < MaxFaults /\ faults' = faults + 1

-----------------------------------------------------------------------------
(* People.  Not every tool that writes a file gives it a new time. *)

Edited(f, content) ==
  /\ edits < MaxEdits
  /\ edits' = edits + 1
  /\ files' = [files EXCEPT ![f] = content]
  /\ UNCHANGED <<policy, disk, store, build, faults, crossed, mixed>>

Edit(f) ==
  \/ /\ files[f] = None
     /\ Edited(f, [New EXCEPT !.mtime = edits + 1])
  \/ /\ files[f] # None
     /\ \E piece \in {"front", "a", "b"}, v \in Versions, mtime \in {files[f].mtime, edits + 1} :
          Edited(f, [files[f] EXCEPT ![piece] = v, !.mtime = mtime])

Delete(f) == files[f] # None /\ Edited(f, None)

NewPolicy ==
  /\ Fault
  /\ policy' \in Policies \ {policy}
  /\ mixed' = mixed \cup {"policy"}
  /\ UNCHANGED <<files, disk, store, build, edits, crossed>>

-----------------------------------------------------------------------------
(* A build. *)

(* Mutant: the header is not asked. *)
ReusableAnyway(contract, forced) == IF forced THEN NoDocs ELSE disk.docs

(* Which documents of the index before may be reused: all of them, if its   *)
(* header says what this release would write.                               *)
Reusable(contract, forced) ==
  IF forced \/ disk.contract # contract THEN NoDocs ELSE disk.docs

(* The corpus and the index before are read in one go; a build that finds   *)
(* nothing where there was something is refused.                            *)
Start(b) ==
  /\ build[b].pc = "new"
  /\ \E contract \in Releases, forced \in BOOLEAN :
       LET docs == Load(files, contract.chunking, policy) IN
         build' = [build EXCEPT ![b] =
           IF DOMAIN docs = {} /\ DOMAIN disk.docs # {} THEN Over
           ELSE [@ EXCEPT !.pc = "model", !.contract = contract, !.docs = docs,
                          !.old = Reusable(contract, forced), !.todo = DOMAIN docs]]
  /\ UNCHANGED <<files, policy, disk, store, edits, faults, crossed, mixed>>

(* Mutant: a build starts with an empty cache. *)
CachedNever(recipe) == {}

(* loadCache: a cache of another recipe is not used. *)
Cached(recipe) == IF store.recipe = recipe THEN store.vectors ELSE {}

(* The embedder is there, with the contract's width: the cache is read. *)
Open(b) ==
  /\ build[b].pc = "model"
  /\ build' = [build EXCEPT ![b] = [@ EXCEPT !.pc = "docs",
                                            !.cached = Cached(build[b].contract.recipe)]]
  /\ UNCHANGED <<files, policy, disk, store, edits, faults, crossed, mixed>>

(* The runs with a copy of the cache in memory. *)
Copies == {b \in Runs : build[b].pc \in {"docs", "lift", "write"}}

(* flushCache: the whole map replaces the file.  Other runs that have read  *)
(* the file do not learn of it.  A failure is reported and no more.         *)
Flush(b, recipe, vectors) ==
  /\ store' = [recipe |-> recipe, vectors |-> vectors]
  /\ crossed' = Copies \ {b}
  /\ UNCHANGED faults

FlushFails == Fault /\ UNCHANGED <<store, crossed>>

(* Mutant: the modification time is trusted. *)
UnchangedByTime(b, n) ==
  /\ n \in DOMAIN build[b].old
  /\ build[b].old[n].mtime = build[b].docs[n].mtime
  /\ build[b].old[n].chunks # {}

(* The index before has this document, unchanged. *)
Unchanged(b, n) ==
  /\ n \in DOMAIN build[b].old
  /\ build[b].old[n].hash = build[b].docs[n].hash
  /\ build[b].old[n].mtime = build[b].docs[n].mtime
  /\ build[b].old[n].chunks # {}

(* The document takes this release's fields, and keeps the chunks it had.   *)
Reuse(b, n) ==
  /\ Unchanged(b, n)
  /\ LET run == build[b]
         doc == Indexed(run.docs[n], run.old[n].chunks, run.old[n].vectors)
     IN build' = [build EXCEPT ![b] = [run EXCEPT !.todo = run.todo \ {n},
                                                 !.out = With(run.out, n, doc)]]
  /\ UNCHANGED <<store, crossed, faults>>

(* Its texts are looked up and the missing ones embedded; after FlushEvery  *)
(* such documents the cache is written, if it has anything new.             *)
EmbedDoc(b, n) ==
  LET run == build[b]
      texts == Wanted(run.docs[n])
      known == {v \in run.cached : v.text \in texts}
      fresh == Embed(texts \ {v.text : v \in known}, run.contract.recipe)
      doc == Indexed(run.docs[n], run.docs[n].chunks, known \cup fresh)
      dirty == run.dirty \/ fresh # {}
      due == run.unflushed + 1 >= FlushEvery
      Embedded(saved) ==
        [run EXCEPT !.todo = run.todo \ {n}, !.cached = run.cached \cup fresh,
                    !.dirty = dirty /\ ~saved,
                    !.unflushed = IF due THEN 0 ELSE run.unflushed + 1,
                    !.out = With(run.out, n, doc)]
  IN /\ ~Unchanged(b, n)
     /\ \/ /\ due /\ dirty
           /\ Flush(b, run.contract.recipe, run.cached \cup fresh)
           /\ build' = [build EXCEPT ![b] = Embedded(TRUE)]
        \/ /\ due /\ dirty
           /\ FlushFails
           /\ build' = [build EXCEPT ![b] = Embedded(FALSE)]
        \/ /\ ~(due /\ dirty)
           /\ build' = [build EXCEPT ![b] = Embedded(FALSE)]
           /\ UNCHANGED <<store, crossed, faults>>

NextDoc(b) ==
  /\ build[b].pc = "docs"
  /\ \E n \in build[b].todo : Reuse(b, n) \/ EmbedDoc(b, n)
  /\ UNCHANGED <<files, policy, disk, edits, mixed>>

(* The last flush, before the index is written. *)
Finish(b) ==
  /\ build[b].pc = "docs" /\ build[b].todo = {}
  /\ Flush(b, build[b].contract.recipe, build[b].cached) \/ FlushFails
  /\ build' = [build EXCEPT ![b] = [@ EXCEPT !.pc = "publish", !.old = NoDocs, !.cached = {},
                                            !.dirty = FALSE, !.unflushed = 0]]
  /\ UNCHANGED <<files, policy, disk, edits, mixed>>

(* The new index takes the name of the old one in one rename. *)
Publish(b) ==
  /\ build[b].pc = "publish"
  /\ disk' = [contract |-> build[b].contract, docs |-> build[b].out]
  /\ build' = [build EXCEPT ![b] = Over]
  /\ UNCHANGED <<files, policy, store, edits, faults, crossed, mixed>>

(* No model, no disk space, or a kill: nothing more is written. *)
Stop(b) ==
  /\ build[b].pc \in {"model", "docs", "publish"}
  /\ Fault
  /\ build' = [build EXCEPT ![b] = Over]
  /\ UNCHANGED <<files, policy, disk, store, edits, crossed, mixed>>

(* seed-vector-cache.js reads the cache, under the script's own recipe, *)
SeedLoad(s) ==
  /\ build[s].pc = "new"
  /\ \E recipe \in {release.recipe : release \in Releases} :
       build' = [build EXCEPT ![s] = [@ EXCEPT !.pc = "lift", !.contract = [recipe |-> recipe],
                                              !.cached = Cached(recipe)]]
  /\ UNCHANGED <<files, policy, disk, store, edits, faults, crossed, mixed>>

(* then the index, whose vectors go over what it has, whatever made them,   *)
SeedLift(s) ==
  LET run == build[s]
      lifted == UNION {disk.docs[n].vectors : n \in DOMAIN disk.docs}
      kept == {v \in run.cached : \A w \in lifted : w.text # v.text}
  IN /\ run.pc = "lift"
     /\ build' = [build EXCEPT ![s] = [@ EXCEPT !.pc = "write", !.cached = kept \cup lifted]]
     /\ mixed' = mixed \cup {x \in {"recipe"} : \E v \in lifted : v.recipe # run.contract.recipe}
     /\ UNCHANGED <<files, policy, disk, store, edits, faults, crossed>>

(* and writes it.  It holds a copy in between, as a build does.             *)
SeedFlush(s) ==
  /\ build[s].pc = "write"
  /\ Flush(s, build[s].contract.recipe, build[s].cached) \/ FlushFails
  /\ build' = [build EXCEPT ![s] = Over]
  /\ UNCHANGED <<files, policy, disk, edits, mixed>>

BuildNext == \/ \E f \in Files : Edit(f) \/ Delete(f)
             \/ NewPolicy
             \/ \E b \in Builders : \/ Start(b) \/ Open(b) \/ NextDoc(b)
                                    \/ Finish(b) \/ Publish(b) \/ Stop(b)
             \/ \E s \in Seeders : SeedLoad(s) \/ SeedLift(s) \/ SeedFlush(s)

BuildSpec == BuildInit /\ [][BuildNext]_vars
-----------------------------------------------------------------------------
(* Properties. *)

Pure(vectors, recipe) == \A v \in vectors : v.recipe = recipe
Encodes(d, recipe) == /\ Pure(d.vectors, recipe)
                      /\ d.chunks \subseteq {v.text : v \in d.vectors}

(* The vectors of the index file, whatever became of them on the way -      *)
(* reused, from a cache another release may have written, or new - are of   *)
(* the text beside them, and made by the recipe the header names.           *)
VectorsAreOfTheirText ==
  "recipe" \notin mixed =>
    \A n \in DOMAIN disk.docs : Encodes(disk.docs[n], disk.contract.recipe)

(* The cache file never holds two recipes' vectors. *)
CacheIsPure == "recipe" \notin mixed => Pure(store.vectors, store.recipe)

(* An incremental build of any number of runs' leavings publishes what a    *)
(* build from scratch would make of the corpus it read, all of it, unless   *)
(* how files are read has changed.                                          *)
PublishedIsFull ==
  [][(disk' # disk /\ mixed = {}) =>
       \E b \in Builders :
         disk' = [contract |-> build[b].contract,
                  docs |-> [n \in DOMAIN build[b].docs |->
                              FromScratch(build[b].docs[n], build[b].contract.recipe)]]]_vars

(* What was embedded stays in the cache of its recipe, through kills and    *)
(* refusals, except that a run may not know of another's additions.         *)
KeepsCheckpoints ==
  [][(store'.recipe = store.recipe /\ mixed' = {} /\ ~(store.vectors \subseteq store'.vectors)) =>
       \E b \in crossed : build'[b] # build[b]]_vars
=============================================================================
