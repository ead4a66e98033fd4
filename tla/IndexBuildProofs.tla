---------------------------- MODULE IndexBuildProofs ----------------------------
(***************************************************************************)
(* Proofs about IndexBuild, for any corpus, any number of builds and       *)
(* seedings, and any releases.                                             *)
(*                                                                         *)
(* The vectors of an index come from three places: the index before, the   *)
(* cache, and the embedder.  The invariant follows them there: as long as  *)
(* no seeding has mixed recipes, what a run holds of each is of the run's  *)
(* own recipe and encodes the text beside it.                              *)
(***************************************************************************)
EXTENDS IndexBuild, TLAPS

-----------------------------------------------------------------------------
(* What EXCEPT needs to know: the runs there are, and the fields of one. *)
Fields == {"pc", "contract", "docs", "old", "cached", "dirty", "todo", "out", "unflushed"}

Shapes == /\ DOMAIN build = Runs
          /\ \A b \in Runs : DOMAIN build[b] = Fields

AllEncode(docs, recipe) == \A n \in DOMAIN docs : Encodes(docs[n], recipe)

(* Under way: past Start, and not over. *)
Underway(b) == build[b].pc \in {"model", "docs", "publish"}

(* What a run holds is of its own recipe. *)
RunIsPure(b) ==
  /\ Underway(b) => /\ AllEncode(build[b].old, build[b].contract.recipe)
                    /\ AllEncode(build[b].out, build[b].contract.recipe)
  /\ b \in Copies => Pure(build[b].cached, build[b].contract.recipe)
  /\ build[b].pc = "new" => DOMAIN build[b].out = {}

PureInv ==
  /\ Shapes
  /\ "recipe" \notin mixed =>
       /\ CacheIsPure /\ VectorsAreOfTheirText
       /\ \A b \in Runs : RunIsPure(b)

-----------------------------------------------------------------------------
(* One more document that encodes its text. *)
LEMMA WithEncodes ==
  ASSUME NEW docs, NEW n, NEW d, NEW recipe, AllEncode(docs, recipe), Encodes(d, recipe)
  PROVE  AllEncode(With(docs, n, d), recipe)
BY DEF AllEncode, With

LEMMA InitPure == BuildInit => PureInv
<1> SUFFICES ASSUME BuildInit PROVE PureInv
  OBVIOUS
<1>1. Shapes
  BY DEF BuildInit, Shapes, Fields, Idle
<1>2. CacheIsPure /\ VectorsAreOfTheirText
  BY DEF BuildInit, CacheIsPure, VectorsAreOfTheirText, Pure, NoDocs
<1>3. ASSUME NEW b \in Runs PROVE RunIsPure(b)
  BY DEF BuildInit, RunIsPure, Copies, Idle, NoDocs, Underway
<1> QED
  BY <1>1, <1>2, <1>3 DEF PureInv

(* A run that is over holds nothing. *)
LEMMA OverIs == Over.pc = "done" /\ DOMAIN Over = Fields
BY DEF Over, Idle, Fields

-----------------------------------------------------------------------------
(* One lemma per action of a run; the others touch none of this. *)

LEMMA StartPure ==
  ASSUME PureInv, NEW b \in Builders, Start(b) PROVE PureInv'
<1> USE DEF PureInv
<1>1. b \in Runs
  BY DEF Runs
<1>2. PICK contract \in Releases, forced \in BOOLEAN :
        LET docs == Load(files, contract.chunking, policy) IN
         build' = [build EXCEPT ![b] =
           IF DOMAIN docs = {} /\ DOMAIN disk.docs # {} THEN Over
           ELSE [@ EXCEPT !.pc = "model", !.contract = contract, !.docs = docs,
                          !.old = Reusable(contract, forced), !.todo = DOMAIN docs]]
  BY DEF Start
<1> DEFINE docs == Load(files, contract.chunking, policy)
<1>3. build[b].pc = "new" /\ UNCHANGED <<disk, store, mixed>>
  BY DEF Start
<1>4. Shapes'
  BY <1>1, <1>2, <1>3, OverIs DEF Shapes, Fields
<1>5. ASSUME "recipe" \notin mixed, NEW c \in Runs PROVE RunIsPure(c)'
  <2>1. CASE c # b
    BY <2>1, <1>1, <1>2, <1>5 DEF Shapes, RunIsPure, Underway, Copies
  <2>2. CASE c = b /\ DOMAIN docs = {} /\ DOMAIN disk.docs # {}
    <3>1. build'[b].pc = "done"
      BY <2>2, <1>1, <1>2, OverIs DEF Shapes, Fields
    <3> QED
      BY <2>2, <3>1 DEF RunIsPure, Underway, Copies
  <2>3. CASE c = b /\ ~(DOMAIN docs = {} /\ DOMAIN disk.docs # {})
    <3>1. /\ build'[b].pc = "model"
          /\ build'[b].contract = contract
          /\ build'[b].old = Reusable(contract, forced)
          /\ build'[b].out = build[b].out
      BY <2>3, <1>1, <1>2 DEF Shapes, Fields
    <3>2. AllEncode(build'[b].old, contract.recipe)
      BY <1>5, <3>1 DEF Reusable, NoDocs, AllEncode, VectorsAreOfTheirText
    <3>3. AllEncode(build'[b].out, contract.recipe)
      BY <1>1, <1>3, <1>5, <3>1 DEF AllEncode, RunIsPure, Copies
    <3> QED
      BY <2>3, <3>1, <3>2, <3>3 DEF RunIsPure, Copies, Underway, AllEncode
  <2> QED
    BY <2>1, <2>2, <2>3
<1> QED
  BY <1>3, <1>4, <1>5 DEF CacheIsPure, VectorsAreOfTheirText

LEMMA OpenPure ==
  ASSUME PureInv, NEW b \in Builders, Open(b) PROVE PureInv'
<1> USE DEF PureInv
<1>1. b \in Runs
  BY DEF Runs
<1>2. /\ build[b].pc = "model"
      /\ build' = [build EXCEPT ![b] = [@ EXCEPT !.pc = "docs",
                                                !.cached = Cached(build[b].contract.recipe)]]
      /\ UNCHANGED <<disk, store, mixed>>
  BY DEF Open
<1>3. Shapes'
  BY <1>1, <1>2 DEF Shapes, Fields
<1>4. ASSUME "recipe" \notin mixed, NEW c \in Runs PROVE RunIsPure(c)'
  <2>1. CASE c # b
    BY <2>1, <1>1, <1>2, <1>4 DEF Shapes, RunIsPure, Underway, Copies
  <2>2. CASE c = b
    <3>1. /\ build'[b].pc = "docs"
          /\ build'[b].contract = build[b].contract
          /\ build'[b].old = build[b].old
          /\ build'[b].out = build[b].out
          /\ build'[b].cached = Cached(build[b].contract.recipe)
      BY <1>1, <1>2 DEF Shapes, Fields
    <3>2. Pure(build'[b].cached, build[b].contract.recipe)
      BY <1>4, <3>1 DEF Cached, CacheIsPure, Pure
    <3> QED
      BY <1>1, <1>2, <1>4, <2>2, <3>1, <3>2 DEF RunIsPure, Copies, Underway, AllEncode
  <2> QED
    BY <2>1, <2>2
<1> QED
  BY <1>2, <1>3, <1>4 DEF CacheIsPure, VectorsAreOfTheirText

(* The document as Reuse has it. *)
Kept(b, n) == Indexed(build[b].docs[n], build[b].old[n].chunks, build[b].old[n].vectors)

LEMMA ReuseFrame ==
  ASSUME Shapes, NEW b \in Builders, NEW n, NextDoc(b), Reuse(b, n)
  PROVE  /\ b \in Runs /\ Shapes' /\ UNCHANGED <<policy, disk, store, mixed>>
         /\ build[b].pc = "docs" /\ build'[b].pc = "docs"
         /\ \A c \in Runs : c # b => build'[c] = build[c]
         /\ build'[b].contract = build[b].contract
         /\ build'[b].docs = build[b].docs
         /\ build'[b].old = build[b].old
         /\ build'[b].todo = build[b].todo \ {n}
         /\ build'[b].cached = build[b].cached
         /\ build'[b].out = With(build[b].out, n, Kept(b, n))
         /\ n \in DOMAIN build[b].old
<1>1. /\ b \in Runs
      /\ build[b].pc = "docs"
      /\ n \in DOMAIN build[b].old
      /\ build' = [build EXCEPT ![b] =
            [build[b] EXCEPT !.todo = build[b].todo \ {n},
                             !.out = With(build[b].out, n, Kept(b, n))]]
      /\ UNCHANGED <<policy, disk, store, mixed>>
  BY DEF Runs, NextDoc, Reuse, Unchanged, Kept
<1> QED
  BY <1>1 DEF Shapes, Fields

LEMMA ReusePure ==
  ASSUME PureInv, NEW b \in Builders, NEW n, NextDoc(b), Reuse(b, n) PROVE PureInv'
<1> USE DEF PureInv
<1>1. /\ b \in Runs /\ Shapes' /\ UNCHANGED <<disk, store, mixed>>
      /\ build[b].pc = "docs" /\ build'[b].pc = "docs"
      /\ \A c \in Runs : c # b => build'[c] = build[c]
      /\ build'[b].contract = build[b].contract
      /\ build'[b].old = build[b].old
      /\ build'[b].cached = build[b].cached
      /\ build'[b].out = With(build[b].out, n, Kept(b, n))
      /\ n \in DOMAIN build[b].old
  BY ReuseFrame
<1>2. ASSUME "recipe" \notin mixed, NEW c \in Runs PROVE RunIsPure(c)'
  <2>1. CASE c # b
    BY <1>1, <1>2, <2>1 DEF RunIsPure, Underway, Copies
  <2>2. CASE c = b
    <3>1. /\ AllEncode(build[b].old, build[b].contract.recipe)
          /\ AllEncode(build[b].out, build[b].contract.recipe)
          /\ Pure(build[b].cached, build[b].contract.recipe)
      BY <1>1, <1>2 DEF RunIsPure, Underway, Copies
    <3>2. Encodes(Kept(b, n), build[b].contract.recipe)
      BY <1>1, <3>1 DEF AllEncode, Encodes, Indexed, Kept
    <3>3. AllEncode(build'[b].out, build[b].contract.recipe)
      BY <1>1, <3>1, <3>2, WithEncodes
    <3> QED
      BY <1>1, <2>2, <3>1, <3>3 DEF RunIsPure, Copies, Underway, AllEncode
  <2> QED
    BY <2>1, <2>2
<1> QED
  BY <1>1, <1>2 DEF CacheIsPure, VectorsAreOfTheirText

(* The parts of EmbedDoc: what is looked up, what is embedded, the document. *)
Known(b, n) == {v \in build[b].cached : v.text \in Wanted(build[b].docs[n])}
Fresh(b, n) == Embed(Wanted(build[b].docs[n]) \ {v.text : v \in Known(b, n)},
                     build[b].contract.recipe)
Made(b, n) == Indexed(build[b].docs[n], build[b].docs[n].chunks, Known(b, n) \cup Fresh(b, n))

LEMMA EmbedDocFrame ==
  ASSUME Shapes, NEW b \in Builders, NEW n, NextDoc(b), EmbedDoc(b, n)
  PROVE  /\ b \in Runs /\ Shapes' /\ UNCHANGED <<policy, disk, mixed>>
         /\ build[b].pc = "docs" /\ build'[b].pc = "docs"
         /\ \A c \in Runs : c # b => build'[c] = build[c]
         /\ build'[b].contract = build[b].contract
         /\ build'[b].docs = build[b].docs
         /\ build'[b].old = build[b].old
         /\ build'[b].todo = build[b].todo \ {n}
         /\ build'[b].cached = build[b].cached \cup Fresh(b, n)
         /\ build'[b].out = With(build[b].out, n, Made(b, n))
         /\ \/ UNCHANGED store
            \/ store' = [recipe |-> build[b].contract.recipe,
                         vectors |-> build[b].cached \cup Fresh(b, n)]
<1>1. b \in Runs
  BY DEF Runs
<1>2. PICK dirty, unflushed :
        build' = [build EXCEPT ![b] =
          [build[b] EXCEPT !.todo = build[b].todo \ {n},
                           !.cached = build[b].cached \cup Fresh(b, n),
                           !.dirty = dirty, !.unflushed = unflushed,
                           !.out = With(build[b].out, n, Made(b, n))]]
  BY DEF EmbedDoc, Known, Fresh, Made
<1>3. /\ build[b].pc = "docs" /\ UNCHANGED <<policy, disk, mixed>>
      /\ \/ UNCHANGED store
         \/ store' = [recipe |-> build[b].contract.recipe,
                      vectors |-> build[b].cached \cup Fresh(b, n)]
  BY DEF NextDoc, EmbedDoc, Flush, FlushFails, Known, Fresh
<1> QED
  BY <1>1, <1>2, <1>3 DEF Shapes, Fields

LEMMA EmbedDocPure ==
  ASSUME PureInv, NEW b \in Builders, NEW n, NextDoc(b), EmbedDoc(b, n) PROVE PureInv'
<1> USE DEF PureInv
<1> DEFINE run == build[b]
           texts == Wanted(run.docs[n])
           known == Known(b, n)
           fresh == Fresh(b, n)
           doc == Made(b, n)
<1>3. /\ run.pc = "docs" /\ UNCHANGED <<disk, mixed>>
      /\ \/ UNCHANGED store
         \/ store' = [recipe |-> run.contract.recipe, vectors |-> run.cached \cup fresh]
  BY EmbedDocFrame
<1>4. /\ b \in Runs
      /\ \A c \in Runs : c # b => build'[c] = build[c]
      /\ build'[b].pc = "docs"
      /\ build'[b].contract = run.contract
      /\ build'[b].old = run.old
      /\ build'[b].cached = run.cached \cup fresh
      /\ build'[b].out = With(run.out, n, doc)
  BY EmbedDocFrame
<1>5. Shapes'
  BY EmbedDocFrame
<1>6. ASSUME "recipe" \notin mixed
      PROVE  /\ Pure(run.cached \cup fresh, run.contract.recipe)
             /\ RunIsPure(b)'
  <2>1. /\ AllEncode(run.old, run.contract.recipe)
        /\ AllEncode(run.out, run.contract.recipe)
        /\ Pure(run.cached, run.contract.recipe)
    BY <1>3, <1>4, <1>6 DEF RunIsPure, Underway, Copies
  <2>2. Pure(fresh, run.contract.recipe) /\ Pure(known \cup fresh, run.contract.recipe)
    BY <2>1 DEF Pure, Embed, Known, Fresh
  <2>3. ASSUME NEW t \in run.docs[n].chunks PROVE t \in {v.text : v \in known \cup fresh}
    <3>1. t \in texts
      BY <2>3 DEF Wanted
    <3>2. CASE t \in {v.text : v \in known}
      BY <3>2
    <3>3. CASE t \notin {v.text : v \in known}
      <4>1. [text |-> t, recipe |-> run.contract.recipe] \in fresh
        BY <3>1, <3>3 DEF Embed, Fresh
      <4>2. [text |-> t, recipe |-> run.contract.recipe].text = t
        OBVIOUS
      <4> QED
        BY <4>1, <4>2
    <3> QED
      BY <3>2, <3>3
  <2>4. Encodes(doc, run.contract.recipe)
    BY <2>2, <2>3 DEF Made, Encodes, Indexed
  <2>5. AllEncode(With(run.out, n, doc), run.contract.recipe)
    BY <2>1, <2>4, WithEncodes
  <2>6. Pure(run.cached \cup fresh, run.contract.recipe)
    BY <2>1, <2>2 DEF Pure
  <2> QED
    BY <1>4, <2>1, <2>5, <2>6 DEF RunIsPure, Underway, Copies
<1>7. ASSUME "recipe" \notin mixed, NEW c \in Runs PROVE RunIsPure(c)'
  <2>1. CASE c # b
    BY <2>1, <1>4, <1>7 DEF RunIsPure, Underway, Copies
  <2> QED
    BY <2>1, <1>6, <1>7
<1>8. ASSUME "recipe" \notin mixed PROVE CacheIsPure'
  <2>1. CASE UNCHANGED store
    BY <1>8, <2>1 DEF CacheIsPure
  <2>2. CASE store' = [recipe |-> run.contract.recipe, vectors |-> run.cached \cup fresh]
    BY <1>8, <1>6, <2>2 DEF CacheIsPure
  <2> QED
    BY <1>3, <2>1, <2>2
<1>9. ASSUME "recipe" \notin mixed PROVE VectorsAreOfTheirText'
  BY <1>3, <1>9 DEF VectorsAreOfTheirText
<1> QED
  BY <1>3, <1>5, <1>7, <1>8, <1>9

LEMMA EndsPure ==
  ASSUME PureInv, NEW b \in Runs, build' = [build EXCEPT ![b] = Over]
  PROVE  /\ Shapes'
         /\ "recipe" \notin mixed => \A c \in Runs : RunIsPure(c)'
<1>1. /\ DOMAIN build' = Runs
      /\ \A c \in Runs : c # b => build'[c] = build[c]
      /\ build'[b] = Over
  BY DEF PureInv, Shapes
<1>2. ASSUME "recipe" \notin mixed, NEW c \in Runs PROVE RunIsPure(c)'
  <2>1. CASE c # b
    BY <1>1, <1>2, <2>1 DEF PureInv, RunIsPure, Underway, Copies
  <2>2. CASE c = b
    BY <1>1, <2>2, OverIs DEF RunIsPure, Underway, Copies
  <2> QED
    BY <2>1, <2>2
<1> QED
  BY <1>1, <1>2, OverIs DEF PureInv, Shapes

(* What a run has after its last flush: its documents, and no copies.       *)
LEMMA FinishFrame ==
  ASSUME Shapes, NEW b \in Builders, Finish(b)
  PROVE  /\ b \in Runs /\ Shapes' /\ UNCHANGED <<policy, disk, mixed>>
         /\ build[b].pc = "docs" /\ build[b].todo = {} /\ build'[b].pc = "publish"
         /\ \A c \in Runs : c # b => build'[c] = build[c]
         /\ build'[b].contract = build[b].contract
         /\ build'[b].docs = build[b].docs
         /\ build'[b].old = NoDocs
         /\ build'[b].todo = build[b].todo
         /\ build'[b].out = build[b].out
         /\ \/ UNCHANGED <<store, crossed>>
            \/ Flush(b, build[b].contract.recipe, build[b].cached)
<1>1. /\ b \in Runs /\ build[b].pc = "docs" /\ build[b].todo = {}
      /\ UNCHANGED <<policy, disk, mixed>>
      /\ build' = [build EXCEPT ![b] = [@ EXCEPT !.pc = "publish", !.old = NoDocs, !.cached = {},
                                                !.dirty = FALSE, !.unflushed = 0]]
      /\ \/ UNCHANGED <<store, crossed>>
         \/ Flush(b, build[b].contract.recipe, build[b].cached)
  BY DEF Finish, FlushFails, Runs
<1> QED
  BY <1>1 DEF Shapes, Fields

LEMMA FinishPure ==
  ASSUME PureInv, NEW b \in Builders, Finish(b) PROVE PureInv'
<1>1. /\ b \in Runs /\ Shapes' /\ UNCHANGED <<disk, mixed>>
      /\ build[b].pc = "docs" /\ build'[b].pc = "publish"
      /\ \A c \in Runs : c # b => build'[c] = build[c]
      /\ build'[b].contract = build[b].contract
      /\ build'[b].old = NoDocs
      /\ build'[b].out = build[b].out
      /\ \/ UNCHANGED store
         \/ store' = [recipe |-> build[b].contract.recipe, vectors |-> build[b].cached]
  BY FinishFrame DEF PureInv, Flush
<1>2. ASSUME "recipe" \notin mixed, NEW c \in Runs PROVE RunIsPure(c)'
  <2>1. CASE c # b
    BY <1>1, <1>2, <2>1 DEF PureInv, RunIsPure, Underway, Copies
  <2>2. CASE c = b
    <3>1. AllEncode(build[b].out, build[b].contract.recipe)
      BY <1>1, <1>2 DEF PureInv, RunIsPure, Underway, Copies
    <3>2. AllEncode(NoDocs, build[b].contract.recipe)
      BY DEF AllEncode, NoDocs
    <3> QED
      BY <1>1, <2>2, <3>1, <3>2 DEF RunIsPure, Underway, Copies, AllEncode
  <2> QED
    BY <2>1, <2>2
<1>3. ASSUME "recipe" \notin mixed PROVE CacheIsPure'
  BY <1>1, <1>3 DEF PureInv, CacheIsPure, RunIsPure, Copies
<1> QED
  BY <1>1, <1>2, <1>3 DEF PureInv, VectorsAreOfTheirText

LEMMA PublishPure ==
  ASSUME PureInv, NEW b \in Builders, Publish(b) PROVE PureInv'
<1>1. /\ b \in Runs /\ build[b].pc = "publish" /\ UNCHANGED <<store, mixed>>
      /\ build' = [build EXCEPT ![b] = Over]
      /\ disk' = [contract |-> build[b].contract, docs |-> build[b].out]
  BY DEF Publish, Runs
<1>2. /\ Shapes'
      /\ "recipe" \notin mixed => \A c \in Runs : RunIsPure(c)'
  BY <1>1, EndsPure
<1>3. ASSUME "recipe" \notin mixed PROVE VectorsAreOfTheirText'
  BY <1>1, <1>3 DEF PureInv, VectorsAreOfTheirText, RunIsPure, Copies, Underway, AllEncode
<1> QED
  BY <1>1, <1>2, <1>3 DEF PureInv, CacheIsPure

LEMMA StopPure ==
  ASSUME PureInv, NEW b \in Builders, Stop(b) PROVE PureInv'
<1>1. /\ b \in Runs /\ UNCHANGED <<store, disk, mixed>>
      /\ build' = [build EXCEPT ![b] = Over]
  BY DEF Stop, Runs
<1>2. /\ Shapes'
      /\ "recipe" \notin mixed => \A c \in Runs : RunIsPure(c)'
  BY <1>1, EndsPure
<1> QED
  BY <1>1, <1>2 DEF PureInv, CacheIsPure, VectorsAreOfTheirText

(* The three steps of a seeding. *)
LEMMA SeedLoadFrame ==
  ASSUME Shapes, NEW s \in Seeders, SeedLoad(s)
  PROVE  /\ s \in Runs /\ Shapes' /\ UNCHANGED <<policy, disk, store, crossed, mixed>>
         /\ \A c \in Runs : c # s => build'[c] = build[c]
         /\ build'[s].pc = "lift"
         /\ build'[s].cached = Cached(build'[s].contract.recipe)
<1>1. s \in Runs /\ UNCHANGED <<policy, disk, store, crossed, mixed>>
  BY DEF SeedLoad, Runs
<1>2. PICK recipe : build' = [build EXCEPT ![s] = [@ EXCEPT !.pc = "lift",
                       !.contract = [recipe |-> recipe], !.cached = Cached(recipe)]]
  BY DEF SeedLoad
<1> QED
  BY <1>1, <1>2 DEF Shapes, Fields

Lifted == UNION {disk.docs[n].vectors : n \in DOMAIN disk.docs}
Laid(s) == {v \in build[s].cached : \A w \in Lifted : w.text # v.text} \cup Lifted

LEMMA SeedLiftFrame ==
  ASSUME Shapes, NEW s \in Seeders, SeedLift(s)
  PROVE  /\ s \in Runs /\ Shapes' /\ UNCHANGED <<policy, disk, store, crossed>>
         /\ \A c \in Runs : c # s => build'[c] = build[c]
         /\ build[s].pc = "lift" /\ build'[s].pc = "write"
         /\ build'[s].contract = build[s].contract
         /\ build'[s].cached = Laid(s)
         /\ mixed \subseteq mixed'
         /\ "recipe" \notin mixed' => \A v \in Lifted : v.recipe = build[s].contract.recipe
<1>1. /\ s \in Runs /\ UNCHANGED <<policy, disk, store, crossed>>
      /\ build[s].pc = "lift"
      /\ build' = [build EXCEPT ![s] = [@ EXCEPT !.pc = "write", !.cached = Laid(s)]]
      /\ mixed' = mixed \cup {x \in {"recipe"} :
                                \E v \in Lifted : v.recipe # build[s].contract.recipe}
  BY DEF SeedLift, Runs, Laid, Lifted
<1>2. /\ mixed \subseteq mixed'
      /\ "recipe" \notin mixed' => \A v \in Lifted : v.recipe = build[s].contract.recipe
  BY <1>1
<1> QED
  BY <1>1, <1>2 DEF Shapes, Fields

LEMMA SeedFlushFrame ==
  ASSUME NEW s \in Seeders, SeedFlush(s)
  PROVE  /\ s \in Runs /\ UNCHANGED <<policy, disk, mixed>>
         /\ build[s].pc = "write"
         /\ build' = [build EXCEPT ![s] = Over]
         /\ \/ UNCHANGED <<store, crossed>>
            \/ Flush(s, build[s].contract.recipe, build[s].cached)
BY DEF SeedFlush, FlushFails, Runs

Seeds(s) == SeedLoad(s) \/ SeedLift(s) \/ SeedFlush(s)

LEMMA SeedPure ==
  ASSUME PureInv, NEW s \in Seeders, Seeds(s) PROVE PureInv'
<1>1. CASE SeedLoad(s)
  <2>1. /\ s \in Runs /\ Shapes' /\ UNCHANGED <<disk, store, mixed>>
        /\ \A c \in Runs : c # s => build'[c] = build[c]
        /\ build'[s].pc = "lift"
        /\ build'[s].cached = Cached(build'[s].contract.recipe)
    BY <1>1, SeedLoadFrame DEF PureInv
  <2>2. ASSUME "recipe" \notin mixed, NEW c \in Runs PROVE RunIsPure(c)'
    <3>1. CASE c # s
      BY <2>1, <2>2, <3>1 DEF PureInv, RunIsPure, Underway, Copies
    <3>2. CASE c = s
      <4>1. Pure(build'[s].cached, build'[s].contract.recipe)
        BY <2>1, <2>2 DEF PureInv, CacheIsPure, Cached, Pure
      <4> QED
        BY <2>1, <3>2, <4>1 DEF RunIsPure, Copies, Underway, Pure
    <3> QED
      BY <3>1, <3>2
  <2> QED
    BY <2>1, <2>2 DEF PureInv, CacheIsPure, VectorsAreOfTheirText
<1>2. CASE SeedLift(s)
  <2>1. /\ s \in Runs /\ Shapes' /\ UNCHANGED <<disk, store>>
        /\ \A c \in Runs : c # s => build'[c] = build[c]
        /\ build[s].pc = "lift" /\ build'[s].pc = "write"
        /\ build'[s].contract = build[s].contract
        /\ build'[s].cached = Laid(s)
        /\ mixed \subseteq mixed'
        /\ "recipe" \notin mixed' => \A v \in Lifted : v.recipe = build[s].contract.recipe
    BY <1>2, SeedLiftFrame DEF PureInv
  <2>2. ASSUME "recipe" \notin mixed', NEW c \in Runs PROVE RunIsPure(c)'
    <3>0. "recipe" \notin mixed
      BY <2>1, <2>2
    <3>1. CASE c # s
      BY <2>1, <3>0, <3>1 DEF PureInv, RunIsPure, Underway, Copies
    <3>2. CASE c = s
      <4>1. Pure(build[s].cached, build[s].contract.recipe)
        BY <2>1, <3>0 DEF PureInv, RunIsPure, Copies
      <4>2. Pure(Laid(s), build[s].contract.recipe)
        BY <2>1, <2>2, <4>1 DEF Laid, Pure
      <4> QED
        BY <2>1, <3>2, <4>2 DEF RunIsPure, Copies, Underway, Pure
    <3> QED
      BY <3>1, <3>2
  <2> QED
    BY <2>1, <2>2 DEF PureInv, CacheIsPure, VectorsAreOfTheirText
<1>3. CASE SeedFlush(s)
  <2>1. /\ s \in Runs /\ UNCHANGED <<disk, mixed>> /\ build[s].pc = "write"
        /\ build' = [build EXCEPT ![s] = Over]
        /\ \/ UNCHANGED store
           \/ store' = [recipe |-> build[s].contract.recipe, vectors |-> build[s].cached]
    BY <1>3, SeedFlushFrame DEF Flush
  <2>2. /\ Shapes'
        /\ "recipe" \notin mixed => \A c \in Runs : RunIsPure(c)'
    BY <2>1, EndsPure
  <2>3. ASSUME "recipe" \notin mixed PROVE CacheIsPure'
    BY <2>1, <2>3 DEF PureInv, CacheIsPure, RunIsPure, Copies
  <2> QED
    BY <2>1, <2>2, <2>3 DEF PureInv, VectorsAreOfTheirText
<1> QED
  BY <1>1, <1>2, <1>3 DEF Seeds

-----------------------------------------------------------------------------
THEOREM BuildPure == BuildSpec => []PureInv
<1>1. PureInv /\ [BuildNext]_vars => PureInv'
  <2> SUFFICES ASSUME PureInv, [BuildNext]_vars PROVE PureInv'
    OBVIOUS
  <2>1. ASSUME UNCHANGED <<disk, store, build, mixed>> PROVE PureInv'
    BY <2>1 DEF PureInv, Shapes, CacheIsPure, VectorsAreOfTheirText, RunIsPure, Underway, Copies
  <2>2. CASE UNCHANGED vars
    BY <2>1, <2>2 DEF vars
  <2>3. ASSUME NEW f \in Files, Edit(f) \/ Delete(f) PROVE PureInv'
    BY <2>1, <2>3 DEF Edit, Delete, Edited
  <2>4. CASE NewPolicy
    BY <2>4 DEF NewPolicy, PureInv, Shapes, CacheIsPure, VectorsAreOfTheirText,
                RunIsPure, Underway, Copies
  <2>5. ASSUME NEW b \in Builders, NextDoc(b) PROVE PureInv'
    <3>1. PICK n : Reuse(b, n) \/ EmbedDoc(b, n)
      BY <2>5 DEF NextDoc
    <3> QED
      BY <2>5, <3>1, ReusePure, EmbedDocPure
  <2> QED
    BY <2>2, <2>3, <2>4, <2>5, StartPure, OpenPure, FinishPure, PublishPure, StopPure,
       SeedPure DEF BuildNext, Seeds
<1> QED
  BY <1>1, InitPure, PTL DEF BuildSpec

(* The cache file never holds two recipes' vectors, whatever releases build *)
(* over it, unless a seeding has brought them in.                           *)
THEOREM CacheStaysPure == BuildSpec => []CacheIsPure
<1>1. PureInv => CacheIsPure
  BY DEF PureInv, CacheIsPure
<1> QED
  BY <1>1, BuildPure, PTL

(* The vectors of an index are of the text beside them and of the header's  *)
(* recipe, whether they were reused, cached or new.                         *)
THEOREM VectorsStayTrue == BuildSpec => []VectorsAreOfTheirText
<1>1. PureInv => VectorsAreOfTheirText
  BY DEF PureInv, VectorsAreOfTheirText
<1> QED
  BY <1>1, BuildPure, PTL
-----------------------------------------------------------------------------
(* An incremental build is a full one.  What the index on disk has of a     *)
(* document is what a build from scratch makes of some content of its file; *)
(* a document with the same hash is, under one policy and one contract,     *)
(* made of the same text, so what is carried over is what would be made.    *)

IsOf(d, n, contract) == \E c : d = DocOf(n, c, contract.chunking, policy)

AllFull(docs, contract) ==
  \A n \in DOMAIN docs :
    \E d : IsOf(d, n, contract) /\ docs[n] = FromScratch(d, contract.recipe)

(* Vectors are nothing but their text and the recipe. *)
Exact(vectors, recipe) == \A v \in vectors : v = [text |-> v.text, recipe |-> recipe]

RunIsFull(b) ==
  /\ build[b].pc = "new" => build[b].out = NoDocs
  /\ Underway(b) =>
       /\ \A n \in DOMAIN build[b].docs : IsOf(build[b].docs[n], n, build[b].contract)
       /\ AllFull(build[b].old, build[b].contract)
       /\ build[b].todo \subseteq DOMAIN build[b].docs
       /\ build[b].out = [n \in DOMAIN build[b].docs \ build[b].todo |->
                            FromScratch(build[b].docs[n], build[b].contract.recipe)]
  /\ b \in Copies => Exact(build[b].cached, build[b].contract.recipe)
  /\ build[b].pc = "model" => build[b].todo = DOMAIN build[b].docs
  /\ build[b].pc = "publish" => build[b].todo = {}

FullInv ==
  /\ Shapes
  /\ mixed = {} =>
       /\ Exact(store.vectors, store.recipe)
       /\ AllFull(disk.docs, disk.contract)
       /\ \A b \in Runs : RunIsFull(b)

LEMMA SameHash ==
  ASSUME NEW n, NEW c, NEW e, NEW chunking, NEW how,
         DocOf(n, c, chunking, how).hash = DocOf(n, e, chunking, how).hash
  PROVE  /\ DocOf(n, c, chunking, how).chunks = DocOf(n, e, chunking, how).chunks
         /\ DocOf(n, c, chunking, how).summary = DocOf(n, e, chunking, how).summary
<1>1. CASE n[2] # "doc"
  <2>1. /\ DocOf(n, c, chunking, how) = SectionDoc(c, n[2], chunking)
        /\ DocOf(n, e, chunking, how) = SectionDoc(e, n[2], chunking)
    BY <1>1 DEF DocOf
  <2>2. c[n[2]] = e[n[2]]
    BY <2>1 DEF SectionDoc, Document
  <2> QED
    BY <2>1, <2>2 DEF SectionDoc, Document, Body
<1>2. CASE n[2] = "doc" /\ how = "split"
  <2>1. /\ DocOf(n, c, chunking, how) = StubDoc(c, chunking)
        /\ DocOf(n, e, chunking, how) = StubDoc(e, chunking)
    BY <1>2 DEF DocOf
  <2>2. c.front = e.front
    BY <2>1 DEF StubDoc, Document, RawHash
  <2> QED
    BY <2>1, <2>2 DEF StubDoc, Document, Summary
<1>3. CASE n[2] = "doc" /\ how # "split"
  <2> DEFINE parts == IF how = "scrubbed" THEN {"a"} ELSE Parts
  <2>1. /\ DocOf(n, c, chunking, how) = WholeDoc(c, parts, chunking)
        /\ DocOf(n, e, chunking, how) = WholeDoc(e, parts, chunking)
    BY <1>3 DEF DocOf
  <2>2. c.front = e.front /\ c.a = e.a /\ c.b = e.b
    BY <2>1 DEF WholeDoc, Document, RawHash
  <2>3. \A p \in parts : c[p] = e[p]
    BY <2>2 DEF Parts
  <2>4. Body(c, parts, chunking) = Body(e, parts, chunking)
    BY <2>3 DEF Body
  <2> QED
    BY <2>1, <2>2, <2>4 DEF WholeDoc, Document, Summary
<1> QED
  BY <1>1, <1>2, <1>3
LEMMA InitFull == BuildInit => FullInv
<1> SUFFICES ASSUME BuildInit PROVE FullInv
  OBVIOUS
<1>1. Shapes
  BY DEF BuildInit, Shapes, Fields, Idle
<1>2. Exact(store.vectors, store.recipe) /\ AllFull(disk.docs, disk.contract)
  BY DEF BuildInit, Exact, AllFull, NoDocs
<1>3. ASSUME NEW b \in Runs PROVE RunIsFull(b)
  BY DEF BuildInit, RunIsFull, Copies, Idle, Underway
<1> QED
  BY <1>1, <1>2, <1>3 DEF FullInv

(* What a step needs that leaves the disk, the store and the policy alone:  *)
(* the run it is of, and none of the others, may have changed.              *)
LEMMA OthersFull ==
  ASSUME FullInv, Shapes', UNCHANGED <<policy, mixed>>, NEW b \in Runs,
         \A c \in Runs : c # b => build'[c] = build[c],
         mixed = {} => RunIsFull(b)'
  PROVE  mixed' = {} => \A c \in Runs : RunIsFull(c)'
<1> SUFFICES ASSUME mixed = {}, NEW c \in Runs PROVE RunIsFull(c)'
  OBVIOUS
<1>1. CASE c # b
  BY <1>1 DEF FullInv, RunIsFull, Copies, Underway, IsOf, AllFull
<1> QED
  BY <1>1

LEMMA StartFull ==
  ASSUME FullInv, NEW b \in Builders, Start(b) PROVE FullInv'
<1>1. b \in Runs /\ Shapes
  BY DEF Runs, FullInv
<1>2. PICK contract \in Releases, forced \in BOOLEAN :
        LET docs == Load(files, contract.chunking, policy) IN
         build' = [build EXCEPT ![b] =
           IF DOMAIN docs = {} /\ DOMAIN disk.docs # {} THEN Over
           ELSE [@ EXCEPT !.pc = "model", !.contract = contract, !.docs = docs,
                          !.old = Reusable(contract, forced), !.todo = DOMAIN docs]]
  BY DEF Start
<1> DEFINE docs == Load(files, contract.chunking, policy)
<1>3. build[b].pc = "new" /\ UNCHANGED <<disk, store, mixed, policy>>
  BY DEF Start
<1>4. Shapes' /\ \A c \in Runs : c # b => build'[c] = build[c]
  BY <1>1, <1>2, OverIs DEF Shapes, Fields
<1>5. ASSUME mixed = {} PROVE RunIsFull(b)'
  <2>1. CASE DOMAIN docs = {} /\ DOMAIN disk.docs # {}
    <3>1. build'[b].pc = "done"
      BY <2>1, <1>1, <1>2, OverIs DEF Shapes, Fields
    <3> QED
      BY <3>1 DEF RunIsFull, Underway, Copies
  <2>2. CASE ~(DOMAIN docs = {} /\ DOMAIN disk.docs # {})
    <3>1. /\ build'[b].pc = "model"
          /\ build'[b].contract = contract
          /\ build'[b].docs = docs
          /\ build'[b].old = Reusable(contract, forced)
          /\ build'[b].todo = DOMAIN docs
          /\ build'[b].out = build[b].out
      BY <2>2, <1>1, <1>2 DEF Shapes, Fields
    <3>2. \A n \in DOMAIN docs : IsOf(docs[n], n, contract)
      BY DEF Load, IsOf
    <3>3. AllFull(Reusable(contract, forced), contract)
      BY <1>5 DEF FullInv, Reusable, AllFull, NoDocs
    <3>4. build[b].out = NoDocs
      BY <1>1, <1>3, <1>5 DEF FullInv, RunIsFull, Copies
    <3>5. NoDocs = [n \in DOMAIN docs \ DOMAIN docs |-> FromScratch(docs[n], contract.recipe)]
      BY DEF NoDocs
    <3> HIDE DEF docs
    <3> QED
      BY <1>3, <3>1, <3>2, <3>3, <3>4, <3>5 DEF RunIsFull, Copies, Underway, IsOf, AllFull
  <2> QED
    BY <2>1, <2>2
<1> QED
  BY <1>1, <1>3, <1>4, <1>5, OthersFull DEF FullInv, AllFull, IsOf

LEMMA OpenFull ==
  ASSUME FullInv, NEW b \in Builders, Open(b) PROVE FullInv'
<1>1. /\ b \in Runs /\ Shapes /\ UNCHANGED <<disk, store, mixed, policy>>
      /\ build[b].pc = "model"
      /\ build' = [build EXCEPT ![b] = [@ EXCEPT !.pc = "docs",
                                                !.cached = Cached(build[b].contract.recipe)]]
  BY DEF Open, Runs, FullInv
<1>2. /\ Shapes' /\ \A c \in Runs : c # b => build'[c] = build[c]
      /\ build'[b].pc = "docs"
      /\ build'[b].contract = build[b].contract
      /\ build'[b].docs = build[b].docs
      /\ build'[b].old = build[b].old
      /\ build'[b].todo = build[b].todo
      /\ build'[b].out = build[b].out
      /\ build'[b].cached = Cached(build[b].contract.recipe)
  BY <1>1 DEF Shapes, Fields
<1>3. ASSUME mixed = {} PROVE RunIsFull(b)'
  <2>1. Exact(build'[b].cached, build[b].contract.recipe)
    BY <1>2, <1>3 DEF FullInv, Cached, Exact
  <2> QED
    BY <1>1, <1>2, <1>3, <2>1 DEF FullInv, RunIsFull, Copies, Underway, IsOf, AllFull
<1> QED
  BY <1>1, <1>2, <1>3, OthersFull DEF FullInv, AllFull, IsOf

(* A document more, and one less to do. *)
LEMMA WithFull ==
  ASSUME FullInv, NEW b \in Runs, NEW n \in build[b].todo, mixed = {},
         build[b].pc = "docs",
         NEW d, d = FromScratch(build[b].docs[n], build[b].contract.recipe)
  PROVE  With(build[b].out, n, d) =
           [m \in DOMAIN build[b].docs \ (build[b].todo \ {n}) |->
              FromScratch(build[b].docs[m], build[b].contract.recipe)]
<1>1. /\ build[b].todo \subseteq DOMAIN build[b].docs
      /\ build[b].out = [m \in DOMAIN build[b].docs \ build[b].todo |->
                           FromScratch(build[b].docs[m], build[b].contract.recipe)]
  BY DEF FullInv, RunIsFull, Underway, Copies
<1>2. DOMAIN build[b].out \cup {n} = DOMAIN build[b].docs \ (build[b].todo \ {n})
  BY <1>1
<1> QED
  BY <1>1, <1>2 DEF With

LEMMA ReuseFull ==
  ASSUME FullInv, NEW b \in Builders, NEW n \in build[b].todo, NextDoc(b), Reuse(b, n)
  PROVE  FullInv'
<1> DEFINE run == build[b]
<1>1. /\ b \in Runs /\ Shapes' /\ UNCHANGED <<policy, disk, store, mixed>>
      /\ run.pc = "docs" /\ build'[b].pc = "docs"
      /\ \A c \in Runs : c # b => build'[c] = build[c]
      /\ build'[b].contract = run.contract
      /\ build'[b].docs = run.docs
      /\ build'[b].old = run.old
      /\ build'[b].todo = run.todo \ {n}
      /\ build'[b].cached = run.cached
      /\ build'[b].out = With(run.out, n, Kept(b, n))
      /\ n \in DOMAIN run.old
  BY ReuseFrame DEF FullInv
<1>2. ASSUME mixed = {} PROVE RunIsFull(b)'
  <2>1. RunIsFull(b) /\ Underway(b)
    BY <1>1, <1>2 DEF FullInv, Underway
  <2>2. PICK d : IsOf(d, n, run.contract) /\ run.old[n] = FromScratch(d, run.contract.recipe)
    BY <1>1, <2>1 DEF RunIsFull, Copies, AllFull
  <2>3. PICK c : d = DocOf(n, c, run.contract.chunking, policy)
    BY <2>2 DEF IsOf
  <2>4. PICK e : run.docs[n] = DocOf(n, e, run.contract.chunking, policy)
    BY <2>1 DEF RunIsFull, Copies, IsOf
  <2>5. run.old[n].hash = run.docs[n].hash
    BY DEF Reuse, Unchanged
  <2>6. d.hash = run.docs[n].hash
    BY <2>2, <2>5 DEF FromScratch, Indexed
  <2>7. d.chunks = run.docs[n].chunks /\ d.summary = run.docs[n].summary
    BY <2>3, <2>4, <2>6, SameHash
  <2>8. Kept(b, n) = FromScratch(run.docs[n], run.contract.recipe)
    BY <2>2, <2>7 DEF Kept, FromScratch, Indexed, Wanted
  <2>9. With(run.out, n, Kept(b, n)) =
          [m \in DOMAIN run.docs \ (run.todo \ {n}) |->
             FromScratch(run.docs[m], run.contract.recipe)]
    BY <1>1, <1>2, <2>8, WithFull
  <2> QED
    BY <1>1, <2>1, <2>9 DEF RunIsFull, Copies, Underway, IsOf, AllFull
<1> QED
  BY <1>1, <1>2, OthersFull DEF FullInv, AllFull, IsOf
(* Known texts and fresh ones together are all that are wanted. *)
LEMMA MadeIsFull ==
  ASSUME NEW b, NEW n, Exact(build[b].cached, build[b].contract.recipe)
  PROVE  /\ Made(b, n) = FromScratch(build[b].docs[n], build[b].contract.recipe)
         /\ Exact(build[b].cached \cup Fresh(b, n), build[b].contract.recipe)
<1> DEFINE texts == Wanted(build[b].docs[n])
           recipe == build[b].contract.recipe
           known == Known(b, n)
           fresh == Fresh(b, n)
<1>1. \A v \in known : v = [text |-> v.text, recipe |-> recipe] /\ v.text \in texts
  BY DEF Known, Exact
<1>2. \A v \in fresh : v = [text |-> v.text, recipe |-> recipe] /\ v.text \in texts
  BY DEF Fresh, Embed
<1>3. known \cup fresh \subseteq Embed(texts, recipe)
  BY <1>1, <1>2 DEF Embed
<1>4. ASSUME NEW t \in texts PROVE [text |-> t, recipe |-> recipe] \in known \cup fresh
  <2>1. CASE t \in {v.text : v \in known}
    <3>1. PICK v \in known : v.text = t
      BY <2>1
    <3> QED
      BY <1>1, <3>1
  <2>2. CASE t \notin {v.text : v \in known}
    BY <1>4, <2>2 DEF Fresh, Embed
  <2> QED
    BY <2>1, <2>2
<1>5. known \cup fresh = Embed(texts, recipe)
  <2> HIDE DEF known, fresh, texts, recipe
  <2> QED
    BY <1>3, <1>4 DEF Embed
<1>6. Exact(build[b].cached \cup fresh, recipe)
  BY <1>2 DEF Exact
<1> QED
  BY <1>5, <1>6 DEF Made, FromScratch, Indexed

LEMMA EmbedDocFull ==
  ASSUME FullInv, NEW b \in Builders, NEW n \in build[b].todo, NextDoc(b), EmbedDoc(b, n)
  PROVE  FullInv'
<1> DEFINE run == build[b]
<1>1. /\ b \in Runs /\ Shapes' /\ UNCHANGED <<policy, disk, mixed>>
      /\ run.pc = "docs" /\ build'[b].pc = "docs"
      /\ \A c \in Runs : c # b => build'[c] = build[c]
      /\ build'[b].contract = run.contract
      /\ build'[b].docs = run.docs
      /\ build'[b].old = run.old
      /\ build'[b].todo = run.todo \ {n}
      /\ build'[b].cached = run.cached \cup Fresh(b, n)
      /\ build'[b].out = With(run.out, n, Made(b, n))
      /\ \/ UNCHANGED store
         \/ store' = [recipe |-> run.contract.recipe, vectors |-> run.cached \cup Fresh(b, n)]
  BY EmbedDocFrame DEF FullInv
<1>2. ASSUME mixed = {} PROVE RunIsFull(b)' /\ Exact(store.vectors, store.recipe)'
  <2>1. RunIsFull(b) /\ Underway(b)
    BY <1>1, <1>2 DEF FullInv, Underway
  <2>2. /\ Made(b, n) = FromScratch(run.docs[n], run.contract.recipe)
        /\ Exact(run.cached \cup Fresh(b, n), run.contract.recipe)
    BY <1>1, <2>1, MadeIsFull DEF RunIsFull, Copies
  <2>3. With(run.out, n, Made(b, n)) =
          [m \in DOMAIN run.docs \ (run.todo \ {n}) |->
             FromScratch(run.docs[m], run.contract.recipe)]
    BY <1>1, <1>2, <2>2, WithFull
  <2>4. RunIsFull(b)'
    BY <1>1, <2>1, <2>2, <2>3 DEF RunIsFull, Copies, Underway, IsOf, AllFull
  <2>5. Exact(store.vectors, store.recipe)'
    BY <1>1, <1>2, <2>2 DEF FullInv, Exact
  <2> QED
    BY <2>4, <2>5
<1> QED
  BY <1>1, <1>2, OthersFull DEF FullInv, AllFull, IsOf

LEMMA EndsFull ==
  ASSUME FullInv, NEW b \in Runs, UNCHANGED <<policy, mixed>>,
         build' = [build EXCEPT ![b] = Over]
  PROVE  /\ Shapes'
         /\ mixed' = {} => \A c \in Runs : RunIsFull(c)'
<1>1. /\ DOMAIN build' = Runs
      /\ \A c \in Runs : c # b => build'[c] = build[c]
      /\ build'[b] = Over
  BY DEF FullInv, Shapes
<1>2. Shapes'
  BY <1>1, OverIs DEF FullInv, Shapes
<1>3. RunIsFull(b)'
  BY <1>1, OverIs DEF RunIsFull, Underway, Copies
<1> QED
  BY <1>1, <1>2, <1>3, OthersFull

LEMMA FinishFull ==
  ASSUME FullInv, NEW b \in Builders, Finish(b) PROVE FullInv'
<1>1. /\ b \in Runs /\ Shapes' /\ UNCHANGED <<policy, disk, mixed>>
      /\ build[b].pc = "docs" /\ build[b].todo = {} /\ build'[b].pc = "publish"
      /\ \A c \in Runs : c # b => build'[c] = build[c]
      /\ build'[b].contract = build[b].contract
      /\ build'[b].docs = build[b].docs
      /\ build'[b].old = NoDocs
      /\ build'[b].todo = build[b].todo
      /\ build'[b].out = build[b].out
      /\ \/ UNCHANGED store
         \/ store' = [recipe |-> build[b].contract.recipe, vectors |-> build[b].cached]
  BY FinishFrame DEF FullInv, Flush
<1>2. ASSUME mixed = {} PROVE RunIsFull(b)'
  <2>1. RunIsFull(b) /\ Underway(b)
    BY <1>1, <1>2 DEF FullInv, Underway
  <2>2. AllFull(NoDocs, build[b].contract)'
    BY DEF AllFull, NoDocs
  <2> QED
    BY <1>1, <2>1, <2>2 DEF RunIsFull, Underway, Copies, IsOf, AllFull
<1>3. ASSUME mixed = {} PROVE Exact(store.vectors, store.recipe)'
  <2>1. Exact(store.vectors, store.recipe)
    BY <1>3 DEF FullInv
  <2>2. Exact(build[b].cached, build[b].contract.recipe)
    BY <1>1, <1>3 DEF FullInv, RunIsFull, Copies
  <2> QED
    BY <1>1, <2>1, <2>2 DEF Exact
<1> QED
  BY <1>1, <1>2, <1>3, OthersFull DEF FullInv, AllFull, IsOf

LEMMA PublishFull ==
  ASSUME FullInv, NEW b \in Builders, Publish(b)
  PROVE  /\ FullInv'
         /\ mixed = {} =>
              disk' = [contract |-> build[b].contract,
                       docs |-> [n \in DOMAIN build[b].docs |->
                                   FromScratch(build[b].docs[n], build[b].contract.recipe)]]
<1>1. /\ b \in Runs /\ build[b].pc = "publish" /\ UNCHANGED <<store, mixed, policy>>
      /\ build' = [build EXCEPT ![b] = Over]
      /\ disk' = [contract |-> build[b].contract, docs |-> build[b].out]
  BY DEF Publish, Runs
<1>2. /\ Shapes'
      /\ mixed' = {} => \A c \in Runs : RunIsFull(c)'
  BY <1>1, EndsFull
<1>3. ASSUME mixed = {}
      PROVE  /\ build[b].out = [n \in DOMAIN build[b].docs |->
                                  FromScratch(build[b].docs[n], build[b].contract.recipe)]
             /\ \A n \in DOMAIN build[b].docs : IsOf(build[b].docs[n], n, build[b].contract)
  <2>1. RunIsFull(b) /\ Underway(b)
    BY <1>1, <1>3 DEF FullInv, Underway
  <2>2. DOMAIN build[b].docs \ build[b].todo = DOMAIN build[b].docs
    BY <1>1, <2>1 DEF RunIsFull, Copies
  <2> QED
    BY <2>1, <2>2 DEF RunIsFull, Copies
<1>4. ASSUME mixed = {} PROVE AllFull(disk.docs, disk.contract)'
  BY <1>1, <1>3, <1>4 DEF AllFull, IsOf
<1> QED
  BY <1>1, <1>2, <1>3, <1>4 DEF FullInv, Exact

LEMMA StopFull ==
  ASSUME FullInv, NEW b \in Builders, Stop(b) PROVE FullInv'
<1>1. /\ b \in Runs /\ UNCHANGED <<store, disk, mixed, policy>>
      /\ build' = [build EXCEPT ![b] = Over]
  BY DEF Stop, Runs
<1>2. /\ Shapes'
      /\ mixed' = {} => \A c \in Runs : RunIsFull(c)'
  BY <1>1, EndsFull
<1> QED
  BY <1>1, <1>2 DEF FullInv, AllFull, IsOf, Exact

(* What is lifted from an index is of the recipe in its header. *)
LEMMA LiftedIsExact ==
  ASSUME AllFull(disk.docs, disk.contract), NEW v \in Lifted
  PROVE  v = [text |-> v.text, recipe |-> v.recipe]
<1>1. PICK n \in DOMAIN disk.docs : v \in disk.docs[n].vectors
  BY DEF Lifted
<1>2. PICK d : disk.docs[n] = FromScratch(d, disk.contract.recipe)
  BY DEF AllFull
<1>3. PICK t : v = [text |-> t, recipe |-> disk.contract.recipe]
  BY <1>1, <1>2 DEF FromScratch, Indexed, Embed
<1> QED
  BY <1>3

LEMMA SeedFull ==
  ASSUME FullInv, NEW s \in Seeders, Seeds(s) PROVE FullInv'
<1>1. CASE SeedLoad(s)
  <2>1. /\ s \in Runs /\ Shapes' /\ UNCHANGED <<policy, disk, store, mixed>>
        /\ \A c \in Runs : c # s => build'[c] = build[c]
        /\ build'[s].pc = "lift"
        /\ build'[s].cached = Cached(build'[s].contract.recipe)
    BY <1>1, SeedLoadFrame DEF FullInv
  <2>2. ASSUME mixed = {} PROVE RunIsFull(s)'
    <3>1. Exact(build'[s].cached, build'[s].contract.recipe)
      BY <2>1, <2>2 DEF FullInv, Cached, Exact
    <3> QED
      BY <2>1, <3>1 DEF RunIsFull, Copies, Underway, Exact
  <2> QED
    BY <2>1, <2>2, OthersFull DEF FullInv, AllFull, IsOf
<1>2. CASE SeedLift(s)
  <2>1. /\ s \in Runs /\ Shapes' /\ UNCHANGED <<policy, disk, store>>
        /\ \A c \in Runs : c # s => build'[c] = build[c]
        /\ build[s].pc = "lift" /\ build'[s].pc = "write"
        /\ build'[s].contract = build[s].contract
        /\ build'[s].cached = Laid(s)
        /\ mixed \subseteq mixed'
        /\ "recipe" \notin mixed' => \A v \in Lifted : v.recipe = build[s].contract.recipe
    BY <1>2, SeedLiftFrame DEF FullInv
  <2>2. ASSUME mixed' = {} PROVE UNCHANGED mixed /\ RunIsFull(s)'
    <3>1. mixed = {}
      BY <2>1, <2>2
    <3>2. Exact(build[s].cached, build[s].contract.recipe)
      BY <2>1, <3>1 DEF FullInv, RunIsFull, Copies
    <3>3. \A v \in Lifted : v = [text |-> v.text, recipe |-> build[s].contract.recipe]
      <4>1. AllFull(disk.docs, disk.contract)
        BY <3>1 DEF FullInv
      <4>2. \A v \in Lifted : v.recipe = build[s].contract.recipe
        BY <2>1, <2>2
      <4> QED
        BY <4>1, <4>2, LiftedIsExact
    <3>4. Exact(build'[s].cached, build'[s].contract.recipe)
      BY <2>1, <3>2, <3>3 DEF Laid, Exact
    <3> QED
      BY <2>1, <2>2, <3>1, <3>4 DEF RunIsFull, Copies, Underway, Exact
  <2>3. mixed' = {} => \A c \in Runs : RunIsFull(c)'
    BY <2>1, <2>2, OthersFull
  <2> QED
    BY <2>1, <2>2, <2>3 DEF FullInv, AllFull, IsOf
<1>3. CASE SeedFlush(s)
  <2>1. /\ s \in Runs /\ UNCHANGED <<policy, disk, mixed>> /\ build[s].pc = "write"
        /\ build' = [build EXCEPT ![s] = Over]
        /\ \/ UNCHANGED store
           \/ store' = [recipe |-> build[s].contract.recipe, vectors |-> build[s].cached]
    BY <1>3, SeedFlushFrame DEF Flush
  <2>2. /\ Shapes'
        /\ mixed' = {} => \A c \in Runs : RunIsFull(c)'
    BY <2>1, EndsFull
  <2>3. ASSUME mixed = {} PROVE Exact(store.vectors, store.recipe)'
    <3>1. /\ Exact(store.vectors, store.recipe)
          /\ Exact(build[s].cached, build[s].contract.recipe)
      BY <2>1, <2>3 DEF FullInv, RunIsFull, Copies
    <3> QED
      BY <2>1, <3>1 DEF Exact
  <2> QED
    BY <2>1, <2>2, <2>3 DEF FullInv, AllFull, IsOf
<1> QED
  BY <1>1, <1>2, <1>3 DEF Seeds

THEOREM BuildFull == BuildSpec => []FullInv
<1>1. FullInv /\ [BuildNext]_vars => FullInv'
  <2> SUFFICES ASSUME FullInv, [BuildNext]_vars PROVE FullInv'
    OBVIOUS
  <2>1. ASSUME UNCHANGED <<policy, disk, store, build, mixed>> PROVE FullInv'
    BY <2>1 DEF FullInv, Shapes, Exact, AllFull, IsOf, RunIsFull, Underway, Copies
  <2>2. CASE UNCHANGED vars
    BY <2>1, <2>2 DEF vars
  <2>3. ASSUME NEW f \in Files, Edit(f) \/ Delete(f) PROVE FullInv'
    BY <2>1, <2>3 DEF Edit, Delete, Edited
  <2>4. CASE NewPolicy
    <3>1. Shapes' /\ mixed' # {}
      BY <2>4 DEF NewPolicy, FullInv, Shapes
    <3> QED
      BY <3>1 DEF FullInv
  <2>5. ASSUME NEW b \in Builders, NextDoc(b) PROVE FullInv'
    <3>1. PICK n \in build[b].todo : Reuse(b, n) \/ EmbedDoc(b, n)
      BY <2>5 DEF NextDoc
    <3> QED
      BY <2>5, <3>1, ReuseFull, EmbedDocFull
  <2> QED
    BY <2>2, <2>3, <2>4, <2>5, StartFull, OpenFull, FinishFull, PublishFull, StopFull,
       SeedFull DEF BuildNext, Seeds
<1> QED
  BY <1>1, InitFull, PTL DEF BuildSpec

(* An incremental build, of whatever other builds, kills and edits have     *)
(* left, publishes exactly what a build from scratch would make of the      *)
(* corpus it read.                                                          *)
THEOREM IncrementalIsFull == BuildSpec => PublishedIsFull
<1> DEFINE Full == (disk' # disk /\ mixed = {}) =>
       \E b \in Builders :
         disk' = [contract |-> build[b].contract,
                  docs |-> [n \in DOMAIN build[b].docs |->
                              FromScratch(build[b].docs[n], build[b].contract.recipe)]]
<1>1. FullInv /\ [BuildNext]_vars => [Full]_vars
  <2> SUFFICES ASSUME FullInv, BuildNext, disk' # disk, mixed = {} PROVE Full
    OBVIOUS
  <2>1. PICK b \in Builders : Publish(b)
    BY DEF BuildNext, Edit, Delete, Edited, NewPolicy, Start, Open, NextDoc, Finish, Stop,
           SeedLoad, SeedLift, SeedFlush
  <2> QED
    BY <2>1, PublishFull
<1> QED
  BY <1>1, BuildFull, PTL DEF BuildSpec, PublishedIsFull

-----------------------------------------------------------------------------
(* What was embedded stays in the cache file.  A run with a copy that knows *)
(* of every writing of the file has all of it in memory, so that its own    *)
(* next writing loses nothing.                                              *)

HasItAll(b) ==
  b \in Copies /\ b \notin crossed /\ store.recipe = build[b].contract.recipe =>
    store.vectors \subseteq build[b].cached

KeepInv == mixed = {} => \A b \in Runs : HasItAll(b)

(* A step of b that has at most as much as b knows of the file thrown away. *)
KeepsBut(b) ==
  store'.recipe = store.recipe /\ mixed' = {} /\ ~(store.vectors \subseteq store'.vectors) =>
    b \in crossed /\ build'[b] # build[b]

(* A run that ends or begins leaves the file and the others as they were.   *)
LEMMA OneRunKeeps ==
  ASSUME KeepInv, NEW b \in Runs, UNCHANGED <<store, crossed, mixed>>,
         \A c \in Runs : c # b => build'[c] = build[c],
         mixed = {} => HasItAll(b)'
  PROVE  KeepInv'
<1>1. ASSUME mixed = {}, NEW c \in Runs, c # b PROVE HasItAll(c)'
  BY <1>1 DEF KeepInv, HasItAll, Copies
<1> QED
  BY <1>1 DEF KeepInv

LEMMA StartOpenKeep ==
  ASSUME Shapes, KeepInv, NEW b \in Builders,
         Start(b) \/ Open(b) \/ Publish(b) \/ Stop(b)
  PROVE  KeepInv' /\ UNCHANGED store
<1>1. b \in Runs /\ UNCHANGED <<store, crossed, mixed>>
  BY DEF Start, Open, Publish, Stop, Runs
<1>2. \A c \in Runs : c # b => build'[c] = build[c]
  BY <1>1 DEF Start, Open, Publish, Stop, Shapes
<1>3. HasItAll(b)'
  <2>1. CASE Open(b)
    <3>1. /\ build'[b].contract = build[b].contract
          /\ build'[b].cached = Cached(build[b].contract.recipe)
      BY <1>1, <2>1 DEF Open, Shapes, Fields
    <3> QED
      BY <1>1, <3>1 DEF HasItAll, Cached
  <2>2. CASE Start(b)
    <3>1. build'[b].pc \in {"done", "model"}
      BY <1>1, <2>2, OverIs DEF Start, Shapes, Fields
    <3> QED
      BY <3>1 DEF HasItAll, Copies
  <2>3. CASE Publish(b) \/ Stop(b)
    <3>1. build'[b].pc = "done"
      BY <1>1, <2>3, OverIs DEF Publish, Stop, Shapes
    <3> QED
      BY <3>1 DEF HasItAll, Copies
  <2> QED
    BY <2>1, <2>2, <2>3
<1> QED
  BY <1>1, <1>2, <1>3, OneRunKeeps

(* A writing of the cache: the writer knows all of it, the others nothing.  *)
LEMMA FlushKeeps ==
  ASSUME KeepInv, NEW b \in Runs,
         NEW vectors, Flush(b, build[b].contract.recipe, vectors),
         b \in Copies, UNCHANGED mixed,
         \A c \in Runs : c # b => build'[c] = build[c],
         build'[b].pc \in {"docs", "lift", "write"} => vectors \subseteq build'[b].cached,
         build[b].cached \subseteq vectors,
         build'[b] # build[b]
  PROVE  KeepInv' /\ KeepsBut(b)
<1>1. /\ store'.vectors = vectors /\ store'.recipe = build[b].contract.recipe
      /\ \A c \in Runs : c # b /\ c \in Copies => c \in crossed'
  BY DEF Flush
<1>2. ASSUME NEW c \in Runs PROVE HasItAll(c)'
  <2>1. CASE c = b
    BY <1>1, <2>1 DEF HasItAll, Copies
  <2>2. CASE c # b
    BY <1>1, <2>2 DEF HasItAll, Copies
  <2> QED
    BY <2>1, <2>2
<1>3. ASSUME mixed = {}, store'.recipe = store.recipe, b \notin crossed
      PROVE  store.vectors \subseteq store'.vectors
  BY <1>1, <1>3 DEF KeepInv, HasItAll
<1> QED
  BY <1>2, <1>3 DEF KeepInv, KeepsBut

LEMMA NextDocKeeps ==
  ASSUME Shapes, KeepInv, NEW b \in Builders, NextDoc(b)
  PROVE  KeepInv' /\ KeepsBut(b)
<1>1. PICK n \in build[b].todo : Reuse(b, n) \/ EmbedDoc(b, n)
  BY DEF NextDoc
<1>2. CASE Reuse(b, n)
  <2>1. /\ b \in Runs /\ UNCHANGED <<store, crossed, mixed>>
        /\ \A c \in Runs : c # b => build'[c] = build[c]
        /\ build'[b].contract = build[b].contract
        /\ build'[b].cached = build[b].cached
        /\ build[b].pc = "docs"
    BY <1>2, ReuseFrame DEF Reuse
  <2>2. mixed = {} => HasItAll(b)'
    BY <2>1 DEF KeepInv, HasItAll, Copies
  <2> QED
    BY <2>1, <2>2, OneRunKeeps DEF KeepsBut
<1>3. CASE EmbedDoc(b, n)
  <2>1. /\ b \in Runs /\ UNCHANGED mixed
        /\ \A c \in Runs : c # b => build'[c] = build[c]
        /\ build[b].pc = "docs"
        /\ build'[b].contract = build[b].contract
        /\ build'[b].todo = build[b].todo \ {n}
        /\ build'[b].cached = build[b].cached \cup Fresh(b, n)
    BY <1>3, EmbedDocFrame
  <2>2. build'[b] # build[b] /\ b \in Copies
    BY <1>1, <2>1 DEF Copies
  <2>3. \/ UNCHANGED <<store, crossed>>
        \/ Flush(b, build[b].contract.recipe, build[b].cached \cup Fresh(b, n))
    BY <1>3 DEF EmbedDoc, FlushFails, Known, Fresh
  <2>4. CASE UNCHANGED <<store, crossed>>
    <3>1. mixed = {} => HasItAll(b)'
      BY <2>1, <2>2, <2>4 DEF KeepInv, HasItAll
    <3> QED
      BY <2>1, <2>4, <3>1, OneRunKeeps DEF KeepsBut
  <2>5. CASE Flush(b, build[b].contract.recipe, build[b].cached \cup Fresh(b, n))
    BY <2>1, <2>2, <2>5, FlushKeeps
  <2> QED
    BY <2>3, <2>4, <2>5
<1> QED
  BY <1>1, <1>2, <1>3

LEMMA FinishKeeps ==
  ASSUME Shapes, KeepInv, NEW b \in Builders, Finish(b)
  PROVE  KeepInv' /\ KeepsBut(b)
<1>1. /\ b \in Runs /\ UNCHANGED mixed /\ build[b].pc = "docs" /\ build'[b].pc = "publish"
      /\ \A c \in Runs : c # b => build'[c] = build[c]
      /\ \/ UNCHANGED <<store, crossed>>
         \/ Flush(b, build[b].contract.recipe, build[b].cached)
  BY FinishFrame
<1>2. build'[b] # build[b] /\ b \in Copies
  BY <1>1 DEF Copies
<1>3. CASE UNCHANGED <<store, crossed>>
  <2>1. HasItAll(b)'
    BY <1>1 DEF HasItAll, Copies
  <2> QED
    BY <1>1, <1>3, <2>1, OneRunKeeps DEF KeepsBut
<1>4. CASE Flush(b, build[b].contract.recipe, build[b].cached)
  BY <1>1, <1>2, <1>4, FlushKeeps
<1> QED
  BY <1>1, <1>3, <1>4

(* A seeding replaces a vector only by another of the same text, which is   *)
(* the same vector when it is of the same recipe.                           *)
LEMMA SeedKeeps ==
  ASSUME FullInv, KeepInv, NEW s \in Seeders, Seeds(s)
  PROVE  KeepInv' /\ KeepsBut(s)
<1>0. Shapes
  BY DEF FullInv
<1>1. CASE SeedLoad(s)
  <2>1. /\ s \in Runs /\ UNCHANGED <<store, crossed, mixed>>
        /\ \A c \in Runs : c # s => build'[c] = build[c]
        /\ build'[s].cached = Cached(build'[s].contract.recipe)
    BY <1>0, <1>1, SeedLoadFrame DEF SeedLoad
  <2>2. HasItAll(s)'
    BY <2>1 DEF HasItAll, Cached
  <2> QED
    BY <2>1, <2>2, OneRunKeeps DEF KeepsBut
<1>2. CASE SeedLift(s)
  <2>1. /\ s \in Runs /\ UNCHANGED <<store, crossed, disk>>
        /\ \A c \in Runs : c # s => build'[c] = build[c]
        /\ build[s].pc = "lift"
        /\ build'[s].contract = build[s].contract
        /\ build'[s].cached = Laid(s)
        /\ mixed \subseteq mixed'
        /\ "recipe" \notin mixed' => \A v \in Lifted : v.recipe = build[s].contract.recipe
    BY <1>0, <1>2, SeedLiftFrame DEF SeedLift
  <2>2. ASSUME mixed' = {} PROVE HasItAll(s)'
    <3>1. mixed = {} /\ HasItAll(s) /\ s \in Copies
      BY <2>1, <2>2 DEF KeepInv, Copies
    <3>2. ASSUME s \notin crossed, store.recipe = build[s].contract.recipe, NEW v \in store.vectors
          PROVE  v \in Laid(s)
      <4>1. v \in build[s].cached
        BY <3>1, <3>2 DEF HasItAll
      <4>2. v = [text |-> v.text, recipe |-> build[s].contract.recipe]
        BY <3>1, <3>2 DEF FullInv, Exact
      <4>3. CASE \A w \in Lifted : w.text # v.text
        BY <4>1, <4>3 DEF Laid
      <4>4. CASE \E w \in Lifted : w.text = v.text
        <5>1. PICK w \in Lifted : w.text = v.text
          BY <4>4
        <5>2. w = [text |-> w.text, recipe |-> w.recipe]
          BY <3>1, LiftedIsExact DEF FullInv
        <5>3. w.recipe = build[s].contract.recipe
          BY <2>1, <2>2
        <5>4. w = v
          BY <4>2, <5>1, <5>2, <5>3
        <5> QED
          BY <5>4 DEF Laid
      <4> QED
        BY <4>3, <4>4
    <3> QED
      BY <2>1, <3>2 DEF HasItAll
  <2>3. ASSUME mixed' = {}, NEW c \in Runs, c # s PROVE HasItAll(c)'
    BY <2>1, <2>3 DEF KeepInv, HasItAll, Copies
  <2> QED
    BY <2>1, <2>2, <2>3 DEF KeepInv, KeepsBut
<1>3. CASE SeedFlush(s)
  <2>1. /\ s \in Runs /\ UNCHANGED mixed /\ build[s].pc = "write"
        /\ build' = [build EXCEPT ![s] = Over]
        /\ \/ UNCHANGED <<store, crossed>>
           \/ Flush(s, build[s].contract.recipe, build[s].cached)
    BY <1>3, SeedFlushFrame
  <2>2. /\ \A c \in Runs : c # s => build'[c] = build[c]
        /\ build'[s].pc = "done"
    BY <1>0, <2>1, OverIs DEF Shapes
  <2>3. build'[s] # build[s] /\ s \in Copies
    BY <2>1, <2>2 DEF Copies
  <2>4. CASE UNCHANGED <<store, crossed>>
    <3>1. HasItAll(s)'
      BY <2>2 DEF HasItAll, Copies
    <3> QED
      BY <2>1, <2>2, <2>4, <3>1, OneRunKeeps DEF KeepsBut
  <2>5. CASE Flush(s, build[s].contract.recipe, build[s].cached)
    BY <2>1, <2>2, <2>3, <2>5, FlushKeeps
  <2> QED
    BY <2>1, <2>4, <2>5
<1> QED
  BY <1>1, <1>2, <1>3 DEF Seeds

(* What was embedded is not embedded again: whatever runs build, fail, are  *)
(* killed or seed over one cache, a vector leaves it only with a change of  *)
(* recipe or by a run that did not know of another's writing                *)
(* (vector-cache.js, index-store.js).                                       *)
THEOREM CheckpointsAreKept == BuildSpec => KeepsCheckpoints
<1> DEFINE Keeps == (store'.recipe = store.recipe /\ mixed' = {}
                 /\ ~(store.vectors \subseteq store'.vectors)) =>
                   \E b \in crossed : build'[b] # build[b]
<1>1. BuildInit => KeepInv
  BY DEF BuildInit, KeepInv, HasItAll, Copies, Idle
<1>2. FullInv /\ KeepInv /\ [BuildNext]_vars => KeepInv' /\ Keeps
  <2> SUFFICES ASSUME FullInv, KeepInv, [BuildNext]_vars PROVE KeepInv' /\ Keeps
    OBVIOUS
  <2>0. Shapes
    BY DEF FullInv
  <2>1. CASE UNCHANGED <<store, build, crossed, mixed>>
    BY <2>1 DEF KeepInv, HasItAll, Copies
  <2>2. ASSUME NEW b \in Builders, Start(b) \/ Open(b) \/ Publish(b) \/ Stop(b)
        PROVE  KeepInv' /\ Keeps
    BY <2>0, <2>2, StartOpenKeep
  <2>3. CASE \E f \in Files : Edit(f) \/ Delete(f)
    BY <2>1, <2>3 DEF Edit, Delete, Edited
  <2>4. CASE NewPolicy
    <3>1. mixed' # {}
      BY <2>4 DEF NewPolicy
    <3> QED
      BY <3>1 DEF KeepInv
  <2>5. ASSUME NEW b \in Builders, NextDoc(b) \/ Finish(b) PROVE KeepInv' /\ Keeps
    BY <2>0, <2>5, NextDocKeeps, FinishKeeps DEF KeepsBut
  <2>6. ASSUME NEW s \in Seeders, Seeds(s) PROVE KeepInv' /\ Keeps
    BY <2>6, SeedKeeps DEF KeepsBut
  <2> QED
    BY <2>1, <2>2, <2>3, <2>4, <2>5, <2>6 DEF BuildNext, Seeds, vars
<1> QED
  BY BuildFull, <1>1, <1>2, PTL DEF BuildSpec, KeepsCheckpoints
=============================================================================
