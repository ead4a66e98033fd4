------------------------------- MODULE Passages -------------------------------
(***************************************************************************)
(* The text of a document on its way through the index: cut into chunks    *)
(* that overlap and put together again (lib/embed.js), counted for the     *)
(* weight of a term (lib/bm25.js), and searched for the passage that has   *)
(* the words of a question side by side (lib/lexical.js).                  *)
(*                                                                         *)
(* A text is a sequence of words and a word is its term.                   *)
(***************************************************************************)
EXTENDS Lists, SequencesExt

CONSTANTS
  ChunkWords,    \* EMBEDDING.chunkWords
  ChunkOverlap,  \* EMBEDDING.chunkOverlapWords
  BackPerTerm,   \* how far a window reaches back: so many hits for each term
  BackExtra      \* of the question, and so many more

ASSUME PassageAssumption ==
  /\ ChunkWords \in Nat \ {0}
  /\ ChunkOverlap \in 0..(ChunkWords - 1)
  /\ {BackPerTerm, BackExtra} \subseteq Nat \ {0}

-----------------------------------------------------------------------------
(* chunkBody: windows of ChunkWords, until one reaches the end. *)
Step == Max({1, ChunkWords - ChunkOverlap})
ChunkBody(words) ==
  LET n == Len(words)
      from(k) == Step * (k - 1)
      last == Min({k \in 1..n : from(k) + ChunkWords >= n})
  IN IF words = <<>> THEN <<>>
     ELSE [k \in 1..last |-> SubSeq(words, from(k) + 1, Min({n, from(k) + ChunkWords}))]

(* Mutant: every chunk but the first adds all that a step covers. *)
UnchunkByStep(chunks) ==
  Joined([k \in DOMAIN chunks |->
    LET n == Len(chunks[k])
    IN IF k = 1 THEN chunks[k] ELSE SubSeq(chunks[k], Max({1, n - Step + 1}), n)])

(* unchunkBody: a chunk no longer than the overlap adds nothing. *)
UnchunkBody(chunks) ==
  Joined([k \in DOMAIN chunks |->
    IF k = 1 THEN chunks[k] ELSE SubSeq(chunks[k], ChunkOverlap + 1, Len(chunks[k]))])

-----------------------------------------------------------------------------
(* bestWindow, with a score of distinct^3 / (wanted^2 * span). *)
HitsOf(words, wanted) ==
  LET at == Ascending({i \in DOMAIN words : words[i] \in wanted})
  IN SubSeq([k \in DOMAIN at |-> [at |-> at[k], term |-> words[at[k]]]], 1, Len(at))

Window(hits, l, r) == [distinct |-> Cardinality({hits[i].term : i \in l..r}),
                       span |-> hits[r].at - hits[l].at + 1,
                       from |-> hits[l].at, to |-> hits[r].at]
NoWindow == [distinct |-> 0, span |-> 1, from |-> 0, to |-> 0]

Cubed(n) == n * n * n
Better(w, v) == Cubed(w.distinct) * v.span > Cubed(v.distinct) * w.span

(* No window further left can win: full coverage at this span would not.    *)
Hopeless(w, best, n) == Cubed(n) * best.span <= Cubed(best.distinct) * w.span

(* Of windows and the best so far, the first that is better than all before *)
(* it and than which none is better.                                        *)
BestOf(windows, best) ==
  LET winners == {k \in DOMAIN windows : /\ Better(windows[k], best)
                                         /\ \A j \in DOMAIN windows : ~Better(windows[j], windows[k])}
  IN IF winners = {} THEN best ELSE windows[Min(winners)]

(* The walk back from the hit r, with the best window so far. *)
MaxBack(hits, n) == Min({Len(hits), BackPerTerm * n + BackExtra})
WalkBack(hits, r, best, n) ==
  LET back == Min({r, MaxBack(hits, n)})
      windows(k) == [i \in 1..k |-> Window(hits, r - i + 1, r)]
      over(k) == k = back \/ Hopeless(Window(hits, r - k + 1, r), BestOf(windows(k), best), n)
  IN BestOf(windows(Min({k \in 1..back : over(k)})), best)

(* A phrase needs two words. *)
BestWindow(words, wanted) ==
  LET hits == HitsOf(words, wanted)
      n == Cardinality(wanted)
      best[r \in 0..Len(hits)] == IF r = 0 THEN NoWindow ELSE WalkBack(hits, r, best[r - 1], n)
  IN IF n < 2 THEN NoWindow ELSE best[Len(hits)]

(* What it is to find: a window from hit to hit, of which none is better    *)
(* but one of more hits than a walk visits.                                 *)
IsBestWindow(w, words, wanted) ==
  LET hits == HitsOf(words, wanted)
      n == Cardinality(wanted)
  IN IF n < 2 \/ hits = <<>> THEN w = NoWindow
     ELSE /\ \E r \in DOMAIN hits : \E l \in 1..r : w = Window(hits, l, r)
          /\ \A r \in DOMAIN hits : \A l \in 1..r :
               Better(Window(hits, l, r), w) => r - l >= BackPerTerm * n + BackExtra

-----------------------------------------------------------------------------
(* buildBm25 and queryTermStats. A document of an index has a file, which   *)
(* its sections share, and a set of terms.                                  *)
FilesOf(docs) == {docs[i].file : i \in DOMAIN docs}
Posting(docs, term) == {i \in DOMAIN docs : term \in docs[i].terms}

(* Mutant: every entry of the index counts. *)
DfOfEntries(docs, term) == Cardinality(Posting(docs, term))

(* dfOfModel: documents are counted by file. *)
DfOf(docs, term) == Cardinality({docs[i].file : i \in Posting(docs, term)})

(* The idf of a term is made of these two numbers. An absent term is not an *)
(* orphan if it is the compound of one that is present, or a part of it.    *)
TermStats(docs, question, Compounds) ==
  LET absent == {t \in question : Posting(docs, t) = {}}
      related(t, o) == {t, o} \in Compounds
  IN [documents |-> Cardinality(FilesOf(docs)),
      df |-> [t \in question |-> DfOf(docs, t)],
      absent |-> absent,
      orphans |-> {t \in absent : \A o \in question \ absent : ~related(t, o)}]
=============================================================================
