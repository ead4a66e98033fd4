-------------------------------- MODULE Ranking --------------------------------
(***************************************************************************)
(* From the scores of its documents to a page of answers, or to "I have no *)
(* memory of that" (search and absenceVerdict in lib/search.js,            *)
(* lib/graph-spread.js, lib/absence-floors.js).                            *)
(*                                                                         *)
(* The scores of the three legs, of keywords, meaning and phrase, are      *)
(* given in hundredths; the score of a row counts in ten thousandths, to   *)
(* which the code rounds it.  A question has its words' coverage and the   *)
(* share of its orphans, in hundredths too.                                *)
(***************************************************************************)
EXTENDS Lists, FiniteSetsExt

CONSTANTS
  RerankSet,  \* RETRIEVAL.rerankSet
  SpreadFrom  \* how many rows give to their neighbours

ASSUME RankingAssumption == {RerankSet, SpreadFrom} \subseteq Nat

(* RETRIEVAL, the weights and the floors. *)
Fuse == [keyword |-> 42, semantic |-> 42, phrase |-> 16, phraseFloor |-> 35]
Boost == [archive |-> 100, hot |-> 115, indexed |-> 125]
Floors == [score |-> 3800, phrase |-> 40, coverage |-> 20, orphan |-> 40, weak |-> 3]
SpreadAlpha == 10
SpreadGate == 20

Smaller(m, n) == IF m < n THEN m ELSE n
Larger(m, n) == IF m > n THEN m ELSE n
First(rows, n) == SubSeq(rows, 1, Smaller(n, Len(rows)))

(* A stable sort by score, best first. *)
BestFirst(rows) ==
  LET better == {p \in (DOMAIN rows) \X (DOMAIN rows) :
                   \/ rows[p[1]].score > rows[p[2]].score
                   \/ rows[p[1]].score = rows[p[2]].score /\ p[1] < p[2]}
      at == Listed(DOMAIN rows, better)
  IN [k \in DOMAIN rows |-> rows[at[k]]]

-----------------------------------------------------------------------------
(* The fused score of a document. *)
PhrasePart(phrase) ==
  IF phrase > Fuse.phraseFloor
  THEN ((phrase - Fuse.phraseFloor) * 100) \div (100 - Fuse.phraseFloor) ELSE 0

Base(doc, phrase, dense) ==
  IF dense THEN Fuse.keyword * doc.keyword + Fuse.semantic * doc.semantic
                + Fuse.phrase * PhrasePart(phrase)
  ELSE 100 * doc.keyword

(* What can be ranked at all: asked for, and with some evidence. *)
Candidates(docs, asked) ==
  Only(docs, {n \in DOMAIN docs : /\ asked.archive \/ docs[n].tier # "archive"
                                  /\ Base(docs[n], 0, asked.dense) > 0})

(* Pass 1 ranks without phrases; pass 2 has the phrase of the first of it.  *)
PhraseOf(doc, n, asked) == IF n <= Larger(RerankSet, asked.limit) THEN doc.phrase ELSE 0

Row(doc, phrase, asked) ==
  [name |-> doc.name, file |-> doc.file, tier |-> doc.tier, semantic |-> doc.semantic,
   phrase |-> phrase, score |-> (Base(doc, phrase, asked.dense) * Boost[doc.tier]) \div 100]

Scored(docs, asked) ==
  LET found == Candidates(docs, asked)
      pass1 == BestFirst([n \in DOMAIN found |-> [doc |-> found[n], score |-> Base(found[n], 0, asked.dense)]])
  IN BestFirst([n \in DOMAIN pass1 |-> Row(pass1[n].doc, PhraseOf(pass1[n].doc, n, asked), asked)])

TopPhrase(rows) == Max({0} \cup {rows[n].phrase : n \in DOMAIN rows})

-----------------------------------------------------------------------------
(* capPerDocument: no more than so many rows of one file. *)
CapPerDocument(rows, cap) ==
  LET earlier(n) == Cardinality({m \in 1..(n - 1) : rows[m].file = rows[n].file})
  IN Only(rows, {n \in DOMAIN rows : earlier(n) < cap})

ArchiveShare(limit) == Larger(1, limit \div 2)

(* The rows within the share of the archive, were there no end to the page. *)
WithinShare(rows, limit) ==
  LET archived(n) == {m \in 1..n : rows[m].tier = "archive"}
  IN {n \in DOMAIN rows : rows[n].tier = "archive" =>
                             Cardinality(archived(n)) <= ArchiveShare(limit)}

(* Mutant: what is held back is dropped. *)
CapArchiveShareForGood(rows, limit) == First(Only(rows, WithinShare(rows, limit)), limit)

(* capArchiveShare: archive rows beyond their share are held back, and      *)
(* given what is left of the page.                                          *)
CapArchiveShare(rows, limit) ==
  LET direct == WithinShare(rows, limit)
  IN First(Only(rows, direct) \o Only(rows, DOMAIN rows \ direct), limit)

(* shapeRows: a library's sections are evidence of their own. *)
Page(rows, asked) ==
  CapArchiveShare(CapPerDocument(rows, IF asked.library THEN Len(rows) ELSE 1), asked.limit)

-----------------------------------------------------------------------------
(* applyGraphSpread: a single hop along the links of the first rows, onto   *)
(* rows that the question reached and that mean something like it. Links    *)
(* are pairs, for backlinks count too.                                      *)
Lift(rows, n, links) ==
  LET donates(m) == m # n /\ {rows[m].name, rows[n].name} \in links
      amount == [m \in DOMAIN First(rows, SpreadFrom) |->
                   IF donates(m) THEN (SpreadAlpha * rows[m].score) \div 100 ELSE 0]
  IN IF rows[n].semantic < SpreadGate THEN 0 ELSE Total(amount)

Spread(rows, links) ==
  BestFirst([n \in DOMAIN rows |-> [rows[n] EXCEPT !.score = @ + Lift(rows, n, links)]])

-----------------------------------------------------------------------------
(* absenceVerdict. *)

(* A phrase counts by how much of the question its words cover. *)
EffectivePhrase(phrase, coverage) ==
  IF coverage < Floors.coverage THEN (phrase * coverage) \div Floors.coverage ELSE phrase

ByVocabulary(phrase, asked) ==
  asked.orphans >= Floors.orphan /\ EffectivePhrase(phrase, asked.coverage) < Floors.phrase
ByEvidence(top, phrase, asked) ==
  /\ top.score < Floors.score
  /\ EffectivePhrase(phrase, asked.coverage) < Floors.phrase
  /\ asked.coverage < Floors.coverage

Verdict(page, phrase, asked) ==
  CASE page = <<>> -> [absent |-> TRUE, confidence |-> "none", weak |-> <<>>]
    [] page # <<>> /\ ~asked.dense -> [absent |-> FALSE, confidence |-> "unrated", weak |-> <<>>]
    [] OTHER ->
         IF ByVocabulary(phrase, asked) \/ ByEvidence(page[1], phrase, asked)
         THEN [absent |-> TRUE, confidence |-> "low", weak |-> First(page, Floors.weak)]
         ELSE [absent |-> FALSE, weak |-> <<>>,
               confidence |-> IF page[1].score >= Floors.score THEN "high" ELSE "medium"]

(* Mutant: judged on what the reader will see. *)
JudgedOnSpread(before, after) == after

(* The ranking that is judged is the one before the spread. *)
Judged(before, after) == before

(* search: the rows it answers with, and its verdict. *)
Search(docs, asked, links) ==
  LET scored == Scored(docs, asked)
      before == Page(scored, asked)
      after == Page(Spread(scored, links), asked)
      verdict == Verdict(Judged(before, after), TopPhrase(scored), asked)
  IN [verdict |-> verdict, rows |-> IF verdict.absent THEN <<>> ELSE after]

-----------------------------------------------------------------------------
(* What a page must be, of the rows the cap per document leaves, best       *)
(* first: as long as it can be; of the hot and of the archived rows the     *)
(* best; and a row is left out for a worse one only if it is archived and   *)
(* the archive has its share.                                               *)
IsBestPage(page, rows, limit) ==
  LET shown == {n \in DOMAIN rows : \E k \in DOMAIN page : page[k] = rows[n]}
      left == DOMAIN rows \ shown
      archived(S) == {n \in S : rows[n].tier = "archive"}
  IN /\ Len(page) = Smaller(limit, Len(rows))
     /\ Cardinality(shown) = Len(page)
     /\ page # <<>> => page[1] = rows[1]
     /\ \A n \in left, m \in shown :
          n < m => /\ rows[n].tier = "archive" /\ rows[m].tier # "archive"
                   /\ Cardinality(archived(shown)) >= ArchiveShare(limit)
     /\ Cardinality(archived(shown)) > ArchiveShare(limit) => left = archived(left)

(* Documents with all of their entries archived or none of them. *)
OfOneKind(docs) ==
  \A i, j \in DOMAIN docs :
    docs[i].file = docs[j].file => (docs[i].tier = "archive" <=> docs[j].tier = "archive")
================================================================================
