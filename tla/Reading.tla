-------------------------------- MODULE Reading --------------------------------
(***************************************************************************)
(* How a large document is indexed by its sections (lib/section-docs.js)   *)
(* and read again, whole, by a section or in slices (get, tools/memory.js).*)
(* The two find the sections of a text each in its own way.                *)
(*                                                                         *)
(* A body is a sequence of lines: text, a fence of code of some mark, or   *)
(* a heading with a level and a title, a sequence of words.  Lengths are   *)
(* counted in lines.                                                       *)
(***************************************************************************)
EXTENDS Lists, SequencesExt

CONSTANTS
  MinBody,       \* MEMORY_SECTION_MIN_BYTES
  MinSections,   \* MEMORY_SECTION_MIN_COUNT
  MinSection,    \* MIN_SECTION_BYTES
  KeepVersions,  \* MEMORY_SECTION_KEEP_VERSIONS
  Versioned,     \* words that are a version, with its number, from 1
  StaleMark,     \* the word by which an author marks a section stale
  Signs,         \* words of which a name keeps nothing
  StubHeadings,  \* how many of its headings a stub keeps
  StubWords,     \* words that a stub has of its own
  Unnamed        \* no heading, no mark

ASSUME ReadingAssumption ==
  /\ {MinBody, MinSections, MinSection} \subseteq Nat \ {0}
  /\ {KeepVersions, StubHeadings} \subseteq Nat
  /\ DOMAIN Versioned \cap (Signs \cup Nat) = {}
  /\ \A w \in DOMAIN Versioned : Versioned[w] \in Nat \ {0}

IsFence(line) == line.kind = "fence"
IsHeading(line) == line.kind = "heading"

-----------------------------------------------------------------------------
(* splitSections: at headings of the second level, if the fences before     *)
(* are even in number.                                                      *)
FencesBefore(body, i) == Cardinality({j \in 1..(i - 1) : IsFence(body[j])})

SectionStarts(body) ==
  {i \in DOMAIN body : IsHeading(body[i]) /\ body[i].level = 2 /\ FencesBefore(body, i) % 2 = 0}

SplitSections(body) ==
  LET starts == Ascending(SectionStarts(body))
      end(k) == IF k < Len(starts) THEN starts[k + 1] ELSE Len(body) + 1
      sections == [k \in DOMAIN starts |-> [title |-> body[starts[k]].title,
                                            text |-> SubSeq(body, starts[k], end(k) - 1)]]
  IN Only(sections, {k \in DOMAIN starts : Len(sections[k].text) >= MinSection})

Eligible(body) == Len(body) >= MinBody /\ Len(SplitSections(body)) >= MinSections

(* slugifyHeading, and an ordinal for a name that was used. *)
Slug(title) == Only(title, {k \in DOMAIN title : title[k] \notin Signs})
NameOf(secs, k) ==
  LET slug(j) == Slug(secs[j].title)
      n == Cardinality({j \in 1..k : slug(j) = slug(k)})
  IN IF n > 1 THEN Append(slug(k), n) ELSE slug(k)

(* versionOf: the first that is one; 0, if there is none. *)
VersionOf(title) ==
  LET at == {k \in DOMAIN title : title[k] \in DOMAIN Versioned}
  IN IF at = {} THEN 0 ELSE Versioned[title[Min(at)]]

(* assignSectionTiers: the newest versions keep their tier. *)
TierOf(secs, k) ==
  LET version(j) == VersionOf(secs[j].title)
      before(i) == {j \in DOMAIN secs : \/ version(j) > version(i)
                                        \/ version(j) = version(i) /\ j < i}
      keep == {NameOf(secs, i) : i \in {i \in DOMAIN secs : /\ version(i) # 0
                                                            /\ Cardinality(before(i)) < KeepVersions}}
  IN IF \/ StaleMark \in ToSet(secs[k].title)
        \/ version(k) # 0 /\ NameOf(secs, k) \notin keep
     THEN "archive" ELSE "hot"

(* withSectionDocs: the sections, then a stub of the document. *)
DocsOf(body) ==
  LET secs == SplitSections(body)
      child(k) == [name |-> NameOf(secs, k), heading |-> secs[k].title,
                   tier |-> TierOf(secs, k), text |-> secs[k].text]
      whole == [name |-> Unnamed, heading |-> Unnamed, tier |-> "hot", text |-> body]
  IN IF Eligible(body)
     THEN Append([k \in DOMAIN secs |-> child(k)], [whole EXCEPT !.text = <<>>])
     ELSE <<whole>>

(* The terms of a line, for buildBm25: a line of text is a set of words, a  *)
(* fence has none.                                                          *)
TermsOf(line) == CASE line.kind = "text" -> line.words
                   [] IsHeading(line) -> ToSet(line.title)
                   [] OTHER -> {}
WordsOf(text) == UNION {TermsOf(text[i]) : i \in DOMAIN text}

(* One list of words is a part of another. *)
Within(wanted, title) == \E i \in 0..(Len(title) - Len(wanted)) :
                           SubSeq(title, i + 1, i + Len(wanted)) = wanted

(* The headings of a stub: the first of those, in a fence or not, in which  *)
(* there is no section's.                                                   *)
StubTitles(body) ==
  LET secs == SplitSections(body)
      free == Only(body, {i \in DOMAIN body :
                IsHeading(body[i]) /\ \A k \in DOMAIN secs : ~Within(secs[k].title, body[i].title)})
  IN SubSeq(free, 1, Min({StubHeadings, Len(free)}))

(* The entries of a file in the index, with the terms they are found by. A  *)
(* section has the name of the document, but not its description.           *)
WholeEntry(file) ==
  [file |-> file.id, terms |-> file.named \cup file.described \cup WordsOf(file.body)]
Entries(file) ==
  LET secs == SplitSections(file.body)
      entry(words) == [file |-> file.id, terms |-> file.named \cup words]
  IN IF Eligible(file.body)
     THEN Append([k \in DOMAIN secs |-> entry(ToSet(secs[k].title) \cup WordsOf(secs[k].text))],
                 entry(file.described \cup StubWords \cup WordsOf(StubTitles(file.body))))
     ELSE <<WholeEntry(file)>>

(* The words of the lines that are in no section of a split document: those *)
(* before the first, and those of a stretch that is too short to be one.    *)
InSection(body, i) ==
  \E j \in SectionStarts(body) :
    /\ j <= i
    /\ SectionStarts(body) \cap ((j + 1)..i) = {}
    /\ (j + 1)..(j + MinSection - 1) \subseteq DOMAIN body \ SectionStarts(body)
LeftOut(file) ==
  IF Eligible(file.body)
  THEN WordsOf(Only(file.body, {i \in DOMAIN file.body : ~InSection(file.body, i)}))
  ELSE {}

-----------------------------------------------------------------------------
(* Headings at some lines of a body: a section reaches to the next heading  *)
(* of its level or above it.                                                *)
HeadingsAt(body, at) ==
  LET after(i) == {j \in at : j > i /\ body[j].level <= body[i].level}
      heading(i) == [level |-> body[i].level, title |-> body[i].title,
                     text |-> SubSeq(body, i, Min({Len(body) + 1} \cup after(i)) - 1)]
      lines == Ascending(at)
  IN [k \in DOMAIN lines |-> heading(lines[k])]

(* Mutant: every heading counts, in a fence or not. *)
HeadingsUnfenced(body) == HeadingsAt(body, {i \in DOMAIN body : IsHeading(body[i])})

(* The mark of the fence that is open after a line. *)
Fenced(open, line) ==
  CASE ~IsFence(line) -> open
    [] IsFence(line) /\ open = Unnamed -> line.mark
    [] OTHER -> IF line.mark = open THEN Unnamed ELSE open

(* _headingsOf: a fence is closed by one of its own mark only. *)
Headings(body) ==
  LET open[i \in 0..Len(body)] == IF i = 0 THEN Unnamed ELSE Fenced(open[i - 1], body[i])
  IN HeadingsAt(body, {i \in DOMAIN body : IsHeading(body[i]) /\ open[i - 1] = Unnamed})

(* _sectionOf: those with the title, then those that begin with what is     *)
(* wanted, then those that have it within; the first of them is the answer. *)
SectionOf(body, wanted) ==
  LET heads == Headings(body)
  IN Only(heads, {k \in DOMAIN heads : heads[k].title = wanted})
     \o Only(heads, {k \in DOMAIN heads : IsPrefix(wanted, heads[k].title)})
     \o Only(heads, {k \in DOMAIN heads : Within(wanted, heads[k].title)})

(* resolveDoc: the first of that name; if it is none, it is the name of the *)
(* file, which the sections of a document have in common with it.           *)
ResolveDoc(docs, want) ==
  LET named == {n \in DOMAIN docs : docs[n].name = want}
  IN docs[IF named # {} THEN Min(named) ELSE 1]

Slice(body, from, cap) == SubSeq(body, from + 1, Min({Len(body), from + cap}))

(* get: the name of a section asks for the section. *)
Get(docs, body, asked) ==
  LET section == IF asked.section = Unnamed THEN ResolveDoc(docs, asked.name).heading
                 ELSE asked.section
      found == SectionOf(body, section)
      slice == Slice(body, asked.offset, asked.maxChars)
      view(mode, text, truncated) == [mode |-> mode, body |-> text, truncated |-> truncated]
  IN CASE asked.outline -> view("outline", <<>>, FALSE)
       [] ~asked.outline /\ section # Unnamed ->
            view("section", IF found = <<>> THEN <<>> ELSE found[1].text, FALSE)
       [] OTHER ->
            IF Len(body) > asked.maxChars \/ asked.offset > 0
            THEN view("slice", slice, asked.offset + Len(slice) < Len(body))
            ELSE view("full", body, FALSE)

-----------------------------------------------------------------------------
(* What a reader does. *)

(* To ask for no more than the name. *)
GetByName(docs, body, name) ==
  Get(docs, body, [name |-> name, section |-> Unnamed, outline |-> FALSE, offset |-> 0,
                   maxChars |-> Len(body) + 1])

(* To read on from the end of each slice while there is more. *)
ReadOn(docs, body, maxChars) ==
  LET read[from \in 0..Len(body)] ==
        LET v == Get(docs, body, [name |-> Unnamed, section |-> Unnamed, outline |-> FALSE,
                                  offset |-> from, maxChars |-> maxChars])
        IN IF v.truncated THEN v.body \o read[from + Len(v.body)] ELSE v.body
  IN read[0]

(* The two ways to find the sections of a body come to the same if no title *)
(* is repeated, no heading of the first level follows one of the second,    *)
(* and fences are of one mark.                                              *)
Plain(body) ==
  LET heads == Headings(body)
  IN /\ \A k, j \in DOMAIN heads : k # j => heads[k].title # heads[j].title
     /\ \A k, j \in DOMAIN heads : k < j /\ heads[k].level = 2 => heads[j].level # 1
     /\ \A i, j \in DOMAIN body : IsFence(body[i]) /\ IsFence(body[j]) => body[i].mark = body[j].mark
================================================================================
