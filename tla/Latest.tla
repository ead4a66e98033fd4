-------------------------------- MODULE Latest --------------------------------
(***************************************************************************)
(* "What is the last word on this?", asked of one corpus (lib/search.js).   *)
(*                                                                         *)
(* People and captures write files, other processes rebuild the index, and *)
(* a question is answered from an index that may not have read them all.   *)
(* The answer must then not claim more than it has looked at: it may call  *)
(* its first row the last word, report a term as absent, or a premise as   *)
(* unsupported, only with what the stat pass knows of the unread files.    *)
(*                                                                         *)
(* A question has two steps, for the corpus moves while git is asked about *)
(* the rows (attachCommits): the index and the stat pass are from the      *)
(* first, the unread files are opened in the second.  A text is the set of *)
(* terms in it.  Module IndexServer has the races of an inline rebuild,    *)
(* which is one step here.                                                 *)
(***************************************************************************)
EXTENDS Naturals, FiniteSets, FiniteSetsExt

CONSTANTS
  NFiles,     \* how many names of files there are; listed in this order
  Terms,      \* what is asked for
  Titled,     \* pairs of a file and a term in its name
  Summaries,  \* the files that are compaction summaries
  Label,      \* the account or project of each file, None if unlabelled
  Wanted,     \* what a caller may filter by, None for no filter
  MaxNamed,   \* MAX_NAMED, how many stale names of each kind are shown
  MaxScan,    \* STALE_SCAN_MAX_FILES
  MaxWrites,  \* bound: how often the corpus changes
  None

Files == 1..NFiles

ASSUME LatestAssumption ==
  /\ NFiles \in Nat
  /\ Titled \subseteq Files \X Terms
  /\ Summaries \subseteq Files
  /\ {MaxNamed, MaxScan, MaxWrites} \subseteq Nat

VARIABLES
  live,      \* the corpus: per file its text, mtime and the time it speaks of
  clock,     \* the time of the newest change
  writes,    \* how many there were
  index,     \* the index, a corpus as it was
  statPass,  \* STAT_CACHE: the mtimes of the last pass while young, or None
  question   \* the question under way, or just answered

latestVars == <<live, clock, writes, index, statPass, question>>

Present(files) == {f \in Files : files[f] # None}
Times(files) == [f \in Files |-> IF files[f] = None THEN 0 ELSE files[f].at]

NoQuestion == [pc |-> "none"]

(* An answer is looked at in the state that gives it. *)
MovesOn == question' = IF question.pc = "answered" THEN NoQuestion ELSE question

-----------------------------------------------------------------------------
(* The stat pass against the index (checkStaleness). *)
Added(idx, pass) == {f \in Files : pass[f] # 0 /\ idx[f] = None}
Changed(idx, pass) == {f \in Files : pass[f] # 0 /\ idx[f] # None /\ idx[f].at # pass[f]}
Removed(idx, pass) == {f \in Files : pass[f] = 0 /\ idx[f] # None}
Stale(idx, pass) == Added(idx, pass) \cup Changed(idx, pass) \cup Removed(idx, pass) # {}

(* The names of these files that a caller is shown, the first ones. *)
Shown(S) == {f \in S : Cardinality({g \in S : g < f}) < MaxNamed}

(* Mutant: the newest of the files that are shown. *)
NewestOfShown(stamp) ==
  LET unread == Shown(stamp.added) \cup Shown(stamp.changed)
  IN Max({0} \cup {stamp.pass[f] : f \in unread})

(* staleNewestMs *)
NewestUnread(stamp) == Max({0} \cup {stamp.pass[f] : f \in stamp.added \cup stamp.changed})

(* Mutant: what has changed has been read once. *)
ToScanAddedOnly(stamp) == stamp.added

(* _staleScan: what has changed, before what was added *)
ToScan(stamp) == stamp.changed \cup stamp.added
ScannedBefore(stamp, f, g) ==
  IF f \in stamp.changed <=> g \in stamp.changed THEN f < g ELSE f \in stamp.changed

StampOf(idx, pass) == [stale |-> Stale(idx, pass), added |-> Added(idx, pass),
                       changed |-> Changed(idx, pass), pass |-> pass]

-----------------------------------------------------------------------------
(* Which documents match. *)
InTitle(f) == {t \in Terms : <<f, t>> \in Titled}
Hay(f, doc) == doc.text \cup InTitle(f)

(* resolveFilters: an unlabelled memory is never filtered out. *)
Passes(f, want) == want = None \/ Label[f] = None \/ Label[f] = want

Matching(idx, q, want) ==
  {f \in Present(idx) : Passes(f, want) /\ Hay(f, idx[f]) \cap q # {}}
Hits(idx, q, want) == {f \in Matching(idx, q, want) : q \subseteq Hay(f, idx[f])}

(* The relaxed fallback: those with the most terms. *)
Partial(idx, q, want) ==
  LET n(f) == Cardinality(Hay(f, idx[f]) \cap q)
  IN {f \in Matching(idx, q, want) : \A g \in Matching(idx, q, want) : n(g) <= n(f)}

Relaxed(idx, q, want) == Hits(idx, q, want) = {} /\ Cardinality(q) > 1

NewestFirst(idx, f, g) == \/ idx[f].said > idx[g].said
                          \/ (idx[f].said = idx[g].said /\ f < g)

(* Primary sources first, then summaries. *)
Ordered(idx, f, g) ==
  IF f \in Summaries <=> g \in Summaries THEN NewestFirst(idx, f, g) ELSE g \in Summaries

Rows(idx, q, want) == IF Relaxed(idx, q, want) THEN Partial(idx, q, want) ELSE Hits(idx, q, want)

(* results[0] *)
FirstRow(idx, rows) == CHOOSE f \in rows : \A g \in rows \ {f} : Ordered(idx, f, g)

(* df = 0, over the documents the filter lets through. *)
Unmatchable(idx, q, want) ==
  {t \in q : \A f \in Matching(idx, q, want) : t \notin Hay(f, idx[f])}

-----------------------------------------------------------------------------
(* What is looked for in the unread files. *)

(* staleTermCollision: a term in a name that is shown. *)
Collides(stamp, terms) ==
  \E f \in Shown(stamp.added) \cup Shown(stamp.changed) : InTitle(f) \cap terms # {}

(* staleContentScan: the terms found in the files it opens. *)
Opened(stamp) ==
  {f \in ToScan(stamp) : Cardinality({g \in ToScan(stamp) : ScannedBefore(stamp, g, f)}) < MaxScan}
Found(stamp, terms, files) ==
  {t \in terms : \E f \in Opened(stamp) \cap Present(files) : t \in files[f].text}
Truncated(stamp, terms) == terms # {} /\ Cardinality(ToScan(stamp)) > MaxScan

-----------------------------------------------------------------------------
(* The answer, from the index and stamp of the first step and the files of  *)
(* the second.                                                              *)
Answered(asked, files) ==
  LET idx == asked.idx
      stamp == asked.stamp
      rows == Rows(idx, asked.q, asked.want)
      relaxed == Relaxed(idx, asked.q, asked.want)
      missing == Unmatchable(idx, asked.q, asked.want)
      collision == Collides(stamp, missing)
      newest == idx[FirstRow(idx, rows)].said
      void == stamp.stale /\ rows # {} /\ NewestUnread(stamp) > newest
  IN [asked EXCEPT
        !.pc = "answered",
        !.claim = CASE rows = {} -> "none" [] void -> "void" [] OTHER -> "last",
        !.top = IF rows = {} THEN 0 ELSE newest,
        !.supported = rows # {} /\ ~relaxed,
        !.missing = missing,
        !.warned = collision,
        !.found = IF collision THEN {} ELSE Found(stamp, missing, files),
        !.cut = ~collision /\ Truncated(stamp, missing)]

Asked(q, want, idx, stamp) ==
  [pc |-> "ranked", q |-> q, want |-> want, idx |-> idx, stamp |-> stamp,
   claim |-> "none", top |-> 0, supported |-> FALSE, missing |-> {},
   warned |-> FALSE, found |-> {}, cut |-> FALSE,
   then |-> live]    \* for the properties: the corpus when it was asked

(* latest, up to attachCommits: check, and either rebuild or say so. *)
Ask(q, want) ==
  /\ question.pc = "none"
  /\ LET pass == IF statPass = None THEN Times(live) ELSE statPass
     IN \/ /\ statPass' = pass
           /\ question' = Asked(q, want, index, StampOf(index, pass))
           /\ UNCHANGED index
        \/ /\ Stale(index, pass)
           /\ index' = live
           /\ statPass' = None
           /\ question' = Asked(q, want, live, StampOf(live, Times(live)))
  /\ UNCHANGED <<live, clock, writes>>

Answer ==
  /\ question.pc = "ranked"
  /\ question' = Answered(question, live)
  /\ UNCHANGED <<live, clock, writes, index, statPass>>

-----------------------------------------------------------------------------
(* The world. A file speaks of a time no later than its writing, and two    *)
(* changes of one file have different times.                                *)
Write(f) ==
  /\ writes < MaxWrites
  /\ writes' = writes + 1
  /\ \E text \in SUBSET Terms, now \in {clock, clock + 1} :
       \E said \in 1..now :
         /\ Times(live)[f] # now
         /\ live' = [live EXCEPT ![f] = [text |-> text, at |-> now, said |-> said]]
         /\ clock' = now
  /\ MovesOn
  /\ UNCHANGED <<index, statPass>>

Delete(f) ==
  /\ writes < MaxWrites
  /\ writes' = writes + 1
  /\ live[f] # None
  /\ live' = [live EXCEPT ![f] = None]
  /\ clock' = clock + 1
  /\ MovesOn
  /\ UNCHANGED <<index, statPass>>

(* Another process has rebuilt the index; this one loads it when asked. *)
Rebuild ==
  /\ index # live
  /\ index' = live
  /\ MovesOn
  /\ UNCHANGED <<live, clock, writes, statPass>>

(* The stat pass is no longer young. *)
Expire ==
  /\ statPass # None
  /\ statPass' = None
  /\ MovesOn
  /\ UNCHANGED <<live, clock, writes, index>>

LatestInit ==
  /\ \E text \in SUBSET Terms :
       live = [f \in Files |-> IF f = 1 THEN [text |-> text, at |-> 1, said |-> 1] ELSE None]
  /\ clock = 1
  /\ writes = 0
  /\ index = live
  /\ statPass = None
  /\ question = NoQuestion

LatestNext == \/ \E q \in (SUBSET Terms) \ {{}}, want \in Wanted : Ask(q, want)
              \/ Answer
              \/ \E f \in Files : Write(f) \/ Delete(f)
              \/ Rebuild
              \/ Expire

LatestSpec == LatestInit /\ [][LatestNext]_latestVars
-----------------------------------------------------------------------------
(* Properties. *)

(* The files the stat pass has seen as they were when it was asked. *)
SeenAsIs(a) == {f \in Present(a.then) : a.stamp.pass[f] = a.then[f].at}

(* When the first row is called the last thing said, no first-hand file     *)
(* with all the terms speaks of a later time, read or unread, as far as the *)
(* stat pass has seen the files (search.js 2232-2262, 2286).                *)
LastWordIsLast ==
  LET answer == question
  IN answer.pc = "answered" /\ answer.claim = "last" /\ answer.supported =>
       \A f \in SeenAsIs(answer) \ Summaries :
         Passes(f, answer.want) /\ answer.q \subseteq Hay(f, answer.then[f]) => answer.then[f].said <= answer.top

(* A term in the text of an unread file is not reported as absent without   *)
(* saying that the index is stale and that the term is there, or that a     *)
(* name says so, or that not all was looked at; nor is a premise that an    *)
(* unread file holds called unsupported by an index said to be current      *)
(* (search.js 1636-1739, 2150-2178).                                        *)
AbsenceNamesTheUnread ==
  LET answer == question
      still == {f \in SeenAsIs(answer) : live[f] = answer.then[f]}
  IN answer.pc = "answered" =>
       \A f \in still :
         /\ answer.missing \cap live[f].text # {} /\ Passes(f, answer.want) =>
              /\ answer.stamp.stale
              /\ answer.warned \/ answer.cut \/ answer.missing \cap live[f].text \subseteq answer.found
         /\ ~answer.supported /\ Passes(f, answer.want) /\ answer.q \subseteq live[f].text => answer.stamp.stale
=============================================================================
