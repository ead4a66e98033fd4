-------------------------------- MODULE Answers --------------------------------
(***************************************************************************)
(* The questions a server answers: the last word on something, what git    *)
(* says of a text, and a search, whose steps are functions of what the     *)
(* index holds.  Each is asked by itself; the first two are state machines *)
(* of their own, and a search is a case chosen from those to be looked at. *)
(***************************************************************************)
EXTENDS Latest, Evidence, Passages, Threads, Ranking, Reading, Scopes

CONSTANTS
  Cases,     \* what the functions of a search are asked, a record with a kind
  Compounds  \* pairs of terms of which one has the other in it

VARIABLES
  tool,  \* which question it is
  case   \* the case of a search, once it is chosen

answersVars == <<latestVars, evidenceVars, tool, case>>

(* The world of the other questions does not matter to one of them. *)
AnswersInit ==
  /\ tool \in {"latest", "evidence", "search"}
  /\ case = None
  /\ LatestInit
  /\ EvidenceInit
  /\ tool # "latest" => live[1].text = {}
  /\ tool # "evidence" => \A r \in Repos : objects[r] = {} /\ tree[r] = {}

AnswersNext ==
  \/ /\ tool = "latest"
     /\ LatestNext
     /\ UNCHANGED <<evidenceVars, tool, case>>
  \/ /\ tool = "evidence"
     /\ EvidenceNext
     /\ UNCHANGED <<latestVars, tool, case>>
  \/ /\ tool = "search"
     /\ case = None
     /\ case' \in Cases
     /\ UNCHANGED <<latestVars, evidenceVars, tool>>

AnswersSpec == AnswersInit /\ [][AnswersNext]_answersVars

Is(kind) == case # None /\ case.kind = kind
-----------------------------------------------------------------------------
(* Properties of a search. *)

(* A passage is found wherever it stands: of the windows of the text as it  *)
(* was written, cut into chunks and put together again, the one that is     *)
(* found is a best one, though the walk is cut short and a quote may lie    *)
(* across two chunks; but one of more hits than the walk visits may be      *)
(* better, with a score below one in BackPerTerm (embed.js 90-130,          *)
(* lexical.js 46-107).                                                      *)
QuotesAreFound ==
  Is("passage") =>
    LET n == Cardinality(case.wanted)
        best == BestWindow(UnchunkBody(ChunkBody(case.words)), case.wanted)
        hits == HitsOf(case.words, case.wanted)
    IN /\ IsBestWindow(best, case.words, case.wanted)
       /\ n >= 2 => \A r \in DOMAIN hits : \A l \in 1..r :
            LET w == Window(hits, l, r)
            IN Better(w, best) => BackPerTerm * Cubed(w.distinct) < n * n * w.span

(* A document that is split into sections counts once, as it did before: no *)
(* term of a question looks more common for it, but those that every stub   *)
(* has; and one looks rarer, or absent, only for the lines that are in no   *)
(* section. Without such words in a question its terms have the very same   *)
(* weights and the same share of orphans (section-docs.js 97-130, 178-267,  *)
(* bm25.js 150-180, 230-293).                                               *)
SectionsCountOnce ==
  Is("corpus") =>
    LET asked == case.question
        split == TermStats(Joined([n \in DOMAIN case.files |-> Entries(case.files[n])]), asked, Compounds)
        whole == TermStats([n \in DOMAIN case.files |-> WholeEntry(case.files[n])], asked, Compounds)
        lost == UNION {LeftOut(case.files[n]) : n \in DOMAIN case.files}
    IN /\ split.documents = whole.documents
       /\ \A t \in asked \ StubWords : split.df[t] <= whole.df[t]
       /\ \A t \in asked \ (StubWords \cup lost) : split.df[t] = whole.df[t]
       /\ asked \cap (StubWords \cup lost) = {} => split = whole

(* Exchanges with a time are in the order in which they were asked, unless  *)
(* the session has names of both kinds and times are missing.  What is      *)
(* shown around an exchange has it at offset 0 and says how much of the     *)
(* thread is left; to read on from its end skips no exchange. If all have a *)
(* time, neither does it skip a commit, but those that are left out of the  *)
(* answer for one of the two stretches: of a repository that failed, and of *)
(* one with too many later ones (search.js 91-113, 2341-2448, git-join.js   *)
(* 388-416).                                                                *)
ThreadsRunForward ==
  Is("session") =>
    LET thread == ThreadOf(case.session)
        around(p, back, forward) == ThreadAround(thread, p, back, forward, case.repos, case.broken)
        unlisted(since, until) == Unlisted(case.repos, case.broken, since, until)
        shown(answer) == [k \in DOMAIN answer.rows |-> answer.rows[k].exchange]
    IN /\ AllTimed(case.session) \/ ~Mixed(case.session) =>
            \A i, j \in DOMAIN thread : i < j /\ thread[i].timed /\ thread[j].timed =>
                                          thread[i].asked < thread[j].asked
       /\ \A p \in DOMAIN thread, back, forward \in -1..2 :
            LET answer == around(p, back, forward)
                next == around(answer.last, 0, forward)
                begin == thread[p + answer.rows[1].offset].at
                middle == thread[answer.last].at
                end == thread[next.last].at
            IN IF answer.refused THEN back < 0 \/ forward < 0
               ELSE /\ \E k \in DOMAIN answer.rows : answer.rows[k] = [exchange |-> thread[p], offset |-> 0]
                    /\ answer.remaining + (answer.last - p) = LaterInThread(Len(thread), p)
                    /\ shown(answer) \o Tail(shown(next)) =
                         SubSeq(thread, p + answer.rows[1].offset, next.last)
                    /\ AllTimed(case.session) =>
                         \A r \in DOMAIN case.repos : \A c \in case.repos[r] :
                           begin < c /\ c < end =>
                             c \in answer.landed \cup next.landed
                                   \cup unlisted(begin, middle) \cup unlisted(middle, end)

(* A page is full when there is enough to fill it, begins with the best row *)
(* and leaves none out for a worse one, but for archived rows beyond their  *)
(* share (search.js 557-590, 686-698, 1186-1197).                           *)
PageIsBest ==
  Is("page") => IsBestPage(Page(case.rows, case.asked),
                           CapPerDocument(case.rows, IF case.asked.library THEN Len(case.rows) ELSE 1),
                           case.asked.limit)

(* Links between memories change the order of an answer but never whether   *)
(* it is one, nor what is said of its absence; and they bring in only rows  *)
(* that mean something like the question, unless of one document some rows  *)
(* are archived and others are not, when the row that stands for it changes *)
(* its kind and so what is left of the share of the archive (search.js      *)
(* 1198-1251, graph-spread.js 63-107).                                      *)
SpreadKeepsVerdict ==
  Is("question") =>
    LET with == Search(case.docs, case.asked, case.links)
        without == Search(case.docs, case.asked, {})
        names(rows) == {rows[n].name : n \in DOMAIN rows}
    IN /\ with.verdict = without.verdict
       /\ Len(with.rows) = Len(without.rows)
       /\ OfOneKind(case.docs) =>
            \A n \in DOMAIN with.rows :
              with.rows[n].name \notin names(without.rows) => with.rows[n].semantic >= SpreadGate

(* What search names, get opens: asked for a section by the name it has in  *)
(* the index, it gives the text the index has of it, though the two find    *)
(* sections in different ways; and reading on by slices gives the whole     *)
(* document. A version is archived only for others as new (section-docs.js  *)
(* 87-108, 139-175, memory.js 277-327, 577-660).                            *)
SectionsOpen ==
  Is("body") => \A docs \in {DocsOf(case.body)} :
    LET version(n) == VersionOf(docs[n].heading)
        sections == {n \in DOMAIN docs : docs[n].heading # Unnamed}
        shared(n) == \E m \in sections \ {n} : docs[m].name = docs[n].name
    IN /\ Plain(case.body) =>
            \A n \in sections : shared(n) \/ GetByName(docs, case.body, docs[n].name).body = docs[n].text
       /\ \A cap \in 1..3 : ReadOn(docs, case.body, cap) = case.body
       /\ \A n, m \in sections :
            docs[n].tier = "archive" /\ docs[m].tier = "hot" /\ version(m) # 0 =>
              StaleMark \in ToSet(docs[n].heading) \/ version(n) <= version(m)

(* Corpora are answered side by side, each once, those of work before those *)
(* of the library, which are asked only by name or with everything. Those   *)
(* that are not are named; by an answer of a single corpus only if it is    *)
(* the curated one and has something to rank. The verdict on the whole is   *)
(* that of its sections as they are shown, and a reader of the flat list    *)
(* alone sees the best row of each; in latest, rows with a time come first; *)
(* and an index job for the same scope builds what was asked. But a curated *)
(* corpus without an index has no verdict (search.js 669-682, 828-970,      *)
(* 1748-1955, memory.js 878-892).                                           *)
SectionsAgree ==
  Is("scope") /\ (case.asked.scope # Unscoped => ValidScope(case.asked.scope, case.world)) =>
    LET asked == case.asked
        world == case.world
        scope == SearchScope(asked, world)
        names == ExpandScope(scope, world)
        answer == SearchAll(scope, asked, world)
        last == LatestAll(scope, asked, world)
        work == ToSet(CORPORA)
        library == ToSet(LibraryCorpora(world))
        told == ToSet(NotSearched(scope, asked, world))
        rated == "curated" \notin ToSet(names) \/ world.index["curated"].state # "none"
    IN /\ \A n, m \in DOMAIN names : n < m => names[n] # names[m] /\ (names[m] \in work => names[n] \in work)
       /\ \A c \in ToSet(names) \ work :
            asked.scope # Unscoped /\ ({c, "everything"} \cap ToSet(asked.scope)) # {}
       /\ ToSet(WantedScopes(scope, world)) = ToSet(names)
       /\ told \cap ToSet(names) = {}
       /\ (ToSet(names) \cap work # {} /\ IsMultiScope(asked, scope))
            \/ (names = <<"curated">> /\ world.index["curated"].state = "rows")
          => library = (ToSet(names) \ work) \cup told
       /\ IsMultiScope(asked, scope) =>
            /\ rated => (answer.noStrongMatch <=> \A c \in ToSet(names) : answer.groups[c].noStrongMatch)
            /\ rated => (answer.noStrongMatch <=> answer.results = <<>>)
            /\ \A c \in ToSet(names) : answer.groups[c].results # <<>> =>
                 [corpus |-> c, row |-> answer.groups[c].results[1]] \in ToSet(answer.results)
            /\ \A n, m \in DOMAIN last.results :
                 n < m /\ Timed(last.results[m].corpus, world) => Timed(last.results[n].corpus, world)
            /\ \A c \in ToSet(names) : \A row \in ToSet(Trim(world.index[c].rows, asked.limit)) :
                 [corpus |-> c, row |-> row] \in ToSet(last.results)
================================================================================
