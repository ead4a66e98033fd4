--------------------------------- MODULE Scopes ---------------------------------
(***************************************************************************)
(* Which corpora a question is asked of, and how their answers are put     *)
(* together (lib/search.js, tools/memory.js, lib/config.js).  Each corpus  *)
(* has its own index and its own ranking; a scope names one, or several    *)
(* that are answered side by side.                                         *)
(*                                                                         *)
(* A world says what is on the machine: the categories of the library, in  *)
(* order; whether another project has memories; and per corpus what its    *)
(* index holds of the question: "none", "empty", or rows, strong or weak.  *)
(***************************************************************************)
EXTENDS Lists, SequencesExt

CONSTANTS
  ViewRows,  \* EVERYTHING_VIEW.rowsPerSection
  Unscoped   \* no scope was given

ASSUME ScopesAssumption ==
  /\ ViewRows \in Nat \ {0}
  /\ Unscoped \notin {<<"all">>, <<"curated">>}

CORPORA == <<"curated", "projects", "staging", "handoff">>
Reserved == ToSet(CORPORA) \cup {"all", "everything"}

(* A directory of the library with a name that a scope has is no category.  *)
LibraryCorpora(world) == Picked(world.dirs, ToSet(world.dirs) \ Reserved)
AllCorpora(world) == CORPORA \o LibraryCorpora(world)

-----------------------------------------------------------------------------
(* validateScope: a scope is a sequence of names, of which each must be one *)
(* that it knows.                                                           *)
ValidScope(scope, world) ==
  /\ scope # <<>>
  /\ ToSet(scope) \subseteq ToSet(AllCorpora(world)) \cup {"all", "everything"}

(* routeScope, of what the wording points at: nothing of the library.       *)
RouteScope(markers, world) ==
  IF \/ "handoff" \in markers
     \/ "event" \in markers /\ "rule" \notin markers
     \/ world.projects
  THEN <<"all">> ELSE <<"curated">>

(* doSearch and doLatest without a scope. *)
SearchScope(asked, world) ==
  IF asked.scope = Unscoped THEN RouteScope(asked.markers, world) ELSE asked.scope
LatestScope(asked, world) ==
  IF asked.scope # Unscoped THEN asked.scope
  ELSE IF world.index["staging"].state = "rows" THEN <<"staging">> ELSE <<"curated">>

Named(name, world) == CASE name = "all" -> CORPORA
                        [] name = "everything" -> AllCorpora(world)
                        [] OTHER -> <<name>>

(* Each once, where it is named first. *)
Once(names) == Only(names, {n \in DOMAIN names : \A m \in 1..(n - 1) : names[m] # names[n]})

WorkFirst(names) == Picked(CORPORA, ToSet(names)) \o Picked(names, ToSet(names) \ ToSet(CORPORA))

(* Mutant: all is everything. *)
ExpandAllTheMore(scope, world) ==
  WorkFirst(Once(Joined([n \in DOMAIN scope |->
    Named(IF scope[n] = "all" THEN "everything" ELSE scope[n], world)])))

(* expandScope: the corpora of work come first. *)
ExpandScope(scope, world) ==
  WorkFirst(Once(Joined([n \in DOMAIN scope |-> Named(scope[n], world)])))

(* _wantedScopes: what an index job is to build, as named. *)
WantedScopes(scope, world) ==
  IF scope = Unscoped THEN <<"curated", "projects", "handoff">>
  ELSE Once(Joined([n \in DOMAIN scope |-> Named(scope[n], world)]))

(* A list is always answered side by side; so are the two special names. *)
IsMultiScope(asked, scope) == asked.list \/ scope \in {<<"all">>, <<"everything">>}

-----------------------------------------------------------------------------
(* The answer of one corpus. A corpus without an index is empty, but for    *)
(* the curated one, which is not available, and does not say that nothing   *)
(* strong was found.                                                        *)
Single(corpus, asked, world) ==
  LET idx == world.index[corpus]
      rows == SubSeq(idx.rows, 1, Min({Len(idx.rows), asked.limit}))
      part(mode, results, weak, absent) ==
        [mode |-> mode, results |-> results, bestWeak |-> weak, noStrongMatch |-> absent,
         indexStale |-> idx.stale]
  IN CASE idx.state = "none" /\ corpus = "curated" -> part("unavailable", <<>>, <<>>, FALSE)
       [] \/ idx.state = "none" /\ corpus # "curated"
          \/ idx.state = "empty" -> part("empty", <<>>, <<>>, TRUE)
       [] OTHER -> IF idx.strong THEN part("ranked", rows, <<>>, rows = <<>>)
                   ELSE part("ranked", <<>>, rows, TRUE)

Trim(rows, cap) == SubSeq(rows, 1, Min({Len(rows), cap}))

(* compactEverythingGroups: a section with nothing in it is a line, and     *)
(* says that nothing was found.                                             *)
Compact(part, cap) ==
  LET ranked == Len(part.results) + Len(part.bestWeak)
  IN [part EXCEPT !.results = Trim(@, cap), !.bestWeak = Trim(@, cap),
                  !.noStrongMatch = @ \/ ranked = 0,
                  !.indexStale = @ /\ ranked # 0]

From(corpus, rows) == [n \in DOMAIN rows |-> [corpus |-> corpus, row |-> rows[n]]]

(* search of several corpora. The everything view is compact, and its flat  *)
(* list is a directory of the rows that are shown.                          *)
SearchAll(scope, asked, world) ==
  LET names == ExpandScope(scope, world)
      groups == [c \in ToSet(names) |-> Single(c, asked, world)]
      all == scope = <<"everything">> /\ ~asked.list
      shown == IF all THEN [c \in DOMAIN groups |->
                             Compact(groups[c], IF asked.explicit THEN asked.limit ELSE ViewRows)]
               ELSE groups
      flat == Joined([n \in DOMAIN names |-> From(names[n], shown[names[n]].results)])
      missed == Picked(LibraryCorpora(world), ToSet(LibraryCorpora(world)) \ ToSet(names))
  IN [names |-> names, groups |-> shown,
      results |-> IF all THEN flat ELSE Trim(flat, asked.limit * Len(names)),
      noStrongMatch |-> \A c \in DOMAIN groups : groups[c].noStrongMatch,
      indexStale |-> \E c \in DOMAIN groups : groups[c].indexStale,
      notSearched |-> IF ToSet(names) \cap ToSet(CORPORA) # {} THEN missed ELSE <<>>]

(* search of one corpus: only a ranked answer of the curated one says that  *)
(* there is a library (buildGuidance), not one that ends before it is made. *)
SearchOne(corpus, asked, world) ==
  LET part == Single(corpus, asked, world)
  IN [part |-> part,
      notSearched |-> IF corpus = "curated" /\ part.mode = "ranked" THEN LibraryCorpora(world) ELSE <<>>]

(* What an answer says it has not asked. *)
NotSearched(scope, asked, world) ==
  IF IsMultiScope(asked, scope) THEN SearchAll(scope, asked, world).notSearched
  ELSE SearchOne(scope[1], asked, world).notSearched

(* corpusClock: the corpora that are of conversations have times.           *)
Timed(corpus, world) == world.index[corpus].clock = "ts"

(* latestAll: a section for each corpus that mentions it, and the flat list *)
(* has the sections with times first.                                       *)
LatestAll(scope, asked, world) ==
  LET mentions(c) == Trim(world.index[c].rows, asked.limit)
      wanted == ExpandScope(scope, world)
      names == Picked(wanted, {c \in ToSet(wanted) : mentions(c) # <<>>})
      timed == {c \in ToSet(names) : Timed(c, world)}
      sections == Picked(names, timed) \o Picked(names, ToSet(names) \ timed)
  IN [sections |-> names,
      results |-> Joined([n \in DOMAIN sections |-> From(sections[n], mentions(sections[n]))])]
================================================================================
