-------------------------------- MODULE Threads --------------------------------
(***************************************************************************)
(* The exchanges of one conversation in order, and the stretch of them     *)
(* around a hit (buildThreadMap and thread in lib/search.js).              *)
(*                                                                         *)
(* The order is that of the names' suffixes as strings.  A legacy suffix   *)
(* is an ordinal of four digits; a stable one is the day and the time of   *)
(* the ask or, when that has none, the day and an x with a hash, which     *)
(* sorts behind the times of that day.                                     *)
(***************************************************************************)
EXTENDS Lists, FiniteSetsExt

CONSTANT MaxCommits  \* what is listed of a repository at most, the max of commitsInRange

ASSUME ThreadsAssumption == MaxCommits \in Nat \ {0}

(* An exchange is a record: when it was asked, by the order of the          *)
(* conversation and by day; whether its document has that time; its hash;   *)
(* whether its name is a legacy one.  a.ord < b.ord for their suffixes:     *)
SuffixBefore(a, b) ==
  \/ a.legacy /\ ~b.legacy
  \/ a.legacy /\ b.legacy /\ a.asked < b.asked
  \/ ~a.legacy /\ ~b.legacy /\ \/ a.day < b.day
                               \/ a.day = b.day /\ a.timed /\ ~b.timed
                               \/ a.day = b.day /\ a.timed /\ b.timed /\ a.asked < b.asked
                               \/ a.day = b.day /\ ~a.timed /\ ~b.timed /\ a.hash < b.hash

Mixed(session) == /\ \E e \in session : e.legacy
                  /\ \E e \in session : ~e.legacy
AllTimed(session) == \A e \in session : e.timed

(* Mutant: names are always in order. *)
ByName(session, a, b) == SuffixBefore(a, b)

(* A session with names of both kinds is ordered by time, if all have one.  *)
ComesBefore(session, a, b) ==
  IF Mixed(session) /\ AllTimed(session) THEN a.asked < b.asked ELSE SuffixBefore(a, b)

ThreadOf(session) == Listed(session, {p \in session \X session : ComesBefore(session, p[1], p[2])})

(* withThreadPosition: how many exchanges of the thread come later. *)
LaterInThread(total, p) == total - p

(* commitsInRange: of each repository, a set of times of commits, the last  *)
(* so many of that time; but nothing of one that fails. The answer for a    *)
(* range is kept as long as the server lives, so what is broken is fixed by *)
(* the range: those that failed when it was first asked for.                *)
CommitsInRange(repos, broken, since, until) ==
  LET range(r) == {c \in repos[r] : since <= c /\ c <= until}
      last(r) == {c \in range(r) : Cardinality({d \in range(r) : d > c}) < MaxCommits}
  IN IF until <= since THEN {}
     ELSE UNION {last(r) : r \in {r \in DOMAIN repos : <<r, since, until>> \notin broken}}

(* The commits of a range that are left out of its answer, without a mark.  *)
Unlisted(repos, broken, since, until) ==
  UNION {{c \in repos[r] : /\ since <= c /\ c <= until
                           /\ \/ <<r, since, until>> \in broken
                              \/ ~(Cardinality({d \in repos[r] : c < d /\ d <= until}) < MaxCommits)}
         : r \in DOMAIN repos}

(* thread: the exchanges around the one at position p, and what landed in   *)
(* the repositories between the first of them and the last. A count that is *)
(* none is refused.                                                         *)
ThreadAround(thread, p, back, forward, repos, broken) ==
  LET total == Len(thread)
      from == Max({0, p - 1 - back})
      to == Min({total, p + forward})
      rows == [k \in 1..(to - from) |-> [exchange |-> thread[from + k], offset |-> from + k - p]]
  IN IF back < 0 \/ forward < 0 THEN [refused |-> TRUE, rows |-> <<>>]
     ELSE [refused |-> FALSE, rows |-> rows, last |-> to, remaining |-> total - to,
           landed |-> CommitsInRange(repos, broken, thread[from + 1].at, thread[to].at)]
================================================================================
