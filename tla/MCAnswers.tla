------------------------------- MODULE MCAnswers -------------------------------
(* An instance of Answers for TLC, with the cases of a search. *)
EXTENDS Answers

CONSTANTS a, b, ab, x, v1, v2, old

(* Latest: the first file is unlabelled, the last has a term in its name. *)
MCTitled == {<<3, b>>}
MCLabel == [f \in Files |-> IF f = 1 THEN None ELSE x]

(* Texts of up to six words and questions of two or three terms. *)
MCPassages ==
  [kind : {"passage"}, words : SeqOf({a, b, ab, x}, 6), wanted : {{a, b}, {a, b, ab}, {a}}]

(* Two files: one of up to four lines, and one that is split, with the text *)
(* before its sections, or is not.                                          *)
MCCorpora ==
  LET text(words) == [kind |-> "text", words |-> words]
      heading(l, t) == [kind |-> "heading", level |-> l, title |-> t]
      lines == {text({}), text({a}), text({ab}), [kind |-> "fence", mark |-> "ticks"],
                heading(2, <<a>>), heading(2, <<x>>), heading(1, <<b, a>>)}
      file(n, d, body) == [id |-> n, named |-> {n}, described |-> d, body |-> body]
      others == {<<text({a})>>, <<text({a}), heading(2, <<ab>>), text({b})>>}
  IN [kind : {"corpus"}, question : {{a, b}, {a, b, ab}, {b, x}},
      files : {<<file(1, d, body), file(2, {}, other)>> :
                 d \in {{}, {b}}, body \in SeqOf(lines, 4), other \in others}]
MCCompounds == {{a, ab}}

(* Sessions of four exchanges over two days. A legacy exchange is named by  *)
(* its ordinal; one without a time is named for the day of the last that    *)
(* has one.                                                                 *)
MCSessions ==
  LET days == {f \in [1..4 -> 1..2] : \A i \in 1..3 : f[i] <= f[i + 1]}
      lastDay(day, timed, i) == Max({0} \cup {day[j] : j \in {k \in 1..i : timed[k]}})
      exchange(day, timed, legacy, order, i) ==
        [asked |-> i, at |-> IF timed[i] THEN 2 * i ELSE 9, day |-> lastDay(day, timed, i), timed |-> timed[i],
         hash |-> IF order THEN i ELSE 9 - i, legacy |-> legacy[i]]
      broken == {{}, {1} \X (1..9) \X (1..9), (1..2) \X {4} \X (1..9)}
  IN {[kind |-> "session", repos |-> <<{1, 3, 5, 6, 7}, {2, 5}>>, broken |-> down,
       session |-> {exchange(day, timed, legacy, order, i) : i \in 1..4}] :
        day \in days, timed \in [1..4 -> BOOLEAN], legacy \in [1..4 -> BOOLEAN], order \in BOOLEAN, down \in broken}

(* Up to five ranked rows, hot or archived, of three files. *)
MCPages ==
  LET named(rows) == [n \in DOMAIN rows |-> [name |-> n, file |-> rows[n].file, tier |-> rows[n].tier]]
  IN [kind : {"page"}, rows : {named(rows) : rows \in SeqOf([file : 1..3, tier : {"hot", "archive"}], 5)},
      asked : [limit : {1, 2, 4}, library : BOOLEAN]]

(* Three documents, weak and strong in each leg, linked in every way. *)
MCQuestions ==
  LET doc(n, d) == [name |-> n, file |-> n, keyword |-> d.keyword, semantic |-> d.semantic,
                    phrase |-> d.phrase, tier |-> d.tier]
      legs == [keyword : {0, 60}, semantic : {15, 50}, phrase : {0, 100}, tier : {"hot"}]
      archived == [keyword : {60}, semantic : {15, 50}, phrase : {0}, tier : {"archive"}]
  IN [kind : {"question"},
      docs : {<<doc(1, d), doc(2, e), doc(3, f)>> : d, e \in legs, f \in legs \cup archived},
      asked : [dense : {TRUE}, archive : BOOLEAN, library : {FALSE}, limit : {1, 2},
               orphans : {0, 50}, coverage : {10, 60}]
              \cup [dense : {FALSE}, archive : {TRUE}, library : {FALSE}, limit : {2},
                    orphans : {0}, coverage : {60}],
      links : SUBSET {{1, 2}, {1, 3}, {2, 3}}]

(* Documents of up to five lines, fenced with two marks. *)
MCBodies ==
  LET heading(l, t) == [kind |-> "heading", level |-> l, title |-> t]
      fence(m) == [kind |-> "fence", mark |-> m]
      lines == {[kind |-> "text", words |-> {}], fence("ticks"), fence("tildes"),
                heading(1, <<b>>), heading(3, <<a>>), heading(2, <<a, 2>>)}
               \cup {heading(2, t) : t \in {<<a>>, <<a, b>>, <<a, x>>, <<v1>>, <<v2, old>>}}
  IN [kind : {"body"}, body : SeqOf(lines, 5)]
MCVersioned == [w \in {v1, v2} |-> IF w = v1 THEN 1 ELSE 2]

(* What is on the machine, and how it is asked. *)
MCScopes ==
  LET idx(state, rows, strong) == [state |-> state, rows |-> rows, strong |-> strong, stale |-> strong]
      none == idx("none", <<>>, FALSE)
      empty == idx("empty", <<>>, FALSE)
      nothing == idx("rows", <<>>, FALSE)
      weak == idx("rows", <<1>>, FALSE)
      strong == idx("rows", <<1, 2, 3>>, TRUE)
      timed(i, by) == i @@ [clock |-> by]
      held(c, p, s, h, l) ==
        [corpus \in {"curated", "projects", "staging", "handoff", "books"} |->
           CASE corpus = "curated" -> timed(c, "mtime") [] corpus = "projects" -> timed(p, "mtime")
             [] corpus = "staging" -> timed(s, "ts") [] corpus = "handoff" -> timed(h, "mtime")
             [] OTHER -> timed(l, "mtime")]
      worlds == [dirs : {<<>>, <<"all", "books">>}, projects : BOOLEAN,
                 index : {held(c, p, s, h, l) : c \in {none, empty, weak, strong},
                            p \in {none, strong}, s \in {none, empty, nothing, strong},
                            h \in {none, weak}, l \in {none, weak, strong}}]
      limits == {[limit |-> 2, explicit |-> FALSE], [limit |-> 1, explicit |-> TRUE],
                 [limit |-> 3, explicit |-> TRUE]}
      scoped(scope, list) == [scope |-> scope, list |-> list, markers |-> {}]
      scopes == {[scope |-> Unscoped, list |-> FALSE, markers |-> m] :
                   m \in SUBSET {"event", "rule", "handoff"}}
                \cup {scoped(<<c>>, FALSE) : c \in {"all", "everything", "books", "curated", "staging"}}
                \cup {scoped(<<c>>, TRUE) : c \in {"all", "everything", "gone"}}
                \cup {scoped(<<"books", "all">>, TRUE), scoped(<<"books", "staging", "books">>, TRUE)}
  IN [kind : {"scope"}, world : worlds, asked : {s @@ l : s \in scopes, l \in limits}]

MCCases == MCPassages \cup MCCorpora \cup MCSessions \cup MCPages \cup MCQuestions
           \cup MCBodies \cup MCScopes
================================================================================
