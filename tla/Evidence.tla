------------------------------- MODULE Evidence -------------------------------
(***************************************************************************)
(* What git says of a text (lib/git-join.js).                              *)
(*                                                                         *)
(* An answer names the commits its rows cite and the identifiers the       *)
(* question names that are in no repository.  Both are asked of every      *)
(* configured repository at once, one git process each, of which any may   *)
(* fail, overrun or answer after another; what was learnt is kept for the  *)
(* life of the server and shared by the questions that overlap.            *)
(*                                                                         *)
(* A commit is a token that looks like one, an identifier is a name; what  *)
(* a commit says, whether it is on the mainline, and which of several      *)
(* repositories has a name, are left out.                                   *)
(***************************************************************************)
EXTENDS Naturals, FiniteSets

CONSTANTS
  NRepos,    \* how many repositories are configured; searched in this order
  Shas,      \* the tokens that texts cite
  Idents,    \* the identifiers that texts name
  Askers,    \* the questions, each asked at most once
  MaxLands,  \* bound: commits that land meanwhile
  MaxFails,  \* bound: git processes that fail or overrun
  Nothing    \* nobody, not known

Repos == 1..NRepos

ASSUME EvidenceAssumption ==
  /\ NRepos \in Nat
  /\ {MaxLands, MaxFails} \subseteq Nat
  /\ Nothing \notin Nat \cup {"found", "absent", "unknown"}

VARIABLES
  objects,     \* per repository, the tokens that name a commit of it
  tree,        \* per repository, the identifiers in the code at its HEAD
  checked,     \* CACHE: the pairs of a repository and a token with an entry
  real,        \* those of them whose entry is a record, not null
  identCache,  \* IDENT_CACHE: per identifier "found", "absent" or Nothing
  asker,       \* the state of each question
  jobs,        \* per question and repository, the check of its tokens
  lands,       \* how many commits have landed
  fails,       \* how many processes have failed
  missed,      \* for the properties: pairs that were looked up in vain
  ended        \* for the properties: greps that ended without a match

gitWorld == <<objects, tree, lands>>
shaCache == <<checked, real>>
evidenceVars == <<gitWorld, shaCache, identCache, asker, jobs, fails, missed, ended>>

NoJob == [pc |-> "done", unknown |-> {}, resolved |-> {}]
NewAsker == [pc |-> "new", kind |-> "ask", cites |-> {}, named |-> {},
             out |-> [i \in Idents |-> Nothing], greps |-> {},
             found |-> [s \in Shas |-> Nothing], absent |-> {}]

Goto(a, pc) == asker' = [asker EXCEPT ![a].pc = pc]

(* attachCommits and autoVerifyQuery of an answer, verifyClaims of verify.  *)
After(kind, phase) == CASE kind = "ask" /\ phase = "shas" -> "idents"
                        [] kind = "verify" /\ phase = "idents" -> "shas"
                        [] OTHER -> "answered"

-----------------------------------------------------------------------------
Begin(a) ==
  /\ asker[a].pc = "new"
  /\ \E kind \in {"ask", "verify"}, cites \in SUBSET Shas, named \in SUBSET Idents :
       asker' = [asker EXCEPT ![a].pc = IF kind = "ask" THEN "shas" ELSE "idents",
                              ![a].kind = kind, ![a].cites = cites, ![a].named = named]
  /\ UNCHANGED <<gitWorld, shaCache, identCache, jobs, fails, missed, ended>>

(* verifyShas: a batch for each repository that has tokens to check. *)
Unknown(r, cites) == {s \in cites : <<r, s>> \notin checked}
SpawnChecks(a) ==
  /\ asker[a].pc = "shas"
  /\ Goto(a, "checks")
  /\ jobs' = [jobs EXCEPT ![a] = [r \in Repos |->
       LET u == Unknown(r, asker[a].cites)
       IN [pc |-> IF u = {} THEN "done" ELSE "check", unknown |-> u, resolved |-> {}]]]
  /\ UNCHANGED <<gitWorld, shaCache, identCache, fails, missed, ended>>

(* What the repository's share of verifyShas does last. *)
Store(a, r, described) ==
  LET u == {r} \X jobs[a][r].unknown
      d == {r} \X described
  IN /\ checked' = checked \cup u
     /\ real' = (real \ u) \cup d
     /\ missed' = missed \cup (u \ d)
     /\ jobs' = [jobs EXCEPT ![a][r] = NoJob]

Failing == fails < MaxFails /\ fails' = fails + 1

(* batchCheck: the answer of cat-file, or none, when the timer kills it or  *)
(* it cannot be started.                                                    *)
Check(a, r) ==
  /\ jobs[a][r].pc = "check"
  /\ LET resolved == jobs[a][r].unknown \cap objects[r]
     IN IF resolved = {} THEN Store(a, r, {})
        ELSE /\ jobs' = [jobs EXCEPT ![a][r].pc = "describe", ![a][r].resolved = resolved]
             /\ UNCHANGED <<shaCache, missed>>
  /\ UNCHANGED <<gitWorld, identCache, asker, fails, ended>>

CheckFails(a, r) ==
  /\ jobs[a][r].pc = "check"
  /\ Failing
  /\ Store(a, r, {})
  /\ UNCHANGED <<gitWorld, identCache, asker, ended>>

(* describe: one git log for all that was resolved. *)
Describe(a, r) ==
  /\ jobs[a][r].pc = "describe"
  /\ \/ Store(a, r, jobs[a][r].resolved) /\ UNCHANGED fails
     \/ Store(a, r, {}) /\ Failing
  /\ UNCHANGED <<gitWorld, identCache, asker, ended>>

(* Mutant: the last repository that has it is named. *)
LastWithRecord(s) ==
  LET have == {r \in Repos : <<r, s>> \in real}
  IN IF have = {} THEN Nothing ELSE CHOOSE r \in have : \A q \in have : q <= r

(* First repo to claim a SHA wins. *)
FirstWithRecord(s) ==
  LET have == {r \in Repos : <<r, s>> \in real}
  IN IF have = {} THEN Nothing ELSE CHOOSE r \in have : \A q \in have : r <= q

Collect(a) ==
  /\ asker[a].pc = "checks"
  /\ \A r \in Repos : jobs[a][r].pc = "done"
  /\ asker' = [asker EXCEPT
       ![a].pc = After(asker[a].kind, "shas"),
       ![a].found = [s \in Shas |-> IF s \in asker[a].cites THEN FirstWithRecord(s) ELSE Nothing]]
  /\ UNCHANGED <<gitWorld, shaCache, identCache, jobs, fails, missed, ended>>

-----------------------------------------------------------------------------
(* findIdentifiers: what is cached, and a grep of every repository for each *)
(* of the others.                                                           *)
SpawnGreps(a) ==
  /\ asker[a].pc = "idents"
  /\ asker' = [asker EXCEPT
       ![a].pc = "greps",
       ![a].out = [i \in Idents |-> IF i \in asker[a].named THEN identCache[i] ELSE Nothing],
       ![a].greps = Repos \X {i \in asker[a].named : identCache[i] = Nothing}]
  /\ UNCHANGED <<gitWorld, shaCache, identCache, jobs, fails, missed, ended>>

(* Mutant: an overrun is noted if nothing else is known yet. *)
OverrunIfFirst(known) == IF known = Nothing THEN "unknown" ELSE known

(* How a grep that overran, or found nothing, changes what is known. *)
Overrun(known) == IF known = "found" THEN known ELSE "unknown"
NoMatch(known) == IF known = Nothing THEN "absent" ELSE known

(* A grep of r for i ends. Any error but an overrun counts as no match. *)
Grep(a, r, i) ==
  /\ <<r, i>> \in asker[a].greps
  /\ LET ends(known) == asker' = [asker EXCEPT ![a].greps = @ \ {<<r, i>>}, ![a].out[i] = known]
     IN \/ i \in tree[r] /\ ends("found") /\ UNCHANGED <<fails, ended>>
        \/ /\ \/ i \notin tree[r] /\ UNCHANGED fails
              \/ Failing
           /\ ends(NoMatch(asker[a].out[i]))
           /\ ended' = ended \cup {<<r, i>>}
        \/ Failing /\ ends(Overrun(asker[a].out[i])) /\ UNCHANGED ended
  /\ UNCHANGED <<gitWorld, shaCache, identCache, jobs, missed>>

(* What is certain is cached; what is reported differs: autoVerifyQuery     *)
(* leaves out what is unknown, verifyClaims has all that was not found.     *)
Report(a) ==
  /\ asker[a].pc = "greps"
  /\ asker[a].greps = {}
  /\ LET out == asker[a].out
         certain(i) == out[i] \notin {Nothing, "unknown"}
     IN /\ identCache' = [i \in Idents |-> IF certain(i) THEN out[i] ELSE identCache[i]]
        /\ asker' = [asker EXCEPT
             ![a].pc = After(asker[a].kind, "idents"),
             ![a].absent = {i \in asker[a].named :
                              \/ out[i] = "absent"
                              \/ out[i] = "unknown" /\ asker[a].kind = "verify"}]
  /\ UNCHANGED <<gitWorld, shaCache, jobs, fails, missed, ended>>

(* A commit lands, and brings a name into the code. *)
Land(r) ==
  /\ lands < MaxLands
  /\ lands' = lands + 1
  /\ \/ \E s \in Shas \ objects[r] : objects' = [objects EXCEPT ![r] = @ \cup {s}] /\ UNCHANGED tree
     \/ \E i \in Idents \ tree[r] : tree' = [tree EXCEPT ![r] = @ \cup {i}] /\ UNCHANGED objects
  /\ UNCHANGED <<shaCache, identCache, asker, jobs, fails, missed, ended>>

EvidenceInit ==
  /\ objects \in [Repos -> SUBSET Shas]
  /\ tree \in [Repos -> SUBSET Idents]
  /\ checked = {} /\ real = {}
  /\ identCache = [i \in Idents |-> Nothing]
  /\ asker = [a \in Askers |-> NewAsker]
  /\ jobs = [a \in Askers |-> [r \in Repos |-> NoJob]]
  /\ lands = 0 /\ fails = 0
  /\ missed = {} /\ ended = {}

EvidenceNext ==
  \/ \E a \in Askers :
       \/ Begin(a) \/ SpawnChecks(a) \/ Collect(a) \/ SpawnGreps(a) \/ Report(a)
       \/ \E r \in Repos : Check(a, r) \/ CheckFails(a, r) \/ Describe(a, r)
       \/ \E r \in Repos, i \in Idents : Grep(a, r, i)
  \/ \E r \in Repos : Land(r)

EvidenceSpec == EvidenceInit /\ [][EvidenceNext]_evidenceVars
-----------------------------------------------------------------------------
(* Properties. *)

(* Every commit an answer names is in the repository it names; and if some  *)
(* repository has a cited commit and was never asked for it in vain, the    *)
(* answer names that repository or one configured before it, whatever the   *)
(* order in which the others answer or fail (git-join.js 285-308).          *)
FirstRepoWins ==
  \A a \in Askers : \A s \in asker[a].cites :
    LET named == asker[a].found[s]
    IN asker[a].pc = "answered" =>
         /\ named # Nothing => s \in objects[named]
         /\ \A r \in Repos : s \in objects[r] /\ <<r, s>> \notin missed =>
              named # Nothing /\ named <= r

(* An answer says that a name is in no repository only if in every one of   *)
(* them a grep for it came to its end: an overrun is not an absence, be it  *)
(* noticed before or after another repository's answer, and nothing learnt  *)
(* from it is kept (git-join.js 189-204, 224-241, 270-274).                 *)
AbsentEverywhere ==
  \A a \in Askers : asker[a].kind = "ask" =>
    \A i \in asker[a].absent, r \in Repos : <<r, i>> \in ended
=============================================================================
