--------------------------------- MODULE Lists ---------------------------------
(***************************************************************************)
(* Lists stated without recursion, where the community modules build them  *)
(* element by element: what sort, filter and flat leave of a list, said in *)
(* a form that can be reasoned about.                                      *)
(***************************************************************************)
EXTENDS Integers, FiniteSets, Sequences

(* The elements of a finite set in the order of a relation, a set of pairs: *)
(* the one at k is the one that k - 1 others come before.                   *)
Listed(S, R) ==
  [k \in 1..Cardinality(S) |-> CHOOSE x \in S : Cardinality({y \in S : <<y, x>> \in R}) = k - 1]

(* Numbers from the least to the greatest. *)
Ascending(S) == Listed(S, {p \in S \X S : p[1] < p[2]})

(* What of a list is at some places, in the order in which it is there. *)
Only(list, S) == LET at == Ascending(S) IN [k \in DOMAIN at |-> list[at[k]]]

(* What of a list is in a set. *)
Picked(list, S) == Only(list, {n \in DOMAIN list : list[n] \in S})

(* The sums of the first numbers of a list, and of all of them. *)
Sums(list) ==
  LET sum[k \in 0..Len(list)] == IF k = 0 THEN 0 ELSE sum[k - 1] + list[k]
  IN sum
Total(list) == Sums(list)[Len(list)]

(* The lists of a list, one behind the other. *)
Joined(lists) ==
  LET ends == Sums([n \in DOMAIN lists |-> Len(lists[n])])
      at(k) == CHOOSE n \in DOMAIN lists : ends[n - 1] < k /\ k <= ends[n]
  IN [k \in 1..ends[Len(lists)] |-> lists[at(k)][k - ends[at(k) - 1]]]
================================================================================
