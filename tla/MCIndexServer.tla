----------------------------- MODULE MCIndexServer -----------------------------
(* Small instances of IndexServer. *)
EXTENDS IndexServer, TLC

CONSTANTS curated, staging

(* One job over one index, and one job over two. *)
OneScope == {<<curated>>}
TwoScopes == {<<curated, staging>>, <<staging>>}

TaskSymmetry == Permutations(Queries) \cup Permutations(Jobs) \cup Permutations(Files)
=============================================================================
