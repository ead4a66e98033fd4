------------------------------ MODULE MCIndexBuild ------------------------------
(* Two releases, of two recipes; a third that only chunks differently. *)
EXTENDS IndexBuild, TLC

CONSTANTS f1, b1, b2, s1

TwoReleases == {[recipe |-> 1, chunking |-> 1], [recipe |-> 2, chunking |-> 1]}
ThreeReleases == TwoReleases \cup {[recipe |-> 1, chunking |-> 2]}
BuilderSymmetry == Permutations({b1, b2})
=============================================================================
