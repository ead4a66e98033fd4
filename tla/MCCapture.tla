------------------------------- MODULE MCCapture -------------------------------
(* Small instances of Capture. *)
EXTENDS Capture, TLC

RunSymmetry == Permutations(Runs)
=============================================================================
