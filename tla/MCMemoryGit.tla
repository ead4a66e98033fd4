------------------------------ MODULE MCMemoryGit ------------------------------
(***************************************************************************)
(* MemoryGit with three memories that are not alike, one that git names as *)
(* it is, one that it quotes and one without frontmatter, and three runs   *)
(* that are not alike either: a plain one, one under the switch, one that  *)
(* accepts deletions.  No two of them are symmetric.                       *)
(***************************************************************************)
EXTENDS MemoryGit
=============================================================================
