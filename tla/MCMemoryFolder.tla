----------------------------- MODULE MCMemoryFolder -----------------------------
(* Small instances of MemoryFolder. *)
EXTENDS MemoryFolder, TLC

CONSTANTS note, noteLog,   \* note.md, and note.log.md beside it
          book             \* a file of a library category

NoSiblings == [n \in Names |-> NoFile]
DottedSibling == [n \in Names |-> IF n = note THEN noteLog ELSE NoFile]

WriterSymmetry == Permutations(Writers \ ReadOnly)
=============================================================================
