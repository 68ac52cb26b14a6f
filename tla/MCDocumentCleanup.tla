-------------------------- MODULE MCDocumentCleanup --------------------------
(* Small instances of the document cleanup for TLC. *)
EXTENDS DocumentCleanupProperties, TLC

Symmetry == Permutations(Workers) \cup Permutations(Handlers)
============================================================================
