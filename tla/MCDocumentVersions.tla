------------------------- MODULE MCDocumentVersions -------------------------
(* Small instances of the document versions for TLC. *)
EXTENDS DocumentVersionsProperties, TLC

Symmetry == Permutations(Tasks) \cup Permutations(Contents)
============================================================================
