---------------------------- MODULE MCImportTask ----------------------------
(* Small instances of the import task for TLC. *)
EXTENDS ImportTaskProperties, TLC

Symmetry == Permutations(Workers)
============================================================================
