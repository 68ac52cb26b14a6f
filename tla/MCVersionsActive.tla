-------------------------- MODULE MCVersionsActive --------------------------
(***************************************************************************)
(* Two instances of the document versions with two runners; part says      *)
(* which of them a behaviour is of:                                        *)
(*   "requests": every request of an administrator, and no fault           *)
(*   "faults": fewer tasks, with object storage, failing imports, handlers *)
(*     that die and output directories that are lost                       *)
(***************************************************************************)
EXTENDS DocumentVersionsProperties, TLC

CONSTANTS FewTasks, FewFaults, FewFailures
VARIABLE part

Failing == INSTANCE DocumentVersionsProperties WITH
    Tasks <- FewTasks, MinIO <- TRUE, Faults <- FewFaults, MaxFailures <- FewFailures

MCInit ==
    \/ part = "requests" /\ Init
    \/ part = "faults" /\ Failing!Init

MCNext ==
    /\ \/ part = "requests" /\ Next
       \/ part = "faults" /\ Failing!Next
    /\ UNCHANGED part

MCSpec == MCInit /\ [][MCNext]_<<vars, part>>

Symmetry == Permutations(Tasks) \cup Permutations(FewTasks) \cup Permutations(Contents)
============================================================================
