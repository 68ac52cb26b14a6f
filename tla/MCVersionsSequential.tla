------------------------ MODULE MCVersionsSequential ------------------------
(***************************************************************************)
(* Two instances of the document versions with one import at a time, as    *)
(* staging runs them; part says which of them a behaviour is of:           *)
(*   "activation": uploads and activations, with handlers that die         *)
(*   "deletion": a deletion among all the other requests, with output      *)
(*     directories that are lost                                           *)
(***************************************************************************)
EXTENDS DocumentVersionsProperties, TLC

CONSTANTS DeletedTasks
VARIABLE part

Deletion == INSTANCE DocumentVersionsProperties WITH
    Tasks <- DeletedTasks, Requests <- {"rebuild", "activate", "delete"}, Faults <- {"disk"}

MCInit ==
    \/ part = "activation" /\ Init
    \/ part = "deletion" /\ Deletion!Init

MCNext ==
    /\ \/ part = "activation" /\ Next
       \/ part = "deletion" /\ Deletion!Next
    /\ UNCHANGED part

(* The fairness of FairSpec, for the deletion. *)
MCSpec ==
    /\ MCInit /\ [][MCNext]_<<vars, part>>
    /\ WF_vars(part = "deletion" /\ Deletion!CleanupStep /\ UNCHANGED part)
    /\ WF_vars(part = "deletion" /\ (Deletion!CreateTask \/ Deletion!AbortUpload) /\ UNCHANGED part)

(* OneVersionServed and ServedAsRegistered among uploads and activations.  *)
SequentialServesRegistered ==
    part = "activation" => OneVersionServed /\ ServedAsRegistered

(* SettledServesCurrent among uploads and activations. *)
SequentialServesCurrent == part = "activation" => SettledServesCurrent

(* DeletionEnds, whatever is uploaded, rebuilt or activated meanwhile. *)
SequentialDeletionEnds == part = "deletion" => DeletionEnds
============================================================================
