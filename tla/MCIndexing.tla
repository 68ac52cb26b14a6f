----------------------------- MODULE MCIndexing -----------------------------
(***************************************************************************)
(* The indexing workflow, and the collection it writes to, each of them on *)
(* its own; part says which of them a behaviour is of:                     *)
(*   "indexing": the workflow                                              *)
(*   "threads": the upgrade by threads of one worker, and the script       *)
(*   "processes": the same by several workers, which share no lock         *)
(***************************************************************************)
EXTENDS IndexingWorkflowProperties, MilvusCollectionsProperties, TLC

VARIABLE part

Processes == INSTANCE MilvusCollectionsProperties WITH
    OneProcess <- FALSE, Outages <- {"stop"}, MaxOutages <- 1

MCInit ==
    /\ Init /\ UpgradeInit
    /\ \/ part = "indexing"
       \/ part \in {"threads", "processes"} /\ kind = [d \in Docs |-> "md"]

MCNext ==
    /\ \/ part = "indexing" /\ Next /\ UNCHANGED upgrade
       \/ part = "threads" /\ UpgradeNext /\ UNCHANGED vars
       \/ part = "processes" /\ Processes!UpgradeNext /\ UNCHANGED vars
    /\ UNCHANGED part

MCSpec == MCInit /\ [][MCNext]_<<vars, upgrade, part>>

(* RowsKept of the threads: the lock of ensure_collection_schema keeps     *)
(* them apart, and nothing else does.                                      *)
ThreadsKeepRows == part = "threads" => RowsKept
============================================================================
