--------------------------- MODULE MCImportWorkers ---------------------------
(***************************************************************************)
(* Two instances of the import task, each of them on its own; part says    *)
(* which of them a behaviour is of:                                        *)
(*   "pair": two workers that may be lost, Celery's retries and no request *)
(*   "staging": one worker, every request and fault                        *)
(***************************************************************************)
EXTENDS ImportTaskProperties, TLC

CONSTANTS StagingWorkers, StagingRetries, StagingRequests
VARIABLE part

Staging == INSTANCE ImportTask WITH
    Workers <- StagingWorkers, MaxRetries <- StagingRetries, Requests <- {"cancel", "retry"},
    Faults <- {"crash", "redelivery", "store", "api"}, MaxRequests <- StagingRequests,
    MaxErrors <- MaxErrors - 1

MCInit ==
    \/ part = "pair" /\ Init
    \/ part = "staging" /\ Staging!Init

MCNext ==
    /\ \/ part = "pair" /\ Next
       \/ part = "staging" /\ Staging!Next
    /\ UNCHANGED part

(* The fairness of FairSpec, for the two workers. *)
MCSpec ==
    /\ MCInit /\ [][MCNext]_<<vars, part>>
    /\ WF_vars(part = "pair" /\ HandlerStep /\ UNCHANGED part)
    /\ \A w \in Workers : WF_vars(part = "pair" /\ RunnerStep(w) /\ UNCHANGED part)

(* OneRunAtATime of the two workers. *)
PairOneRunAtATime == part = "pair" => OneRunAtATime

(* StatusesAgreeAtRest of the two workers. *)
PairStatusesAgreeAtRest == part = "pair" => StatusesAgreeAtRest

(* PendingEnds and ProcessingEnds of the two workers: a task that waits is *)
(* taken up, and one that runs comes to its end, though workers are lost.  *)
PairTasksEnd == part = "pair" => PendingEnds /\ ProcessingEnds
============================================================================
