------------------------ MODULE MCCleanupDeployments ------------------------
(***************************************************************************)
(* Two deployments of the document cleanup, each of them on its own; part  *)
(* says which of them a behaviour is of:                                   *)
(*   "celery": the staging deployment, one cleanup worker process          *)
(*   "threads": the API's own background threads, on a database that does  *)
(*     not serialise (TASK_QUEUE_ENABLED=false)                            *)
(***************************************************************************)
EXTENDS DocumentCleanupProperties, TLC

CONSTANTS Threads, ThreadFaults
VARIABLE part

Background == INSTANCE DocumentCleanupProperties WITH
    Workers <- Threads, MaxAttempts <- 2, CeleryRetries <- 0, TaskQueue <- FALSE,
    Serializable <- FALSE, Faults <- ThreadFaults

MCInit ==
    \/ part = "celery" /\ Init
    \/ part = "threads" /\ Background!Init

MCNext ==
    /\ \/ part = "celery" /\ Next
       \/ part = "threads" /\ Background!Next
    /\ UNCHANGED part

(* The fairness of FairSpec, for the worker process and the handlers. *)
MCSpec ==
    /\ MCInit /\ [][MCNext]_<<vars, part>>
    /\ \A w \in Workers : WF_vars(part = "celery" /\ WorkerStep(w) /\ UNCHANGED part)
    /\ \A h \in Handlers : WF_vars(part = "celery" /\ HandlerStep(h) /\ UNCHANGED part)

(* The worker process implements the deletion job; threads are not asked   *)
(* for one.                                                                *)
CeleryJob == INSTANCE DeletionJob WITH
    LastStage <- SQL_METADATA, MaxAttempts <- MaxAttempts,
    job <- IF part = "celery" THEN status ELSE "NONE",
    tries <- IF part = "celery" THEN attempts ELSE 0,
    cleared <- IF part = "celery" THEN ledger ELSE {}

CeleryImplementsJob == CeleryJob!JobSpec

(* EventuallySettled of the worker process. *)
CelerySettles == part = "celery" => EventuallySettled
============================================================================
