-------------------------- MODULE DocumentCleanup --------------------------
(***************************************************************************)
(* The deletion of one document: the outbox event an administrator's       *)
(* request commits together with the document's DELETING state, the        *)
(* messages that carry the event to the cleanup workers, the workers that  *)
(* walk the stages vectors, object storage, local output and SQL metadata, *)
(* and the administrator's retry of a failed cleanup.                      *)
(*                                                                         *)
(* One event per document (deduplication key), so one document is modelled.*)
(* A step is one database transaction, one call of an external store or    *)
(* one message operation: between two of them any other worker or handler  *)
(* may run.  The administrator's retry is the one transaction that reads   *)
(* the event and writes it without the row lock mark_cleanup_started takes;*)
(* whether another transaction fits in between depends on the isolation    *)
(* level the database is deployed with (Serializable).                     *)
(***************************************************************************)
EXTENDS Integers

CONSTANTS
    Workers,        \* cleanup worker processes, or background threads of the API
    Handlers,       \* API request handlers an administrator may have in flight
    MaxAttempts,    \* settings.cleanup_max_retries, copied to event.max_attempts
    CeleryRetries,  \* Celery's own max_retries for cleanup_document_task
    TaskQueue,      \* settings.task_queue_enabled
    Serializable,   \* isolation level of the database the service runs on
    Faults,         \* the kinds of environment fault that may happen
    MaxFaults,      \* bound on the number of those faults
    MaxRequests     \* bound on the number of retry requests

FaultKinds == {"audit", "database", "crash", "api", "redelivery"}

ASSUME ConstantsAssumption ==
    /\ MaxAttempts \in Nat \ {0}
    /\ CeleryRetries \in Nat
    /\ TaskQueue \in BOOLEAN
    /\ Serializable \in BOOLEAN
    /\ Faults \subseteq FaultKinds
    /\ MaxFaults \in Nat
    /\ MaxRequests \in Nat

VARIABLES
    lifecycle,   \* Document.lifecycle_status
    deleted_at,  \* Document.deleted_at, "null" or "set"
    status,      \* OutboxEvent.status, "NONE" before the event exists
    attempts,    \* OutboxEvent.attempts
    ledger,      \* OutboxEvent.payload["completed_stages"]
    residue,     \* the stages whose store still holds data of the document
    queue,       \* messages ready for delivery, by their number of Celery retries
    pc,          \* where each worker is in cleanup_document_task
    todo,        \* the stages a worker's loop has not finished
    retries,     \* self.request.retries of the message a worker holds
    hpc,         \* where each API handler is
    seen,        \* the event status a handler's transaction has read
    faults,      \* environment faults so far
    requests     \* retry requests so far

event == <<status, attempts, ledger>>
document == <<lifecycle, deleted_at>>
worker == <<pc, todo, retries>>
handler == <<hpc, seen>>
bounds == <<faults, requests>>
vars == <<lifecycle, deleted_at, status, attempts, ledger, residue, queue,
          pc, todo, retries, hpc, seen, faults, requests>>

----------------------------------------------------------------------------
(* CLEANUP_STAGES, in the order of the tuple. *)
VECTORS == 1
OBJECT_STORAGE == 2
LOCAL_OUTPUT == 3
SQL_METADATA == 4
Stages == VECTORS .. SQL_METADATA

IsFirst(s, S) == s \in S /\ \A t \in S : s <= t

(* The stages the loop of process_cleanup_event skips none of. *)
AllStages == Stages  \* mutant: the payload is ignored

RemainingStages == Stages \ ledger

(* The statuses the worker's own read, and then its locked claim, refuse. *)
ReadRefuses == {"COMPLETED", "DEAD_LETTER", "PROCESSING"}

ClaimRefusesDone == {"COMPLETED"}  \* mutant: a running event is claimed again

ClaimRefuses == {"COMPLETED", "PROCESSING"}

(* The statuses the administrator's retry makes pending again. *)
Revived == {"RETRYING", "DEAD_LETTER"}

Statuses == {"NONE", "PENDING", "PROCESSING", "RETRYING", "DEAD_LETTER", "COMPLETED"}
Lifecycles == {"ACTIVE", "DELETING", "CLEANUP_FAILED", "RETRYING", "DELETED"}
WorkerStates == {"idle", "claim", "context", "stage", "record", "audit", "failed", "report",
                 "raise"}
HandlerStates == {"idle", "retry", "retry_write", "dispatch"}

(* Messages are counted by the Celery retries they carry. *)
Publish(r) == queue' = [queue EXCEPT ![r] = @ + 1]

TakeTwice(r) == queue' = [queue EXCEPT ![r] = @ - 1]  \* mutant: no message is needed

Take(r) ==
    /\ queue[r] > 0
    /\ queue' = [queue EXCEPT ![r] = @ - 1]

Inject(kind) ==
    /\ kind \in Faults
    /\ faults < MaxFaults
    /\ faults' = faults + 1
    /\ UNCHANGED requests

(* The message is acknowledged and the worker waits for the next one. *)
Release(w) ==
    /\ pc' = [pc EXCEPT ![w] = "idle"]
    /\ todo' = [todo EXCEPT ![w] = {}]
    /\ retries' = [retries EXCEPT ![w] = 0]

Goto(w, state) ==
    /\ pc' = [pc EXCEPT ![w] = state]
    /\ UNCHANGED <<todo, retries>>

Init ==
    /\ lifecycle = "ACTIVE"
    /\ deleted_at = "null"
    /\ status = "NONE"
    /\ attempts = 0
    /\ ledger = {}
    /\ residue = Stages
    /\ queue = [r \in 0 .. CeleryRetries |-> 0]
    /\ pc = [w \in Workers |-> "idle"]
    /\ todo = [w \in Workers |-> {}]
    /\ retries = [w \in Workers |-> 0]
    /\ hpc = [h \in Handlers |-> "idle"]
    /\ seen = [h \in Handlers |-> "NONE"]
    /\ faults = 0
    /\ requests = 0

----------------------------------------------------------------------------
(* The administrator's requests. *)

(* delete_document_endpoint up to its commit: only the first request makes *)
(* an event, every later one finds it by its deduplication key and changes *)
(* nothing, whatever has become of the event.                              *)
RequestDeletion(h) ==
    /\ hpc[h] = "idle"
    /\ status = "NONE"
    /\ lifecycle' = "DELETING"
    /\ status' = "PENDING"
    /\ attempts' = 0
    /\ ledger' = {}
    /\ hpc' = [hpc EXCEPT ![h] = "dispatch"]
    /\ UNCHANGED <<deleted_at, residue, queue, worker, seen, bounds>>

(* retry_cleanup_job: its own read of the event lets through only a        *)
(* failed cleanup.                                                         *)
RequestRetry(h) ==
    /\ hpc[h] = "idle"
    /\ status \in Revived
    /\ requests < MaxRequests
    /\ requests' = requests + 1
    /\ hpc' = [hpc EXCEPT ![h] = "retry"]
    /\ UNCHANGED <<document, event, residue, queue, worker, seen, faults>>

(* Only a dead letter gets its attempts back. *)
KeptAttempts(read) == attempts  \* mutant: nothing gets them back

AttemptsAfter(read) == IF read = "DEAD_LETTER" THEN 0 ELSE attempts

(* The write of retry_cleanup_event, from the status its SELECT returned. *)
ResetEvent(h, read) ==
    /\ status' = "PENDING"
    /\ attempts' = AttemptsAfter(read)
    /\ lifecycle' = "RETRYING"
    /\ hpc' = [hpc EXCEPT ![h] = "dispatch"]
    /\ UNCHANGED <<deleted_at, ledger>>

(* The transaction of retry_cleanup_event: a completed event is not        *)
(* dispatched, an event already pending or processing is dispatched as it  *)
(* is.                                                                     *)
RetryTransaction(h) ==
    /\ hpc[h] = "retry"
    /\ \/ /\ status = "COMPLETED"
          /\ hpc' = [hpc EXCEPT ![h] = "idle"]
          /\ UNCHANGED <<document, event, seen>>
       \/ /\ status \in {"PENDING", "PROCESSING"}
          /\ hpc' = [hpc EXCEPT ![h] = "dispatch"]
          /\ UNCHANGED <<document, event, seen>>
       \/ /\ status \in Revived
          /\ Serializable
          /\ ResetEvent(h, status)
          /\ UNCHANGED seen
       \/ /\ status \in Revived
          /\ ~Serializable
          /\ seen' = [seen EXCEPT ![h] = status]
          /\ hpc' = [hpc EXCEPT ![h] = "retry_write"]
          /\ UNCHANGED <<document, event>>

(* Read committed: the flush writes what the read decided, over whatever   *)
(* has been committed since.                                               *)
RetryWrite(h) ==
    /\ hpc[h] = "retry_write"
    /\ ResetEvent(h, seen[h])
    /\ seen' = [seen EXCEPT ![h] = "NONE"]

RetryEvent(h) ==
    /\ RetryTransaction(h) \/ RetryWrite(h)
    /\ UNCHANGED <<residue, queue, worker, bounds>>

(* _dispatch_cleanup, after the commit that created or reset the event. *)
Dispatch(h) ==
    /\ hpc[h] = "dispatch"
    /\ Publish(0)
    /\ hpc' = [hpc EXCEPT ![h] = "idle"]
    /\ UNCHANGED <<document, event, residue, worker, seen, bounds>>

(* The API process dies, or the broker refuses the message, between the    *)
(* commit and the dispatch.                                                *)
LoseDispatch(h) ==
    /\ hpc[h] = "dispatch"
    /\ Inject("api")
    /\ hpc' = [hpc EXCEPT ![h] = "idle"]
    /\ UNCHANGED <<document, event, residue, queue, worker, seen>>

----------------------------------------------------------------------------
(* A worker. *)

(* A message is delivered and process_cleanup_event reads the event. *)
Receive(w) ==
    /\ pc[w] = "idle"
    /\ \E r \in 0 .. CeleryRetries :
        /\ Take(r)
        /\ IF status \in ReadRefuses
           THEN Release(w)
           ELSE /\ pc' = [pc EXCEPT ![w] = "claim"]
                /\ retries' = [retries EXCEPT ![w] = r]
                /\ UNCHANGED todo
    /\ UNCHANGED <<document, event, residue, handler, bounds>>

LifecycleKept == lifecycle  \* mutant: the document still looks failed

LifecycleStarted == IF lifecycle = "CLEANUP_FAILED" THEN "RETRYING" ELSE lifecycle

(* mark_cleanup_started, under the row lock; the loop's set of completed   *)
(* stages is the one this transaction returned.                            *)
Claim(w) ==
    /\ pc[w] = "claim"
    /\ \/ /\ status \in ClaimRefuses
          /\ Release(w)
          /\ UNCHANGED <<document, event>>
       \/ /\ status \notin ClaimRefuses
          /\ status' = "PROCESSING"
          /\ attempts' = attempts + 1
          /\ lifecycle' = LifecycleStarted
          /\ pc' = [pc EXCEPT ![w] = "context"]
          /\ todo' = [todo EXCEPT ![w] = RemainingStages]
          /\ UNCHANGED <<deleted_at, ledger, retries>>
    /\ UNCHANGED <<residue, queue, handler, bounds>>

(* get_document_cleanup_context reads what the stages will remove, which   *)
(* DocumentVersions models.                                                *)
LoadContext(w) ==
    /\ pc[w] = "context"
    /\ Goto(w, "stage")
    /\ UNCHANGED <<document, event, residue, queue, handler, bounds>>

(* handlers[stage](context): the store no longer holds the document's data. *)
ClearStage(w) ==
    /\ pc[w] = "stage"
    /\ \E s \in Stages \ {SQL_METADATA} :
        /\ IsFirst(s, todo[w])
        /\ residue' = residue \ {s}
    /\ Goto(w, "record")
    /\ UNCHANGED <<document, event, queue, handler, bounds>>

(* finalize_document_deletion: one transaction ends the document, its      *)
(* versions, its tasks, its chunks and the event; on an event that is      *)
(* already completed it returns without a write.                           *)
Finalize(w) ==
    /\ pc[w] = "stage"
    /\ IsFirst(SQL_METADATA, todo[w])
    /\ \/ /\ status = "COMPLETED"
          /\ UNCHANGED <<document, event, residue>>
       \/ /\ status # "COMPLETED"
          /\ lifecycle' = "DELETED"
          /\ deleted_at' = "set"
          /\ status' = "COMPLETED"
          /\ ledger' = ledger \cup {SQL_METADATA}
          /\ residue' = residue \ {SQL_METADATA}
          /\ UNCHANGED attempts
    /\ Goto(w, "audit")
    /\ UNCHANGED <<queue, handler, bounds>>

(* Mutant: the exception of a stage is logged and the loop goes on. *)
SwallowStage(w) ==
    /\ pc[w] = "stage"
    /\ todo[w] # {}
    /\ Goto(w, "record")
    /\ UNCHANGED <<document, event, residue, queue, handler, bounds>>

(* A stage handler, or the finalizing transaction, raises. *)
FailStage(w) ==
    /\ pc[w] = "stage"
    /\ todo[w] # {}
    /\ Goto(w, "failed")
    /\ UNCHANGED <<document, event, residue, queue, handler, bounds>>

(* record_cleanup_stage. *)
RecordStage(w) ==
    /\ pc[w] = "record"
    /\ \E s \in Stages :
        /\ IsFirst(s, todo[w])
        /\ ledger' = ledger \cup {s}
    /\ Goto(w, "audit")
    /\ UNCHANGED <<document, status, attempts, residue, queue, handler, bounds>>

(* The transaction of record_cleanup_stage raises inside the loop's try. *)
FailRecord(w) ==
    /\ pc[w] = "record"
    /\ Inject("database")
    /\ Goto(w, "failed")
    /\ UNCHANGED <<document, event, residue, queue, handler>>

(* _audit_stage(..., "success"): the stage is behind the loop. *)
AuditStage(w) ==
    /\ pc[w] = "audit"
    /\ \E s \in Stages :
        /\ IsFirst(s, todo[w])
        /\ todo' = [todo EXCEPT ![w] = @ \ {s}]
    /\ pc' = [pc EXCEPT ![w] = "stage"]
    /\ UNCHANGED <<document, event, residue, queue, retries, handler, bounds>>

(* The audit log's own transaction raises, after the stage was recorded. *)
FailAudit(w) ==
    /\ pc[w] = "audit"
    /\ Inject("audit")
    /\ Goto(w, "failed")
    /\ UNCHANGED <<document, event, residue, queue, handler>>

(* The loop is over: the event is returned as it is. *)
Return(w) ==
    /\ pc[w] = "stage"
    /\ todo[w] = {}
    /\ Release(w)
    /\ UNCHANGED <<document, event, residue, queue, handler, bounds>>

StatusAfterFailure == IF attempts >= MaxAttempts THEN "DEAD_LETTER" ELSE "RETRYING"

(* mark_cleanup_failure, whatever the event's status is by now. *)
MarkFailure(w) ==
    /\ pc[w] = "failed"
    /\ status' = StatusAfterFailure
    /\ lifecycle' = "CLEANUP_FAILED"
    /\ Goto(w, "report")
    /\ UNCHANGED <<deleted_at, attempts, ledger, residue, queue, handler, bounds>>

(* _audit_stage(..., "failure"), then CleanupStageError. *)
AuditFailure(w) ==
    /\ pc[w] = "report"
    /\ Goto(w, "raise")
    /\ UNCHANGED <<document, event, residue, queue, handler, bounds>>

PublishesEarlyStop(w) ==  \* mutant: one retry too few
    TaskQueue /\ status = "RETRYING" /\ retries[w] + 1 < CeleryRetries

PublishesRetry(w) == TaskQueue /\ status = "RETRYING" /\ retries[w] < CeleryRetries

(* cleanup_document_task: self.retry publishes the message again while the *)
(* event is RETRYING and Celery has retries left; a background thread ends.*)
Escalate(w) ==
    /\ pc[w] = "raise"
    /\ \/ PublishesRetry(w) /\ Publish(retries[w] + 1)
       \/ ~PublishesRetry(w) /\ UNCHANGED queue
    /\ Release(w)
    /\ UNCHANGED <<document, event, residue, handler, bounds>>

(* An exception that is no CleanupStageError leaves the task: a database   *)
(* error outside the loop's try, or in the audit record of a failure.  The *)
(* message is acknowledged all the same, and a claimed event stays         *)
(* PROCESSING.                                                             *)
Abandon(w) ==
    /\ \/ pc[w] \in {"claim", "context", "failed", "raise"} /\ Inject("database")
       \/ pc[w] = "report" /\ Inject("audit")
    /\ Release(w)
    /\ UNCHANGED <<document, event, residue, queue, handler>>

(* The worker process is lost.  Late acknowledgement puts the message back *)
(* in the queue; a background thread takes its work with it.               *)
Crash(w) ==
    /\ pc[w] # "idle"
    /\ Inject("crash")
    /\ Release(w)
    /\ \/ TaskQueue /\ Publish(retries[w])
       \/ ~TaskQueue /\ UNCHANGED queue
    /\ UNCHANGED <<document, event, residue, handler>>

(* The broker's visibility timeout delivers an unacknowledged message of a *)
(* live worker a second time.                                              *)
Redeliver(w) ==
    /\ pc[w] # "idle"
    /\ TaskQueue
    /\ Inject("redelivery")
    /\ Publish(retries[w])
    /\ UNCHANGED <<document, event, residue, worker, handler>>

----------------------------------------------------------------------------
HandlerStep(h) ==
    RetryEvent(h) \/ Dispatch(h)

WorkerStep(w) ==
    \/ Receive(w) \/ Claim(w) \/ LoadContext(w)
    \/ ClearStage(w) \/ Finalize(w) \/ FailStage(w)
    \/ RecordStage(w) \/ AuditStage(w) \/ Return(w)
    \/ MarkFailure(w) \/ AuditFailure(w) \/ Escalate(w)

Fault ==
    \/ \E h \in Handlers : LoseDispatch(h)
    \/ \E w \in Workers : FailRecord(w) \/ FailAudit(w) \/ Abandon(w) \/ Crash(w) \/ Redeliver(w)

Next ==
    \/ \E h \in Handlers : RequestDeletion(h) \/ RequestRetry(h) \/ HandlerStep(h)
    \/ \E w \in Workers : WorkerStep(w)
    \/ Fault

Spec == Init /\ [][Next]_vars

(* A running worker keeps going and takes the messages that are ready; a   *)
(* handler that has started finishes.  Nothing makes an administrator ask. *)
FairSpec ==
    /\ Spec
    /\ \A w \in Workers : WF_vars(WorkerStep(w))
    /\ \A h \in Handlers : WF_vars(HandlerStep(h))

(* The same, with an administrator who retries whatever cleanup job the    *)
(* API lets her retry.                                                     *)
OperatedSpec ==
    /\ FairSpec
    /\ \A h \in Handlers : WF_vars(RequestRetry(h))
============================================================================
