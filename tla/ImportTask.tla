----------------------------- MODULE ImportTask -----------------------------
(***************************************************************************)
(* One import task: its status in the task store (Redis, or the memory of  *)
(* the process) and in the database, the messages that carry it to the     *)
(* runners, the runner that walks the nodes of the import workflow, and an *)
(* administrator who cancels or retries it through the import service.     *)
(*                                                                         *)
(* The two statuses are written one after the other, and a handler reads   *)
(* the store once and acts on what it read: a runner moves between any two *)
(* of these calls.  The handlers of the import service have no await       *)
(* between their calls, so one handler is in progress at a time.           *)
(***************************************************************************)
EXTENDS Integers

CONSTANTS
    Workers,      \* import worker processes, or background threads of the API
    Nodes,        \* nodes of the workflow; the last one writes to Milvus
    MaxRetries,   \* settings.celery_task_max_retries
    TaskQueue,    \* settings.task_queue_enabled
    Requests,     \* what an administrator does: "cancel", "retry"
    Faults,       \* "crash", "redelivery", "store", "api"
    MaxFaults,    \* bound on the number of faults
    MaxRequests,  \* bound on the number of requests
    MaxErrors     \* bound on the number of exceptions inside a run

ASSUME ImportAssumption ==
    /\ Nodes \in Nat \ {0}
    /\ MaxRetries \in Nat
    /\ TaskQueue \in BOOLEAN
    /\ MaxFaults \in Nat
    /\ MaxRequests \in Nat
    /\ MaxErrors \in Nat

VARIABLES
    store,        \* the task store's status, "none" when it has no entry
    row,          \* ImportTask.status, "none" before the row exists
    index,        \* the document's chunks in Milvus and in the metadata
    queue,        \* messages ready for delivery, by their number of Celery retries
    revoked,      \* whether the workers remember the task id as revoked
    pc,           \* where each runner is
    node,         \* the node a runner is in
    retries,      \* self.request.retries of the message a runner holds
    retryable,    \* is_retryable_import_exception of the exception a runner raised
    handler,      \* where the handler in progress is
    faults, requests, errors

statuses == <<store, row>>
messages == <<queue, revoked>>
runner == <<pc, node, retries, retryable>>
bounds == <<faults, requests, errors>>
vars == <<store, row, index, queue, revoked, pc, node, retries, retryable, handler,
          faults, requests, errors>>

----------------------------------------------------------------------------
Statuses == {"none", "pending", "processing", "completed", "failed", "cancelled"}
RunnerStates == {"idle", "begin", "start_store", "start_row", "node", "poll", "stop", "index",
                 "complete_store", "complete_row", "audit", "fail_store", "fail_row",
                 "count", "reset", "publish"}
HandlerStates == {"idle", "create_row", "dispatch", "cancel_store", "cancel_row", "revoke",
                  "retry_row", "retry_store"}

Publish(r) == queue' = [queue EXCEPT ![r] = @ + 1]

PeekAt(r) == queue[r] > 0 /\ UNCHANGED queue  \* mutant: the message stays ready

Take(r) == queue[r] > 0 /\ queue' = [queue EXCEPT ![r] = @ - 1]

Goto(w, state) ==
    /\ pc' = [pc EXCEPT ![w] = state]
    /\ UNCHANGED <<node, retries, retryable>>

(* The message is acknowledged. *)
Release(w) ==
    /\ pc' = [pc EXCEPT ![w] = "idle"]
    /\ node' = [node EXCEPT ![w] = 0]
    /\ retries' = [retries EXCEPT ![w] = 0]
    /\ retryable' = [retryable EXCEPT ![w] = "no"]

Inject(kind) ==
    /\ kind \in Faults
    /\ faults < MaxFaults
    /\ faults' = faults + 1
    /\ UNCHANGED <<requests, errors>>

Ask(kind) ==
    /\ kind \in Requests
    /\ requests < MaxRequests
    /\ requests' = requests + 1
    /\ UNCHANGED <<faults, errors>>

Init ==
    /\ store = "none"
    /\ row = "none"
    /\ index = "absent"
    /\ queue = [r \in 0 .. MaxRetries |-> 0]
    /\ revoked = "no"
    /\ pc = [w \in Workers |-> "idle"]
    /\ node = [w \in Workers |-> 0]
    /\ retries = [w \in Workers |-> 0]
    /\ retryable = [w \in Workers |-> "no"]
    /\ handler = "idle"
    /\ faults = 0 /\ requests = 0 /\ errors = 0

----------------------------------------------------------------------------
(* The import service. *)

(* A handler's step that writes one status, or both its fields alone. *)
HandlerGoes(from, to) ==
    /\ handler = from
    /\ handler' = to
    /\ UNCHANGED <<index, runner>>

(* upload_files: the store knows the task before the file is saved, *)
SubmitUpload ==
    /\ store = "none" /\ row = "none"
    /\ HandlerGoes("idle", "create_row")
    /\ store' = "pending"
    /\ UNCHANGED <<row, messages, bounds>>

(* but when the save raises, or the content is a duplicate, there is no row *)
(* ever, and only the duplicate's entry is cleared;                         *)
RejectUpload ==
    /\ HandlerGoes("create_row", "idle")
    /\ store' \in {"none", "pending"}
    /\ UNCHANGED <<row, messages, bounds>>

(* else create_import_task makes the row of the registered document. *)
CreateRow ==
    /\ HandlerGoes("create_row", "dispatch")
    /\ row' = "pending"
    /\ UNCHANGED <<store, messages, bounds>>

(* rebuild_document and rebuild_document_version make the row first; the  *)
(* store and the dispatch follow as in a retry.                           *)
SubmitRebuild ==
    /\ store = "none" /\ row = "none"
    /\ HandlerGoes("idle", "retry_store")
    /\ row' = "pending"
    /\ UNCHANGED <<store, messages, bounds>>

(* apply_async or add_task. *)
Dispatch ==
    /\ HandlerGoes("dispatch", "idle")
    /\ Publish(0)
    /\ UNCHANGED <<statuses, revoked, bounds>>

(* The process dies, or the broker refuses, before the dispatch. *)
LoseDispatch ==
    /\ HandlerGoes("dispatch", "idle")
    /\ Inject("api")
    /\ UNCHANGED <<statuses, messages>>

(* The store's status, or the row's when the store has none. *)
Current == IF store = "none" THEN row ELSE store

(* cancel_task. *)
RequestCancel ==
    /\ HandlerGoes("idle", "cancel_store")
    /\ row # "none"
    /\ Current \notin {"completed", "failed"}
    /\ Ask("cancel")
    /\ UNCHANGED <<statuses, messages>>

CancelStore ==
    /\ HandlerGoes("cancel_store", "cancel_row")
    /\ store' = "cancelled"
    /\ UNCHANGED <<row, messages, bounds>>

CancelRow ==
    /\ HandlerGoes("cancel_row", IF TaskQueue THEN "revoke" ELSE "idle")
    /\ row' = "cancelled"
    /\ UNCHANGED <<store, messages, bounds>>

(* celery_app.control.revoke, without terminating a run in progress. *)
Revoke ==
    /\ HandlerGoes("revoke", "idle")
    /\ revoked' = "yes"
    /\ UNCHANGED <<statuses, queue, bounds>>

(* retry_task accepts a failed task only. *)
RequestRetry ==
    /\ HandlerGoes("idle", "retry_row")
    /\ row # "none"
    /\ Current = "failed"
    /\ Ask("retry")
    /\ UNCHANGED <<statuses, messages>>

(* reset_import_task_for_retry, whatever the row says by now; the dispatch *)
(* that follows uses the same task id.                                     *)
RetryRow ==
    /\ HandlerGoes("retry_row", "retry_store")
    /\ row' = "pending"
    /\ UNCHANGED <<store, messages, bounds>>

RetryStore ==
    /\ HandlerGoes("retry_store", "dispatch")
    /\ store' = "pending"
    /\ UNCHANGED <<row, messages, bounds>>

(* The entry's time to live ends, or the process that held it restarts. *)
LoseStatus ==
    /\ store # "none"
    /\ row # "none"
    /\ Inject("store")
    /\ store' = "none"
    /\ UNCHANGED <<row, index, messages, runner, handler>>

----------------------------------------------------------------------------
(* A runner. *)

(* A worker discards a message whose task id it remembers as revoked. *)
Receive(w) ==
    /\ pc[w] = "idle"
    /\ \E r \in 0 .. MaxRetries :
        /\ Take(r)
        /\ \/ revoked = "yes" /\ Release(w)
           \/ /\ revoked = "no"
              /\ pc' = [pc EXCEPT ![w] = "begin"]
              /\ retries' = [retries EXCEPT ![w] = r]
              /\ UNCHANGED <<node, retryable>>
    /\ UNCHANGED <<statuses, index, revoked, handler, bounds>>

(* A runner's step that leaves everything but its own state alone. *)
Silent == UNCHANGED <<statuses, index, messages, handler, bounds>>

(* _run_import_graph_in_context: a task cancelled by now is not run. *)
Begin(w) ==
    /\ pc[w] = "begin"
    /\ \/ store = "cancelled" /\ Release(w)
       \/ store # "cancelled" /\ Goto(w, "start_store")
    /\ Silent

WriteStore(w, from, status, to) ==
    /\ pc[w] = from
    /\ store' = status
    /\ Goto(w, to)
    /\ UNCHANGED <<row, index, messages, handler, bounds>>

WriteRow(w, from, status) ==
    /\ pc[w] = from
    /\ row' = status
    /\ UNCHANGED <<store, messages, handler, bounds>>

StartStore(w) == WriteStore(w, "start_store", "processing", "start_row")

StartRow(w) ==
    /\ WriteRow(w, "start_row", "processing")
    /\ pc' = [pc EXCEPT ![w] = "node"]
    /\ node' = [node EXCEPT ![w] = 1]
    /\ UNCHANGED <<index, retries, retryable>>

(* A node ends, and update_import_task puts its progress in the row. *)
EndNode(w) ==
    /\ WriteRow(w, "node", "processing")
    /\ index' = IF node[w] = Nodes THEN "whole" ELSE index
    /\ Goto(w, "poll")

SkipsLast(w) == node[w] >= Nodes - 1  \* mutant: the graph ends one node early

IsLast(w) == node[w] = Nodes

(* The store's status between two nodes, and after the last one. *)
Poll(w) ==
    /\ pc[w] = "poll"
    /\ \/ /\ store = "cancelled"
          /\ Goto(w, "stop")
       \/ /\ store # "cancelled"
          /\ IsLast(w)
          /\ Goto(w, "index")
       \/ /\ store # "cancelled"
          /\ ~IsLast(w)
          /\ pc' = [pc EXCEPT ![w] = "node"]
          /\ node' = [node EXCEPT ![w] = @ + 1]
          /\ UNCHANGED <<retries, retryable>>
    /\ Silent

StopCancelled(w) ==
    /\ WriteRow(w, "stop", "cancelled")
    /\ Release(w)
    /\ UNCHANGED index

(* replace_chunk_metadata and activate_document_version. *)
IndexMetadata(w) ==
    /\ pc[w] = "index"
    /\ Goto(w, "complete_store")
    /\ Silent

CompleteStore(w) == WriteStore(w, "complete_store", "completed", "complete_row")

CompleteRow(w) ==
    /\ WriteRow(w, "complete_row", "completed")
    /\ Goto(w, "audit")
    /\ UNCHANGED index

AuditCompletion(w) ==
    /\ pc[w] = "audit"
    /\ Release(w)
    /\ Silent

(* An exception in the try block.  In the last node it may leave Milvus    *)
(* without the document's chunks, which that node deletes first.           *)
Raise(w) ==
    /\ pc[w] \in {"start_row", "node", "poll", "index", "complete_row", "audit"}
    /\ errors < MaxErrors
    /\ errors' = errors + 1
    /\ \/ UNCHANGED index
       \/ pc[w] = "node" /\ node[w] = Nodes /\ index' = "partial"
    /\ pc' = [pc EXCEPT ![w] = "fail_store"]
    /\ \E kind \in {"no", "yes"} : retryable' = [retryable EXCEPT ![w] = kind]
    /\ UNCHANGED <<statuses, messages, node, retries, handler, faults, requests>>

(* Mutant: the exception's handler writes the database only. *)
FailSilently(w) == pc[w] = "fail_store" /\ Goto(w, "fail_row") /\ Silent

FailStore(w) == WriteStore(w, "fail_store", "failed", "fail_row")

RetryIsLeft(w) == retries[w] < MaxRetries

(* import_document_task retries a retryable exception; a background thread *)
(* has nobody to raise it to.                                              *)
FailRow(w) ==
    /\ WriteRow(w, "fail_row", "failed")
    /\ \/ TaskQueue /\ retryable[w] = "yes" /\ RetryIsLeft(w) /\ Goto(w, "count")
       \/ ~(TaskQueue /\ retryable[w] = "yes" /\ RetryIsLeft(w)) /\ Release(w)
    /\ UNCHANGED index

(* increment_import_retry leaves the row's status as it is. *)
CountRetry(w) ==
    /\ pc[w] = "count"
    /\ Goto(w, "reset")
    /\ Silent

ResetStore(w) == WriteStore(w, "reset", "pending", "publish")

PublishRetry(w) ==
    /\ pc[w] = "publish"
    /\ Publish(retries[w] + 1)
    /\ Release(w)
    /\ UNCHANGED <<statuses, index, revoked, handler, bounds>>

EarlyAcknowledgement(w) == UNCHANGED queue  \* mutant: task_acks_late is off

(* Late acknowledgement returns the message of a lost worker; a background *)
(* thread takes its task with it.                                          *)
ReturnMessage(w) == IF TaskQueue THEN Publish(retries[w]) ELSE UNCHANGED queue

(* The worker is lost; in the last node Milvus may lack the chunks. *)
Crash(w) ==
    /\ pc[w] # "idle"
    /\ Inject("crash")
    /\ ReturnMessage(w)
    /\ \/ UNCHANGED index
       \/ pc[w] = "node" /\ node[w] = Nodes /\ index' = "partial"
    /\ Release(w)
    /\ UNCHANGED <<statuses, revoked, handler>>

(* The broker delivers an unacknowledged message again. *)
Redeliver(w) ==
    /\ pc[w] # "idle"
    /\ TaskQueue
    /\ Inject("redelivery")
    /\ Publish(retries[w])
    /\ UNCHANGED <<statuses, index, revoked, runner, handler>>

----------------------------------------------------------------------------
HandlerStep ==
    \/ CreateRow \/ Dispatch
    \/ CancelStore \/ CancelRow \/ Revoke
    \/ RetryRow \/ RetryStore

RunnerStep(w) ==
    \/ Receive(w) \/ Begin(w) \/ StartStore(w) \/ StartRow(w)
    \/ EndNode(w) \/ Poll(w) \/ StopCancelled(w)
    \/ IndexMetadata(w) \/ CompleteStore(w) \/ CompleteRow(w) \/ AuditCompletion(w)
    \/ FailStore(w) \/ FailRow(w) \/ CountRetry(w) \/ ResetStore(w) \/ PublishRetry(w)

Next ==
    \/ SubmitUpload \/ RejectUpload \/ SubmitRebuild \/ RequestCancel \/ RequestRetry \/ HandlerStep
    \/ LoseDispatch \/ LoseStatus
    \/ \E w \in Workers : RunnerStep(w) \/ Raise(w) \/ Crash(w) \/ Redeliver(w)

Spec == Init /\ [][Next]_vars

(* A runner keeps going, a started handler finishes, and a ready message   *)
(* is taken.                                                               *)
FairSpec ==
    /\ Spec
    /\ WF_vars(HandlerStep)
    /\ \A w \in Workers : WF_vars(RunnerStep(w))
============================================================================
