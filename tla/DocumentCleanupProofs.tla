----------------------- MODULE DocumentCleanupProofs -----------------------
(***************************************************************************)
(* Proofs about the document cleanup, for any number of workers, handlers, *)
(* attempts and faults.                                                    *)
(***************************************************************************)
EXTENDS MCCleanupDeployments, TLAPS

USE DEF VECTORS, OBJECT_STORAGE, LOCAL_OUTPUT, SQL_METADATA, Stages, RemainingStages,
        ClaimRefuses, Revived

(* Celery's retry limit is a natural number. *)
LEMMA RetriesNat == CeleryRetries \in Nat
BY ConstantsAssumption DEF ConstantsAssumption

(***************************************************************************)
(* Type correctness.                                                       *)
(***************************************************************************)

LEMMA TypeInit == Init => TypeOK
BY RetriesNat DEF Init, TypeOK, Lifecycles, Statuses, WorkerStates, HandlerStates, FaultKinds

(* The steps of the API handlers keep every variable's type. *)
LEMMA TypeHandler ==
    ASSUME TypeOK, NEW h \in Handlers,
           \/ RequestDeletion(h) \/ RequestRetry(h) \/ HandlerStep(h) \/ LoseDispatch(h)
    PROVE  TypeOK'
<1>1. CASE RequestDeletion(h)
  BY <1>1 DEF RequestDeletion, TypeOK, HandlerStates, Statuses, Lifecycles, worker, bounds
<1>2. CASE RequestRetry(h)
  BY <1>2 DEF RequestRetry, TypeOK, HandlerStates, document, event, worker
<1>3. CASE RetryEvent(h) /\ RetryTransaction(h)
  <2>1. CASE UNCHANGED <<document, event, seen>>
    <3>1. hpc' \in [Handlers -> HandlerStates]
      BY <1>3 DEF RetryTransaction, ResetEvent, AttemptsAfter, TypeOK, HandlerStates
    <3> QED
      BY <1>3, <2>1, <3>1 DEF RetryEvent, TypeOK, document, event, worker, bounds
  <2>2. CASE ResetEvent(h, status) /\ UNCHANGED seen
    BY <1>3, <2>2 DEF RetryEvent, ResetEvent, AttemptsAfter, TypeOK, HandlerStates, Statuses,
       Lifecycles, worker, bounds
  <2>3. CASE /\ seen' = [seen EXCEPT ![h] = status]
             /\ hpc' = [hpc EXCEPT ![h] = "retry_write"]
             /\ UNCHANGED <<document, event>>
    <3>1. UNCHANGED <<document, event, residue, queue, worker, bounds>>
      BY <1>3, <2>3 DEF RetryEvent
    <3> QED
      BY <2>3, <3>1 DEF TypeOK, HandlerStates, Statuses, document, event, worker, bounds
  <2> QED
    BY <1>3, <2>1, <2>2, <2>3 DEF RetryTransaction
<1>4. CASE RetryEvent(h) /\ RetryWrite(h)
  BY <1>4 DEF RetryEvent, RetryWrite, ResetEvent, AttemptsAfter, TypeOK, HandlerStates, Statuses, Lifecycles,
     worker, bounds
<1>5. CASE Dispatch(h)
  BY <1>5, RetriesNat DEF Dispatch, Publish, TypeOK, HandlerStates, document, event,
     worker, bounds
<1>6. CASE LoseDispatch(h)
  BY <1>6 DEF LoseDispatch, Inject, TypeOK, HandlerStates, document, event, worker
<1> QED
  BY <1>1, <1>2, <1>3, <1>4, <1>5, <1>6 DEF HandlerStep, RetryEvent

(* The queue after a message has been published or taken. *)
QueueTypeOK == queue \in [0 .. CeleryRetries -> Nat]

LEMMA PublishTypes ==
    ASSUME QueueTypeOK, NEW r \in 0 .. CeleryRetries, Publish(r)
    PROVE  QueueTypeOK'
BY DEF Publish, QueueTypeOK

LEMMA TakeTypes ==
    ASSUME QueueTypeOK, NEW r \in 0 .. CeleryRetries, queue[r] > 0,
           queue' = [queue EXCEPT ![r] = @ - 1]
    PROVE  QueueTypeOK'
BY DEF QueueTypeOK

(* What a worker's control variables may become. *)
WorkerTypeOK ==
    /\ pc \in [Workers -> WorkerStates]
    /\ todo \in [Workers -> SUBSET Stages]
    /\ retries \in [Workers -> 0 .. CeleryRetries]

LEMMA WorkerTypes == TypeOK => WorkerTypeOK /\ QueueTypeOK
BY DEF TypeOK, WorkerTypeOK, QueueTypeOK

LEMMA ReleaseTypes ==
    ASSUME WorkerTypeOK, NEW w \in Workers, Release(w)
    PROVE  WorkerTypeOK'
BY RetriesNat DEF Release, WorkerTypeOK, WorkerStates

LEMMA GotoTypes ==
    ASSUME WorkerTypeOK, NEW w \in Workers, NEW state \in WorkerStates, Goto(w, state)
    PROVE  WorkerTypeOK'
BY DEF Goto, WorkerTypeOK

(* The steps of a worker and the faults that hit it keep every type. *)
LEMMA TypeWorker ==
    ASSUME TypeOK, NEW w \in Workers,
           \/ WorkerStep(w)
           \/ FailRecord(w) \/ FailAudit(w) \/ Abandon(w) \/ Crash(w) \/ Redeliver(w)
    PROVE  TypeOK'
<1>1. CASE Receive(w)
  <2> PICK r \in 0 .. CeleryRetries :
        /\ queue[r] > 0
        /\ queue' = [queue EXCEPT ![r] = @ - 1]
        /\ \/ Release(w)
           \/ /\ pc' = [pc EXCEPT ![w] = "claim"]
              /\ retries' = [retries EXCEPT ![w] = r]
              /\ UNCHANGED todo
    BY <1>1 DEF Receive, Take
  <2>1. QueueTypeOK'
    BY TakeTypes, WorkerTypes
  <2>2. WorkerTypeOK'
    BY ReleaseTypes, WorkerTypes DEF WorkerTypeOK, WorkerStates
  <2> QED
    BY <1>1, <2>1, <2>2 DEF Receive, TypeOK, WorkerTypeOK, QueueTypeOK, document, event, handler, bounds
<1>2. CASE Claim(w)
  <2>1. UNCHANGED <<residue, queue, handler, bounds>>
    BY <1>2 DEF Claim
  <2>2. CASE Release(w) /\ UNCHANGED <<document, event>>
    BY <2>1, <2>2, ReleaseTypes, WorkerTypes
       DEF TypeOK, WorkerTypeOK, document, event, handler, bounds
  <2>3. CASE /\ status' = "PROCESSING"
             /\ attempts' = attempts + 1
             /\ lifecycle' = LifecycleStarted
             /\ pc' = [pc EXCEPT ![w] = "context"]
             /\ todo' = [todo EXCEPT ![w] = Stages \ ledger]
             /\ UNCHANGED <<deleted_at, ledger, retries>>
    BY <2>1, <2>3 DEF TypeOK, LifecycleStarted, WorkerStates, Statuses, Lifecycles, handler, bounds
  <2> QED
    BY <1>2, <2>2, <2>3 DEF Claim
<1>3. CASE ClearStage(w)
  <2>1. Goto(w, "record") /\ residue' \subseteq Stages
    BY <1>3 DEF ClearStage, TypeOK
  <2> QED
    BY <1>3, <2>1, GotoTypes, WorkerTypes
       DEF ClearStage, TypeOK, WorkerTypeOK, WorkerStates, document, event, handler, bounds
<1>4. CASE Finalize(w)
  <2>1. WorkerTypeOK'
    BY <1>4, GotoTypes, WorkerTypes DEF Finalize, WorkerStates
  <2>2. UNCHANGED <<queue, handler, bounds>>
    BY <1>4 DEF Finalize
  <2>3. CASE UNCHANGED <<document, event, residue>>
    BY <2>1, <2>2, <2>3 DEF TypeOK, WorkerTypeOK, document, event, handler, bounds
  <2>4. CASE status # "COMPLETED"
    <3>1. /\ lifecycle' = "DELETED"
          /\ deleted_at' = "set"
          /\ status' = "COMPLETED"
          /\ ledger' = ledger \cup {SQL_METADATA}
          /\ residue' = residue \ {SQL_METADATA}
          /\ UNCHANGED attempts
      BY <1>4, <2>4 DEF Finalize, document, event
    <3> QED
      BY <2>1, <2>2, <3>1 DEF TypeOK, WorkerTypeOK, Statuses, Lifecycles, handler, bounds
  <2> QED
    BY <1>4, <2>3, <2>4 DEF Finalize
<1>5. CASE RecordStage(w)
  <2>1. Goto(w, "audit") /\ ledger' \subseteq Stages
    BY <1>5 DEF RecordStage, TypeOK
  <2> QED
    BY <1>5, <2>1, GotoTypes, WorkerTypes
       DEF RecordStage, TypeOK, WorkerTypeOK, WorkerStates, document, handler, bounds
<1>6. CASE AuditStage(w)
  <2> PICK s \in Stages : todo' = [todo EXCEPT ![w] = @ \ {s}]
    BY <1>6 DEF AuditStage
  <2>1. todo' \in [Workers -> SUBSET Stages]
    BY DEF TypeOK
  <2> QED
    BY <1>6, <2>1 DEF AuditStage, TypeOK, WorkerStates, document, event, handler, bounds
<1>7. CASE FailStage(w) \/ AuditFailure(w) \/ LoadContext(w)
  <2>1. WorkerTypeOK'
    BY <1>7, GotoTypes, WorkerTypes DEF FailStage, AuditFailure, LoadContext, WorkerStates
  <2> QED
    BY <1>7, <2>1 DEF FailStage, AuditFailure, LoadContext, TypeOK, WorkerTypeOK, document,
       event, handler, bounds
<1>8. CASE MarkFailure(w)
  <2>1. WorkerTypeOK'
    BY <1>8, GotoTypes, WorkerTypes DEF MarkFailure, WorkerStates
  <2> QED
    BY <1>8, <2>1 DEF MarkFailure, StatusAfterFailure, TypeOK, WorkerTypeOK, Statuses, Lifecycles, handler, bounds
<1>9. CASE Return(w)
  <2>1. WorkerTypeOK'
    BY <1>9, ReleaseTypes, WorkerTypes DEF Return
  <2> QED
    BY <1>9, <2>1 DEF Return, TypeOK, WorkerTypeOK, document, event, handler, bounds
<1>10. CASE Escalate(w)
  <2>1. WorkerTypeOK'
    BY <1>10, ReleaseTypes, WorkerTypes DEF Escalate
  <2>2. QueueTypeOK'
    <3>1. CASE UNCHANGED queue
      BY <3>1, WorkerTypes DEF QueueTypeOK
    <3>2. CASE retries[w] < CeleryRetries /\ Publish(retries[w] + 1)
      <4>1. retries[w] + 1 \in 0 .. CeleryRetries
        BY <3>2, RetriesNat, WorkerTypes DEF WorkerTypeOK
      <4> QED
        BY <3>2, <4>1, PublishTypes, WorkerTypes
    <3> QED
      BY <1>10, <3>1, <3>2 DEF Escalate, PublishesRetry
  <2> QED
    BY <1>10, <2>1, <2>2 DEF Escalate, TypeOK, WorkerTypeOK, QueueTypeOK, document, event,
       handler, bounds
<1>11. CASE FailRecord(w) \/ FailAudit(w)
  <2>1. WorkerTypeOK'
    BY <1>11, GotoTypes, WorkerTypes DEF FailRecord, FailAudit, WorkerStates
  <2>2. faults' \in Nat /\ UNCHANGED requests
    BY <1>11 DEF FailRecord, FailAudit, Inject, TypeOK
  <2>3. UNCHANGED <<document, event, residue, queue, handler>>
    BY <1>11 DEF FailRecord, FailAudit
  <2> QED
    BY <2>1, <2>2, <2>3 DEF TypeOK, WorkerTypeOK, document, event, handler
<1>12. CASE Abandon(w)
  <2>1. WorkerTypeOK'
    BY <1>12, ReleaseTypes, WorkerTypes DEF Abandon
  <2>2. faults' \in Nat /\ UNCHANGED requests
    BY <1>12 DEF Abandon, Inject, TypeOK
  <2>3. UNCHANGED <<document, event, residue, queue, handler>>
    BY <1>12 DEF Abandon
  <2> QED
    BY <2>1, <2>2, <2>3 DEF TypeOK, WorkerTypeOK, document, event, handler
<1>13. CASE Crash(w)
  <2>1. WorkerTypeOK'
    BY <1>13, ReleaseTypes, WorkerTypes DEF Crash
  <2>2. QueueTypeOK'
    <3>1. retries[w] \in 0 .. CeleryRetries
      BY WorkerTypes DEF WorkerTypeOK
    <3> QED
      BY <1>13, <3>1, PublishTypes, WorkerTypes DEF Crash, QueueTypeOK
  <2> QED
    BY <1>13, <2>1, <2>2 DEF Crash, Inject, TypeOK, WorkerTypeOK, QueueTypeOK, document, event, handler
<1>14. CASE Redeliver(w)
  <2>1. QueueTypeOK'
    <3>1. retries[w] \in 0 .. CeleryRetries
      BY WorkerTypes DEF WorkerTypeOK
    <3> QED
      BY <1>14, <3>1, PublishTypes, WorkerTypes DEF Redeliver
  <2> QED
    BY <1>14, <2>1 DEF Redeliver, Inject, TypeOK, QueueTypeOK, document, event, worker, handler
<1> QED
  BY <1>1, <1>2, <1>3, <1>4, <1>5, <1>6, <1>7, <1>8, <1>9, <1>10, <1>11, <1>12, <1>13,
     <1>14 DEF WorkerStep

(* A step of the system is a step of a handler or of a worker. *)
LEMMA StepOfHandlerOrWorker ==
    Next => \/ \E h \in Handlers :
                 RequestDeletion(h) \/ RequestRetry(h) \/ HandlerStep(h) \/ LoseDispatch(h)
            \/ \E w \in Workers :
                 \/ WorkerStep(w)
                 \/ FailRecord(w) \/ FailAudit(w) \/ Abandon(w) \/ Crash(w) \/ Redeliver(w)
BY DEF Next, Fault

LEMMA TypeHoldsOn == TypeOK /\ [Next]_vars => TypeOK'
<1>1. CASE Next
  BY <1>1, TypeHandler, TypeWorker, StepOfHandlerOrWorker
<1>2. CASE UNCHANGED vars
  BY <1>2 DEF TypeOK, vars
<1> QED
  BY <1>1, <1>2

(* Every reachable state is well typed, for every value of the constants.  *)
THEOREM TypeCorrect == Spec => []TypeOK
BY TypeInit, TypeHoldsOn, PTL DEF Spec

(***************************************************************************)
(* A deleted document has nothing left in any store.                       *)
(***************************************************************************)

InLoop == {"context", "stage", "record", "audit"}

(* No step that leaves the stores, the ledger and the deletion mark alone, *)
(* completes no event and moves no worker within its loop can disturb it.  *)
LEMMA CleanQuiet ==
    ASSUME CleanInv,
           UNCHANGED <<ledger, residue, deleted_at>>,
           status' # "COMPLETED" \/ UNCHANGED status,
           \A w \in Workers : pc'[w] \in InLoop => pc'[w] = pc[w] /\ todo'[w] = todo[w]
    PROVE  CleanInv'
BY DEF CleanInv, DeletedMeansClean, InLoop

LEMMA CleanHandler ==
    ASSUME TypeOK, CleanInv, NEW h \in Handlers,
           \/ RequestDeletion(h) \/ RequestRetry(h) \/ HandlerStep(h) \/ LoseDispatch(h)
    PROVE  CleanInv'
<1>1. CASE RequestDeletion(h)
  <2>1. residue' = residue /\ deleted_at' = deleted_at /\ ledger' = {} /\ status' = "PENDING"
        /\ UNCHANGED <<pc, todo>>
    BY <1>1 DEF RequestDeletion, worker
  <2> QED
    BY <2>1 DEF CleanInv, DeletedMeansClean
<1>2. CASE RequestRetry(h) \/ Dispatch(h) \/ LoseDispatch(h)
  <2>1. UNCHANGED <<ledger, residue, deleted_at, status, pc, todo>>
    BY <1>2 DEF RequestRetry, Dispatch, LoseDispatch, document, event, worker
  <2> QED
    BY <2>1, CleanQuiet
<1>3. CASE RetryEvent(h)
  <2>1. UNCHANGED <<residue, pc, todo>>
    BY <1>3 DEF RetryEvent, worker
  <2>2. UNCHANGED <<ledger, deleted_at>> /\ (status' # "COMPLETED" \/ UNCHANGED status)
    BY <1>3 DEF RetryEvent, RetryTransaction, RetryWrite, ResetEvent, document, event
  <2> QED
    BY <2>1, <2>2, CleanQuiet
<1> QED
  BY <1>1, <1>2, <1>3 DEF HandlerStep

(* Where a step of w leaves the other workers. *)
LEMMA GotoOthers ==
    ASSUME WorkerTypeOK, NEW w \in Workers, NEW state, Goto(w, state)
    PROVE  /\ pc'[w] = state
           /\ todo' = todo
           /\ \A v \in Workers \ {w} : pc'[v] = pc[v]
BY DEF Goto, WorkerTypeOK

LEMMA ReleaseOthers ==
    ASSUME WorkerTypeOK, NEW w \in Workers, Release(w)
    PROVE  /\ pc'[w] = "idle"
           /\ todo'[w] = {}
           /\ \A v \in Workers \ {w} : pc'[v] = pc[v] /\ todo'[v] = todo[v]
BY DEF Release, WorkerTypeOK

(* Every step of a worker but the six that lead it through its loop. *)
LEMMA QuietSteps ==
    ASSUME TypeOK, NEW w \in Workers,
           \/ Receive(w) \/ FailStage(w) \/ Return(w) \/ MarkFailure(w) \/ AuditFailure(w)
           \/ Escalate(w) \/ FailRecord(w) \/ FailAudit(w) \/ Abandon(w) \/ Crash(w)
           \/ Redeliver(w)
    PROVE  /\ UNCHANGED <<ledger, residue, deleted_at>>
           /\ status' # "COMPLETED" \/ UNCHANGED status
           /\ \A v \in Workers : pc'[v] \in InLoop => pc'[v] = pc[v] /\ todo'[v] = todo[v]
<1>1. UNCHANGED <<ledger, residue, deleted_at>> /\ (status' # "COMPLETED" \/ UNCHANGED status)
  BY DEF Receive, FailStage, Return, MarkFailure, StatusAfterFailure, AuditFailure, Escalate, FailRecord,
         FailAudit, Abandon, Crash, Redeliver, document, event
<1>2. CASE Release(w)
  BY <1>1, <1>2, ReleaseOthers, WorkerTypes DEF InLoop
<1>3. CASE Goto(w, "failed") \/ Goto(w, "report") \/ Goto(w, "raise")
  BY <1>1, <1>3, GotoOthers, WorkerTypes DEF InLoop
<1>4. CASE UNCHANGED worker
  BY <1>1, <1>4 DEF worker
<1>5. CASE Receive(w)
  <2>1. CASE pc' = [pc EXCEPT ![w] = "claim"] /\ UNCHANGED todo
    BY <1>1, <2>1 DEF TypeOK, InLoop
  <2> QED
    BY <1>2, <1>5, <2>1 DEF Receive
<1> QED
  BY <1>2, <1>3, <1>4, <1>5 DEF FailStage, Return, MarkFailure, AuditFailure, Escalate,
     FailRecord, FailAudit, Abandon, Crash, Redeliver

LEMMA CleanWorker ==
    ASSUME TypeOK, CleanInv, NEW w \in Workers,
           \/ WorkerStep(w)
           \/ FailRecord(w) \/ FailAudit(w) \/ Abandon(w) \/ Crash(w) \/ Redeliver(w)
    PROVE  CleanInv'
<1>1. CASE Claim(w)
  <2>1. CASE Release(w) /\ UNCHANGED <<document, event>>
    BY <1>1, <2>1, CleanQuiet, ReleaseOthers, WorkerTypes DEF Claim, InLoop, document, event
  <2>2. CASE /\ status' = "PROCESSING"
             /\ pc' = [pc EXCEPT ![w] = "context"]
             /\ todo' = [todo EXCEPT ![w] = Stages \ ledger]
             /\ UNCHANGED <<deleted_at, ledger>>
    <3>1. UNCHANGED residue
      BY <1>1 DEF Claim
    <3>2. residue \subseteq Stages \ ledger
      BY DEF TypeOK, CleanInv
    <3>3. /\ pc'[w] = "context" /\ todo'[w] = Stages \ ledger
          /\ \A v \in Workers \ {w} : pc'[v] = pc[v] /\ todo'[v] = todo[v]
      BY <2>2, WorkerTypes DEF WorkerTypeOK
    <3> QED
      BY <2>2, <3>1, <3>2, <3>3 DEF CleanInv, DeletedMeansClean
  <2> QED
    BY <1>1, <2>1, <2>2 DEF Claim
<1>2. CASE ClearStage(w)
  <2>1. PICK s \in Stages : IsFirst(s, todo[w]) /\ residue' = residue \ {s}
    BY <1>2 DEF ClearStage
  <2>2. /\ pc[w] = "stage" /\ pc'[w] = "record" /\ todo' = todo
        /\ \A v \in Workers \ {w} : pc'[v] = pc[v]
    BY <1>2, GotoOthers, WorkerTypes DEF ClearStage
  <2>3. UNCHANGED <<ledger, deleted_at, status>>
    BY <1>2 DEF ClearStage, document, event
  <2>4. \A r \in residue' : \E t \in todo[w] : t < r
    BY <2>1, <2>2 DEF CleanInv, IsFirst, TypeOK
  <2> QED
    BY <2>1, <2>2, <2>3, <2>4 DEF CleanInv, DeletedMeansClean
<1>3. CASE Finalize(w)
  <2>1. /\ pc[w] = "stage" /\ pc'[w] = "audit" /\ todo' = todo
        /\ \A v \in Workers \ {w} : pc'[v] = pc[v]
    BY <1>3, GotoOthers, WorkerTypes DEF Finalize
  <2>2. residue \subseteq {SQL_METADATA}
    <3>1. todo[w] \subseteq Stages /\ residue \subseteq todo[w]
      BY <2>1 DEF TypeOK, CleanInv
    <3>2. \A t \in todo[w] : 4 <= t
      BY <1>3 DEF Finalize, IsFirst
    <3> QED
      BY <3>1, <3>2
  <2>3. CASE status = "COMPLETED"
    <3>1. UNCHANGED <<ledger, deleted_at, status, residue>>
      BY <1>3, <2>3 DEF Finalize, document, event
    <3>2. residue = {}
      BY <2>3 DEF CleanInv, DeletedMeansClean
    <3> QED
      BY <2>1, <3>1, <3>2 DEF CleanInv, DeletedMeansClean
  <2>4. CASE status # "COMPLETED"
    <3>1. /\ residue' = {} /\ deleted_at' = "set"
      BY <1>3, <2>2, <2>4 DEF Finalize
    <3> QED
      BY <3>1 DEF CleanInv, DeletedMeansClean
  <2> QED
    BY <2>3, <2>4
<1>4. CASE RecordStage(w)
  <2>1. PICK s \in Stages : IsFirst(s, todo[w]) /\ ledger' = ledger \cup {s}
    BY <1>4 DEF RecordStage
  <2>2. /\ pc[w] = "record" /\ pc'[w] = "audit" /\ todo' = todo
        /\ \A v \in Workers \ {w} : pc'[v] = pc[v]
    BY <1>4, GotoOthers, WorkerTypes DEF RecordStage
  <2>3. UNCHANGED <<residue, deleted_at, status>>
    BY <1>4 DEF RecordStage, document
  <2>4. s \notin residue
    BY <2>1, <2>2 DEF CleanInv, IsFirst, TypeOK
  <2> QED
    BY <2>1, <2>2, <2>3, <2>4 DEF CleanInv, DeletedMeansClean
<1>5. CASE AuditStage(w)
  <2>1. PICK s \in Stages : IsFirst(s, todo[w]) /\ todo' = [todo EXCEPT ![w] = @ \ {s}]
    BY <1>5 DEF AuditStage
  <2>2. /\ pc[w] = "audit" /\ pc'[w] = "stage" /\ todo'[w] = todo[w] \ {s}
        /\ \A v \in Workers \ {w} : pc'[v] = pc[v] /\ todo'[v] = todo[v]
    BY <1>5, <2>1, WorkerTypes DEF AuditStage, WorkerTypeOK
  <2>3. UNCHANGED <<ledger, residue, deleted_at, status>>
    BY <1>5 DEF AuditStage, document, event
  <2>4. s \notin residue
    BY <2>1, <2>2 DEF CleanInv, IsFirst, TypeOK
  <2>5. residue \subseteq todo'[w]
    BY <2>2, <2>4 DEF CleanInv
  <2> QED
    BY <2>2, <2>3, <2>5 DEF CleanInv, DeletedMeansClean
<1>6. CASE LoadContext(w)
  <2>1. /\ pc[w] = "context" /\ pc'[w] = "stage" /\ todo' = todo
        /\ \A v \in Workers \ {w} : pc'[v] = pc[v]
    BY <1>6, GotoOthers, WorkerTypes DEF LoadContext
  <2>2. UNCHANGED <<ledger, residue, deleted_at, status>>
    BY <1>6 DEF LoadContext, document, event
  <2> QED
    BY <2>1, <2>2 DEF CleanInv, DeletedMeansClean
<1> QED
  BY <1>1, <1>2, <1>3, <1>4, <1>5, <1>6, CleanQuiet, QuietSteps DEF WorkerStep

LEMMA CleanHoldsAtFirst == Init => CleanInv
BY DEF Init, CleanInv, DeletedMeansClean

LEMMA CleanHoldsOn == TypeOK /\ CleanInv /\ [Next]_vars => CleanInv'
<1>1. CASE Next
  BY <1>1, CleanHandler, CleanWorker, StepOfHandlerOrWorker
<1>2. CASE UNCHANGED vars
  BY <1>2 DEF CleanInv, DeletedMeansClean, vars
<1> QED
  BY <1>1, <1>2

LEMMA CleanCorrect == Spec => []CleanInv
BY CleanHoldsAtFirst, CleanHoldsOn, TypeCorrect, PTL DEF Spec

(* Whichever workers cleared the stages, in whichever attempts, a document *)
(* marked deleted has no vector, no object, no local file and no metadata  *)
(* left.                                                                   *)
THEOREM DeletedDocumentsAreClean == Spec => []DeletedMeansClean
BY CleanCorrect, PTL DEF CleanInv

(***************************************************************************)
(* One owner at a time, and no stage twice, on a serialisable database.    *)
(***************************************************************************)

IsOwnerState == {"context", "stage", "record", "audit", "failed"}

(* Steps that take nobody's ownership and give none: the event's status is *)
(* kept, or nobody owns the event.                                         *)
LEMMA OwnerQuiet ==
    ASSUME OwnerInv, LedgerInv,
           ledger' = ledger \/ ledger' = {},
           \A h \in Handlers : hpc'[h] # "retry_write",
           \/ UNCHANGED status
           \/ status \notin {"PROCESSING", "COMPLETED"},
           \A w \in Workers : pc'[w] \in IsOwnerState => pc'[w] = pc[w] /\ todo'[w] = todo[w]
    PROVE  OwnerInv' /\ LedgerInv'
<1>1. \A w \in Workers : Owns(w)' => Owns(w)
  BY DEF Owns, IsOwnerState
<1>2. OwnerInv'
  BY <1>1 DEF OwnerInv, SingleOwner, IsOwnerState
<1>3. LedgerInv'
  BY DEF LedgerInv, IsOwnerState, IsFirst
<1> QED
  BY <1>2, <1>3

LEMMA OwnerHandler ==
    ASSUME Serializable, TypeOK, OwnerInv, LedgerInv, NEW h \in Handlers,
           \/ RequestDeletion(h) \/ RequestRetry(h) \/ HandlerStep(h) \/ LoseDispatch(h)
    PROVE  OwnerInv' /\ LedgerInv'
<1>1. UNCHANGED <<pc, todo>> /\ (ledger' = ledger \/ ledger' = {})
  BY DEF RequestDeletion, RequestRetry, HandlerStep, RetryEvent, RetryTransaction, RetryWrite, ResetEvent,
     Dispatch, LoseDispatch, event, worker
<1>2. ~RetryWrite(h)
  BY DEF RetryWrite, OwnerInv
<1>3. \/ UNCHANGED status
      \/ status \notin {"PROCESSING", "COMPLETED"}
  BY <1>2 DEF RequestDeletion, RequestRetry, HandlerStep, RetryEvent, RetryTransaction, Dispatch,
     LoseDispatch, event
<1>4. \E state \in {"idle", "retry", "dispatch"} : hpc' = [hpc EXCEPT ![h] = state]
  BY <1>2 DEF RequestDeletion, RequestRetry, HandlerStep, RetryEvent, RetryTransaction, ResetEvent,
     Dispatch, LoseDispatch
<1>5. \A g \in Handlers : hpc'[g] # "retry_write"
  BY <1>4 DEF OwnerInv, TypeOK
<1> QED
  BY <1>1, <1>3, <1>5, OwnerQuiet

LEMMA OwnerWorker ==
    ASSUME TypeOK, OwnerInv, LedgerInv, NEW w \in Workers,
           \/ WorkerStep(w)
           \/ FailRecord(w) \/ FailAudit(w) \/ Abandon(w) \/ Crash(w) \/ Redeliver(w)
    PROVE  OwnerInv' /\ LedgerInv'
<1>0. \A h \in Handlers : hpc'[h] # "retry_write"
  <2>1. UNCHANGED hpc
    BY DEF WorkerStep, Receive, Claim, LoadContext, ClearStage, Finalize, FailStage, RecordStage, AuditStage,
       Return, MarkFailure, AuditFailure, Escalate, FailRecord, FailAudit, Abandon, Crash,
       Redeliver, handler
  <2> QED
    BY <2>1 DEF OwnerInv
<1>1. CASE Receive(w) \/ Return(w) \/ AuditFailure(w) \/ Escalate(w) \/ Abandon(w)
           \/ Crash(w) \/ Redeliver(w)
  <2>1. UNCHANGED <<ledger, status>>
    BY <1>1 DEF Receive, Return, AuditFailure, Escalate, Abandon, Crash, Redeliver, event
  <2>2. \A v \in Workers : pc'[v] \in IsOwnerState => pc'[v] = pc[v] /\ todo'[v] = todo[v]
    <3>1. CASE Release(w)
      BY <3>1, ReleaseOthers, WorkerTypes DEF IsOwnerState
    <3>2. CASE Goto(w, "raise")
      BY <3>2, GotoOthers, WorkerTypes DEF IsOwnerState
    <3>3. CASE UNCHANGED worker
      BY <3>3 DEF worker
    <3>4. CASE pc' = [pc EXCEPT ![w] = "claim"] /\ UNCHANGED todo
      BY <3>4 DEF TypeOK, IsOwnerState
    <3> QED
      BY <1>1, <3>1, <3>2, <3>3, <3>4
         DEF Receive, Return, AuditFailure, Escalate, Abandon, Crash, Redeliver
  <2> QED
    BY <1>0, <2>1, <2>2, OwnerQuiet
<1>2. CASE Claim(w)
  <2>1. CASE Release(w) /\ UNCHANGED <<document, event>>
    BY <1>0, <2>1, OwnerQuiet, ReleaseOthers, WorkerTypes DEF IsOwnerState, document, event
  <2>2. CASE /\ status \notin {"COMPLETED", "PROCESSING"}
             /\ status' = "PROCESSING"
             /\ pc' = [pc EXCEPT ![w] = "context"]
             /\ todo' = [todo EXCEPT ![w] = Stages \ ledger]
             /\ UNCHANGED ledger
    <3>1. /\ pc'[w] = "context" /\ todo'[w] = Stages \ ledger
          /\ \A v \in Workers \ {w} : pc'[v] = pc[v] /\ todo'[v] = todo[v]
      BY <2>2, WorkerTypes DEF WorkerTypeOK
    <3>2. \A v \in Workers : ~Owns(v)
      BY <2>2 DEF OwnerInv
    <3>3. \A v \in Workers \ {w} : ~Owns(v)'
      BY <3>1, <3>2 DEF Owns
    <3>4. OwnerInv'
      BY <1>0, <2>2, <3>1, <3>3 DEF OwnerInv, SingleOwner
    <3>5. LedgerInv'
      BY <2>2, <3>1 DEF LedgerInv
    <3> QED
      BY <3>4, <3>5
  <2> QED
    BY <1>2, <2>1, <2>2 DEF Claim
<1>3. CASE ClearStage(w) \/ FailStage(w) \/ FailRecord(w) \/ FailAudit(w)
  <2>1. PICK state \in {"record", "failed"} : Goto(w, state)
    BY <1>3 DEF ClearStage, FailStage, FailRecord, FailAudit
  <2>2. /\ pc[w] \in {"stage", "record", "audit"} /\ todo[w] # {}
        /\ state = "record" => pc[w] = "stage"
    <3>1. CASE ClearStage(w)
      BY <3>1 DEF ClearStage, IsFirst
    <3>2. CASE FailStage(w) \/ FailRecord(w) \/ FailAudit(w)
      BY <2>1, <3>2, GotoOthers, WorkerTypes
         DEF FailStage, FailRecord, FailAudit, OwnerInv, Goto, WorkerTypeOK
    <3> QED
      BY <1>3, <3>1, <3>2
  <2>3. UNCHANGED <<ledger, status>>
    BY <1>3 DEF ClearStage, FailStage, FailRecord, FailAudit, event
  <2>4. /\ pc'[w] = state /\ todo' = todo
        /\ \A v \in Workers \ {w} : pc'[v] = pc[v]
    BY <2>1, GotoOthers, WorkerTypes
  <2>5. \A v \in Workers : Owns(v)' => Owns(v)
    BY <2>2, <2>4 DEF Owns
  <2>6. OwnerInv'
    BY <1>0, <2>2, <2>3, <2>4, <2>5 DEF OwnerInv, SingleOwner
  <2>7. LedgerInv'
    BY <2>2, <2>3, <2>4 DEF LedgerInv
  <2> QED
    BY <2>6, <2>7
<1>4. CASE Finalize(w) \/ RecordStage(w)
  <2>1. PICK s \in Stages : /\ IsFirst(s, todo[w])
                            /\ ledger' = ledger \/ ledger' = ledger \cup {s}
    BY <1>4 DEF Finalize, RecordStage, event
  <2>2. /\ pc[w] \in {"stage", "record"} /\ pc'[w] = "audit" /\ todo' = todo
        /\ \A v \in Workers \ {w} : pc'[v] = pc[v]
    BY <1>4, GotoOthers, WorkerTypes DEF Finalize, RecordStage
  <2>3. status' \in {status, "COMPLETED"}
    BY <1>4 DEF Finalize, RecordStage, event
  <2>4. \A v \in Workers : Owns(v)' <=> Owns(v)
    BY <2>2 DEF Owns
  <2>5. Owns(w) /\ todo[w] # {}
    BY <2>1, <2>2 DEF Owns, IsFirst
  <2>6. OwnerInv'
    BY <1>0, <2>2, <2>3, <2>4, <2>5 DEF OwnerInv, SingleOwner
  <2>7. \A v \in Workers \ {w} : pc[v] \in IsOwnerState => todo[v] = {}
    BY <2>5 DEF OwnerInv, SingleOwner, Owns, IsOwnerState
  <2>8. \A t \in todo[w] \cap ledger' : t = s
    BY <2>1, <2>2 DEF LedgerInv
  <2>9. LedgerInv'
    BY <2>1, <2>2, <2>7, <2>8 DEF LedgerInv, IsOwnerState
  <2> QED
    BY <2>6, <2>9
<1>5. CASE AuditStage(w)
  <2>1. PICK s \in Stages : IsFirst(s, todo[w]) /\ todo' = [todo EXCEPT ![w] = @ \ {s}]
    BY <1>5 DEF AuditStage
  <2>2. /\ pc[w] = "audit" /\ pc'[w] = "stage" /\ todo'[w] = todo[w] \ {s}
        /\ \A v \in Workers \ {w} : pc'[v] = pc[v] /\ todo'[v] = todo[v]
    BY <1>5, <2>1, WorkerTypes DEF AuditStage, WorkerTypeOK
  <2>3. UNCHANGED <<ledger, status>>
    BY <1>5 DEF AuditStage, event
  <2>4. \A v \in Workers : Owns(v)' => Owns(v)
    BY <2>2 DEF Owns
  <2>5. OwnerInv'
    BY <1>0, <2>2, <2>3, <2>4 DEF OwnerInv, SingleOwner
  <2>6. todo'[w] \cap ledger = {}
    <3>1. \A t \in todo[w] \cap ledger : IsFirst(t, todo[w])
      BY <2>2 DEF LedgerInv
    <3>2. todo[w] \subseteq Stages
      BY DEF TypeOK
    <3> QED
      BY <2>1, <2>2, <3>1, <3>2 DEF IsFirst
  <2>7. LedgerInv'
    BY <2>2, <2>3, <2>6 DEF LedgerInv
  <2> QED
    BY <2>5, <2>7
<1>6. CASE MarkFailure(w)
  <2>1. /\ pc[w] = "failed" /\ pc'[w] = "report" /\ todo' = todo
        /\ \A v \in Workers \ {w} : pc'[v] = pc[v]
    BY <1>6, GotoOthers, WorkerTypes DEF MarkFailure
  <2>2. Owns(w)
    BY <2>1 DEF OwnerInv, Owns
  <2>3. \A v \in Workers : ~Owns(v)'
    BY <2>1, <2>2 DEF OwnerInv, SingleOwner, Owns
  <2>4. OwnerInv'
    BY <1>0, <2>1, <2>3 DEF OwnerInv, SingleOwner
  <2>5. LedgerInv'
    BY <1>6, <2>1 DEF MarkFailure, LedgerInv
  <2> QED
    BY <2>4, <2>5
<1>7. CASE LoadContext(w)
  <2>1. /\ pc[w] = "context" /\ pc'[w] = "stage" /\ todo' = todo
        /\ \A v \in Workers \ {w} : pc'[v] = pc[v]
    BY <1>7, GotoOthers, WorkerTypes DEF LoadContext
  <2>2. UNCHANGED <<ledger, status>>
    BY <1>7 DEF LoadContext, event
  <2>3. \A v \in Workers : Owns(v)' <=> Owns(v)
    BY <2>1 DEF Owns
  <2>4. OwnerInv'
    BY <1>0, <2>1, <2>2, <2>3 DEF OwnerInv, SingleOwner
  <2>5. LedgerInv'
    BY <2>1, <2>2 DEF LedgerInv
  <2> QED
    BY <2>4, <2>5
<1> QED
  BY <1>1, <1>2, <1>3, <1>4, <1>5, <1>6, <1>7 DEF WorkerStep

LEMMA OwnerHoldsAtFirst == Init => OwnerInv /\ LedgerInv
BY DEF Init, OwnerInv, LedgerInv, SingleOwner, Owns

LEMMA OwnerHoldsOn ==
    ASSUME Serializable
    PROVE  TypeOK /\ OwnerInv /\ LedgerInv /\ [Next]_vars => OwnerInv' /\ LedgerInv'
<1>1. CASE Next
  BY <1>1, OwnerHandler, OwnerWorker, StepOfHandlerOrWorker
<1>2. CASE UNCHANGED vars
  BY <1>2 DEF OwnerInv, LedgerInv, SingleOwner, Owns, vars
<1> QED
  BY <1>1, <1>2

LEMMA OwnerCorrect == ASSUME Serializable PROVE Spec => [](OwnerInv /\ LedgerInv)
BY OwnerHoldsAtFirst, OwnerHoldsOn, TypeCorrect, PTL DEF Spec

(* Messages may be duplicated, redelivered, or published by any number of  *)
(* retries: no two workers are ever inside the cleanup of the document.    *)
THEOREM CleanupHasOneOwner == ASSUME Serializable PROVE Spec => []SingleOwner
BY OwnerCorrect, PTL DEF OwnerInv

(* "Completed stages are never repeated": a worker never runs the handler  *)
(* of a stage that the event's payload records as completed.               *)
THEOREM CompletedStagesAreNotRepeated == ASSUME Serializable PROVE Spec => []NoStageRepeated
<1>1. LedgerInv => NoStageRepeated
  BY DEF LedgerInv, NoStageRepeated
<1> QED
  BY <1>1, OwnerCorrect, PTL

(***************************************************************************)
(* The rows agree, whatever the isolation level of the database.           *)
(***************************************************************************)

(* Before the first request nothing moves but that request. *)
LEMMA QuietHandler ==
    ASSUME TypeOK, RowsInv, NEW h \in Handlers,
           \/ RequestDeletion(h) \/ RequestRetry(h) \/ HandlerStep(h) \/ LoseDispatch(h)
    PROVE  QuietInv'
<1>1. CASE status = "NONE"
  <2>1. hpc[h] = "idle"
    BY <1>1 DEF RowsInv, QuietInv
  <2>2. RequestDeletion(h)
    BY <1>1, <2>1 DEF RequestRetry, HandlerStep, RetryEvent, RetryTransaction, RetryWrite, Dispatch,
       LoseDispatch
  <2> QED
    BY <2>2 DEF RequestDeletion, QuietInv
<1>2. CASE status # "NONE"
  <2>1. status' # "NONE"
    BY <1>2 DEF RequestDeletion, RequestRetry, HandlerStep, RetryEvent, RetryTransaction, RetryWrite,
       ResetEvent, Dispatch, LoseDispatch, event
  <2> QED
    BY <2>1 DEF QuietInv
<1> QED
  BY <1>1, <1>2

LEMMA QuietWorker ==
    ASSUME TypeOK, RowsInv, NEW w \in Workers,
           \/ WorkerStep(w)
           \/ FailRecord(w) \/ FailAudit(w) \/ Abandon(w) \/ Crash(w) \/ Redeliver(w)
    PROVE  status # "NONE" /\ status' # "NONE"
<1>1. status # "NONE"
  <2> SUFFICES ASSUME status = "NONE" PROVE FALSE
    OBVIOUS
  <2>1. pc[w] = "idle" /\ \A r \in 0 .. CeleryRetries : queue[r] = 0
    BY DEF RowsInv, QuietInv
  <2> QED
    BY <2>1 DEF WorkerStep, Receive, Take, Claim, LoadContext, ClearStage, Finalize, FailStage,
       RecordStage, AuditStage, Return, MarkFailure, AuditFailure, Escalate, FailRecord, FailAudit,
       Abandon, Crash, Redeliver
<1>2. status' # "NONE"
  BY <1>1 DEF WorkerStep, Receive, Claim, LoadContext, ClearStage, Finalize, FailStage,
     RecordStage, AuditStage, Return, MarkFailure, StatusAfterFailure, AuditFailure, Escalate, FailRecord,
     FailAudit, Abandon, Crash, Redeliver, event
<1> QED
  BY <1>1, <1>2

(* A handler changes neither the loops nor, from a real event, the ledger. *)
LEMMA RowsHandler ==
    ASSUME TypeOK, RowsInv, NEW h \in Handlers,
           \/ RequestDeletion(h) \/ RequestRetry(h) \/ HandlerStep(h) \/ LoseDispatch(h)
    PROVE  RowsInv'
<1>1. UNCHANGED <<deleted_at, pc, todo, ledger>>
  BY DEF RequestDeletion, RequestRetry, HandlerStep, RetryEvent, RetryTransaction, RetryWrite, ResetEvent,
     Dispatch, LoseDispatch, document, event, worker, RowsInv, QuietInv
<1>2. LoopInv'
  BY <1>1 DEF RowsInv, LoopInv
<1>3. \/ UNCHANGED <<status, lifecycle>>
      \/ status' = "PENDING" /\ lifecycle' \in {"DELETING", "RETRYING"}
  BY DEF RequestDeletion, RequestRetry, HandlerStep, RetryEvent, RetryTransaction, RetryWrite, ResetEvent,
     Dispatch, LoseDispatch, document, event
<1>4. RowsAgree'
  BY <1>1, <1>3 DEF RowsInv, RowsAgree, StatusAgreement, LedgerIsPrefix
<1> QED
  BY <1>2, <1>4, QuietHandler DEF RowsInv

(* Steps of a worker that leave the rows as they are, and that move no     *)
(* worker further in its loop.                                             *)
LEMMA RowsQuiet ==
    ASSUME TypeOK, RowsInv, status' # "NONE",
           UNCHANGED <<deleted_at, ledger>>,
           \/ UNCHANGED <<status, lifecycle>>
           \/ status' \in {"RETRYING", "DEAD_LETTER"} /\ lifecycle' = "CLEANUP_FAILED",
           \A v \in Workers : pc'[v] \in InLoop => pc'[v] = pc[v] /\ todo'[v] = todo[v]
    PROVE  RowsInv'
<1>1. LoopInv'
  BY DEF RowsInv, LoopInv, InLoop
<1>2. RowsAgree'
  BY DEF RowsInv, RowsAgree, StatusAgreement, LedgerIsPrefix
<1> QED
  BY <1>1, <1>2 DEF RowsInv, QuietInv

LEMMA RowsClaim ==
    ASSUME TypeOK, RowsInv, NEW w \in Workers, Claim(w)
    PROVE  RowsInv'
<1>1. status # "NONE" /\ status' # "NONE"
  BY QuietWorker DEF WorkerStep
<1>2. CASE Release(w) /\ UNCHANGED <<document, event>>
  BY <1>1, <1>2, RowsQuiet, ReleaseOthers, WorkerTypes DEF InLoop, document, event
<1>3. CASE /\ status \notin ClaimRefuses
           /\ status' = "PROCESSING"
           /\ lifecycle' = LifecycleStarted
           /\ pc' = [pc EXCEPT ![w] = "context"]
           /\ todo' = [todo EXCEPT ![w] = RemainingStages]
           /\ UNCHANGED <<deleted_at, ledger>>
  <2>1. /\ pc'[w] = "context" /\ todo'[w] = RemainingStages
        /\ \A v \in Workers \ {w} : pc'[v] = pc[v] /\ todo'[v] = todo[v]
    BY <1>3, WorkerTypes DEF WorkerTypeOK
  <2>2. LoopInv'
    BY <1>3, <2>1 DEF RowsInv, LoopInv
  <2>3. lifecycle' \in {"DELETING", "RETRYING"}
    BY <1>1, <1>3 DEF RowsInv, RowsAgree, StatusAgreement, LifecycleStarted, TypeOK, Statuses
  <2>4. RowsAgree'
    BY <1>3, <2>3 DEF RowsInv, RowsAgree, StatusAgreement, LedgerIsPrefix
  <2> QED
    BY <1>1, <2>2, <2>4 DEF RowsInv, QuietInv
<1> QED
  BY <1>2, <1>3 DEF Claim

(* A recorded stage is the first one its worker has left, all those before *)
(* it are recorded already, and it is not the last one.                    *)
LEMMA RowsRecord ==
    ASSUME TypeOK, RowsInv, NEW w \in Workers, RecordStage(w)
    PROVE  RowsInv'
<1>1. PICK s \in Stages : IsFirst(s, todo[w]) /\ ledger' = ledger \cup {s}
  BY DEF RecordStage
<1>2. /\ pc[w] = "record" /\ pc'[w] = "audit" /\ todo' = todo
      /\ \A v \in Workers \ {w} : pc'[v] = pc[v]
  BY GotoOthers, WorkerTypes DEF RecordStage
<1>3. UNCHANGED <<lifecycle, deleted_at, status>>
  BY DEF RecordStage, document
<1>4. s # SQL_METADATA
  BY <1>1, <1>2 DEF RowsInv, LoopInv, IsFirst, TypeOK
<1>5. \A t \in Stages : t < s => t \in ledger
  BY <1>1, <1>2 DEF RowsInv, LoopInv, IsFirst, TypeOK
<1>6. LedgerIsPrefix'
  <2> SUFFICES ASSUME NEW t \in ledger', NEW u \in VECTORS .. t PROVE u \in ledger'
    BY DEF LedgerIsPrefix
  <2>1. CASE t \in ledger
    BY <1>1, <2>1 DEF RowsInv, RowsAgree, LedgerIsPrefix
  <2>2. CASE t = s
    BY <1>1, <1>5, <2>2
  <2> QED
    BY <1>1, <2>1, <2>2
<1>7. RowsAgree'
  BY <1>1, <1>3, <1>4, <1>6 DEF RowsInv, RowsAgree, StatusAgreement
<1>8. \A t \in Stages : IsFirst(t, todo[w]) => t = s
  BY <1>1 DEF IsFirst
<1>9. LoopInv'
  BY <1>1, <1>2, <1>8 DEF RowsInv, LoopInv
<1> QED
  BY <1>7, <1>9, QuietWorker DEF RowsInv, QuietInv, WorkerStep

LEMMA RowsFinalize ==
    ASSUME TypeOK, CleanInv, RowsInv, NEW w \in Workers, Finalize(w)
    PROVE  RowsInv'
<1>1. /\ pc[w] = "stage" /\ pc'[w] = "audit" /\ todo' = todo
      /\ \A v \in Workers \ {w} : pc'[v] = pc[v]
  BY GotoOthers, WorkerTypes DEF Finalize
<1>2. \A t \in Stages : IsFirst(t, todo[w]) => t = SQL_METADATA
  BY DEF Finalize, IsFirst
<1>3. \A t \in Stages \ {SQL_METADATA} : t \in ledger
  BY <1>1 DEF Finalize, IsFirst, RowsInv, LoopInv
<1>4. SQL_METADATA \in ledger' /\ ledger' = ledger \cup {SQL_METADATA} /\ deleted_at' = "set"
  BY DEF Finalize, CleanInv, RowsInv, RowsAgree, document, event
<1>5. LoopInv'
  BY <1>1, <1>2, <1>4 DEF RowsInv, LoopInv
<1>6. status' = "COMPLETED" /\ lifecycle' = "DELETED"
  BY DEF Finalize, RowsInv, RowsAgree, StatusAgreement, document, event
<1>7. LedgerIsPrefix'
  BY <1>3, <1>4 DEF LedgerIsPrefix, TypeOK
<1> QED
  BY <1>4, <1>5, <1>6, <1>7 DEF RowsInv, RowsAgree, StatusAgreement, QuietInv

LEMMA RowsWorker ==
    ASSUME TypeOK, CleanInv, RowsInv, NEW w \in Workers,
           \/ WorkerStep(w)
           \/ FailRecord(w) \/ FailAudit(w) \/ Abandon(w) \/ Crash(w) \/ Redeliver(w)
    PROVE  RowsInv'
<1>0. status # "NONE" /\ status' # "NONE"
  BY QuietWorker
<1>1. CASE \/ Receive(w) \/ FailStage(w) \/ Return(w) \/ MarkFailure(w) \/ AuditFailure(w)
           \/ Escalate(w) \/ FailRecord(w) \/ FailAudit(w) \/ Abandon(w) \/ Crash(w)
           \/ Redeliver(w)
  <2>1. \/ UNCHANGED <<status, lifecycle>>
        \/ status' \in {"RETRYING", "DEAD_LETTER"} /\ lifecycle' = "CLEANUP_FAILED"
    BY <1>1 DEF Receive, FailStage, Return, MarkFailure, StatusAfterFailure, AuditFailure, Escalate,
       FailRecord, FailAudit, Abandon, Crash, Redeliver, document, event
  <2> QED
    BY <1>0, <1>1, <2>1, QuietSteps, RowsQuiet
<1>2. CASE LoadContext(w)
  <2>1. /\ pc[w] = "context" /\ pc'[w] = "stage" /\ todo' = todo
        /\ \A v \in Workers \ {w} : pc'[v] = pc[v]
    BY <1>2, GotoOthers, WorkerTypes DEF LoadContext
  <2>2. UNCHANGED <<ledger, deleted_at, status, lifecycle>>
    BY <1>2 DEF LoadContext, document, event
  <2>3. LoopInv'
    BY <2>1, <2>2 DEF RowsInv, LoopInv
  <2> QED
    BY <1>0, <2>2, <2>3 DEF RowsInv, RowsAgree, StatusAgreement, LedgerIsPrefix, QuietInv
<1>3. CASE ClearStage(w)
  <2>1. /\ pc[w] = "stage" /\ pc'[w] = "record" /\ todo' = todo
        /\ \A v \in Workers \ {w} : pc'[v] = pc[v]
    BY <1>3, GotoOthers, WorkerTypes DEF ClearStage
  <2>2. UNCHANGED <<ledger, deleted_at, status, lifecycle>>
    BY <1>3 DEF ClearStage, document, event
  <2>3. \E s \in todo[w] : s < SQL_METADATA
    BY <1>3 DEF ClearStage, IsFirst
  <2>4. LoopInv'
    BY <2>1, <2>2, <2>3 DEF RowsInv, LoopInv
  <2> QED
    BY <1>0, <2>2, <2>4 DEF RowsInv, RowsAgree, StatusAgreement, LedgerIsPrefix, QuietInv
<1>4. CASE AuditStage(w)
  <2>1. PICK s \in Stages : IsFirst(s, todo[w]) /\ todo' = [todo EXCEPT ![w] = @ \ {s}]
    BY <1>4 DEF AuditStage
  <2>2. /\ pc[w] = "audit" /\ pc'[w] = "stage" /\ todo'[w] = todo[w] \ {s}
        /\ \A v \in Workers \ {w} : pc'[v] = pc[v] /\ todo'[v] = todo[v]
    BY <1>4, <2>1, WorkerTypes DEF AuditStage, WorkerTypeOK
  <2>3. UNCHANGED <<ledger, deleted_at, status, lifecycle>>
    BY <1>4 DEF AuditStage, document, event
  <2>4. LoopInv'
    BY <2>1, <2>2, <2>3 DEF RowsInv, LoopInv
  <2> QED
    BY <1>0, <2>3, <2>4 DEF RowsInv, RowsAgree, StatusAgreement, LedgerIsPrefix, QuietInv
<1> QED
  BY <1>1, <1>2, <1>3, <1>4, RowsClaim, RowsRecord, RowsFinalize DEF WorkerStep

LEMMA RowsHoldAtFirst == Init => RowsInv
BY DEF Init, RowsInv, QuietInv, LoopInv, RowsAgree, StatusAgreement, LedgerIsPrefix

LEMMA RowsHoldOn == TypeOK /\ CleanInv /\ RowsInv /\ [Next]_vars => RowsInv'
<1>1. CASE Next
  BY <1>1, RowsHandler, RowsWorker, StepOfHandlerOrWorker
<1>2. CASE UNCHANGED vars
  BY <1>2 DEF RowsInv, QuietInv, LoopInv, RowsAgree, StatusAgreement, LedgerIsPrefix, IsFirst, vars
<1> QED
  BY <1>1, <1>2

LEMMA RowsCorrect == Spec => []RowsInv
BY RowsHoldAtFirst, RowsHoldOn, TypeCorrect, CleanCorrect, PTL DEF Spec

(* The document's row, the event's row and the stages recorded in its      *)
(* payload tell one story in every reachable state, on any database and    *)
(* through every loss of a worker, a message or a dispatch.                *)
THEOREM RowsTellOneStory == Spec => []RowsAgree
BY RowsCorrect, PTL DEF RowsInv

(***************************************************************************)
(* One worker implements the deletion job, as long as writing the audit    *)
(* log does not fail.                                                      *)
(***************************************************************************)

OneWorker == \A v, w \in Workers : v = w

(* What a handler does to the job. *)
LEMMA JobHandler ==
    ASSUME Serializable, TypeOK, OwnerInv, RowsInv, JobInv, NEW h \in Handlers,
           \/ RequestDeletion(h) \/ RequestRetry(h) \/ HandlerStep(h) \/ LoseDispatch(h)
    PROVE  JobInv' /\ (Job!Request \/ Job!Retry \/ UNCHANGED Job!jobVars)
<1>1. CASE RequestDeletion(h)
  <2>1. /\ status = "NONE" /\ status' = "PENDING" /\ attempts' = attempts /\ ledger' = ledger
        /\ UNCHANGED <<pc, todo>>
    BY <1>1 DEF RequestDeletion, RowsInv, QuietInv, JobInv, worker
  <2>2. JobInv'
    BY <2>1 DEF JobInv, Owns
  <2>3. Job!Request
    BY <2>1 DEF Job!Request
  <2> QED
    BY <2>2, <2>3
<1>2. CASE RetryTransaction(h) /\ status \in Revived /\ ResetEvent(h, status) /\ UNCHANGED worker
  <2>1. /\ status' = "PENDING" /\ UNCHANGED <<ledger, pc, todo>>
        /\ attempts' = IF status = "DEAD_LETTER" THEN 0 ELSE attempts
    BY <1>2 DEF ResetEvent, AttemptsAfter, worker
  <2>2. \A w \in Workers : ~Owns(w)
    BY <1>2 DEF OwnerInv
  <2>3. attempts' < MaxAttempts
    BY <1>2, <2>1, ConstantsAssumption DEF JobInv, ConstantsAssumption
  <2>4. JobInv'
    BY <2>1, <2>2, <2>3 DEF JobInv, Owns
  <2>5. Job!Retry
    BY <1>2, <2>1 DEF Job!Retry
  <2> QED
    BY <2>4, <2>5
<1>3. CASE UNCHANGED <<event, worker>>
  <2>1. UNCHANGED Job!jobVars
    BY <1>3 DEF Job!jobVars, event
  <2> QED
    BY <1>3, <2>1 DEF JobInv, Owns, event, worker
<1> QED
  BY <1>1, <1>2, <1>3 DEF RequestRetry, HandlerStep, RetryEvent, RetryTransaction, RetryWrite, Dispatch,
     LoseDispatch, OwnerInv

(* Steps that leave the event alone and give no worker a claim to make or  *)
(* a stage to do.                                                          *)
LEMMA JobQuiet ==
    ASSUME JobInv, UNCHANGED event,
           \A v \in Workers : pc'[v] = "claim" => status # "DEAD_LETTER",
           \A v \in Workers : Owns(v)' =>
                \/ Owns(v) /\ pc'[v] = pc[v] /\ todo'[v] = todo[v]
                \/ status = "PROCESSING"
    PROVE  JobInv' /\ UNCHANGED Job!jobVars
BY DEF JobInv, Job!jobVars, event, Owns

(* A claim starts an attempt, which the event has left. *)
LEMMA JobClaim ==
    ASSUME Serializable, TypeOK, OwnerInv, RowsInv, JobInv, NEW w \in Workers, Claim(w)
    PROVE  JobInv' /\ (Job!Start \/ UNCHANGED Job!jobVars)
<1>1. CASE Release(w) /\ UNCHANGED event
  BY <1>1, JobQuiet, ReleaseOthers, WorkerTypes DEF JobInv, Owns
<1>2. CASE /\ status \notin ClaimRefuses
           /\ status' = "PROCESSING"
           /\ attempts' = attempts + 1
           /\ pc' = [pc EXCEPT ![w] = "context"]
           /\ todo' = [todo EXCEPT ![w] = RemainingStages]
           /\ UNCHANGED ledger
  <2>1. status \in {"PENDING", "RETRYING"}
    <3>1. status # "NONE"
      BY QuietWorker DEF WorkerStep
    <3>2. status # "DEAD_LETTER"
      BY DEF Claim, JobInv
    <3> QED
      BY <1>2, <3>1, <3>2 DEF TypeOK, Statuses
  <2>2. Job!Start
    BY <1>2, <2>1 DEF Job!Start, JobInv
  <2>3. JobInv'
    BY <1>2 DEF JobInv
  <2> QED
    BY <2>2, <2>3
<1> QED
  BY <1>1, <1>2 DEF Claim, event

(* The stages recorded before the first one a worker has ahead of it. *)
LEMMA LedgerBefore ==
    ASSUME TypeOK, RowsInv, LedgerInv, NEW w \in Workers, pc[w] \in {"stage", "record"},
           NEW s \in Stages, IsFirst(s, todo[w])
    PROVE  ledger = 1 .. s - 1
<1>1. \A t \in Stages : t < s => t \in ledger
  BY DEF RowsInv, LoopInv, IsFirst
<1>2. s \notin ledger
  BY DEF LedgerInv, IsFirst
<1>3. \A t \in ledger : t < s
  BY <1>2 DEF RowsInv, RowsAgree, LedgerIsPrefix, TypeOK
<1>4. ledger \subseteq Stages
  BY DEF TypeOK
<1>5. \A t \in Stages : t \in ledger <=> t < s
  BY <1>1, <1>3
<1>6. 1 .. s - 1 \subseteq Stages /\ \A t \in Stages : t \in 1 .. s - 1 <=> t < s
  OBVIOUS
<1> QED
  BY <1>4, <1>5, <1>6

LEMMA JobRecord ==
    ASSUME Serializable, TypeOK, OwnerInv, LedgerInv, RowsInv, JobInv, NEW w \in Workers,
           RecordStage(w)
    PROVE  JobInv' /\ Job!Clear
<1>1. PICK s \in Stages : IsFirst(s, todo[w]) /\ ledger' = ledger \cup {s}
  BY DEF RecordStage
<1>2. /\ pc[w] = "record" /\ pc'[w] = "audit" /\ todo' = todo
      /\ \A v \in Workers \ {w} : pc'[v] = pc[v]
  BY GotoOthers, WorkerTypes DEF RecordStage
<1>3. UNCHANGED <<status, attempts>>
  BY DEF RecordStage
<1>4. status = "PROCESSING"
  BY <1>1, <1>2 DEF JobInv, Owns, IsFirst
<1>5. s # SQL_METADATA
  BY <1>1, <1>2 DEF RowsInv, LoopInv, IsFirst, TypeOK
<1>6. ledger = 1 .. s - 1 /\ ledger' = 1 .. s
  <2>1. ledger = 1 .. s - 1
    BY <1>1, <1>2, LedgerBefore
  <2>2. \A t : t \in ledger' <=> t \in 1 .. s
    BY <1>1, <2>1
  <2> QED
    BY <2>1, <2>2
<1>7. Job!Clear
  <2>1. s \in 1 .. SQL_METADATA - 1
    BY <1>5
  <2> QED
    BY <1>3, <1>4, <1>6, <2>1 DEF Job!Clear
<1>8. JobInv'
  BY <1>2, <1>3, <1>4 DEF JobInv
<1> QED
  BY <1>7, <1>8

LEMMA JobFinalize ==
    ASSUME Serializable, OneWorker, TypeOK, OwnerInv, LedgerInv, RowsInv, JobInv, NEW w \in Workers,
           Finalize(w)
    PROVE  JobInv' /\ Job!Finish
<1>1. /\ pc[w] = "stage" /\ pc'[w] = "audit" /\ todo' = todo
      /\ \A v \in Workers \ {w} : pc'[v] = pc[v]
  BY GotoOthers, WorkerTypes DEF Finalize
<1>2. IsFirst(SQL_METADATA, todo[w])
  BY DEF Finalize
<1>3. status = "PROCESSING"
  BY <1>1, <1>2 DEF JobInv, Owns, IsFirst
<1>4. /\ status' = "COMPLETED" /\ UNCHANGED attempts
      /\ ledger' = ledger \cup {SQL_METADATA}
  BY <1>3 DEF Finalize
<1>5. ledger = 1 .. SQL_METADATA - 1 /\ ledger' = 1 .. SQL_METADATA
  BY <1>1, <1>2, <1>4, LedgerBefore
<1>6. Job!Finish
  BY <1>3, <1>4, <1>5 DEF Job!Finish
<1>7. todo[w] = {SQL_METADATA}
  <2>1. todo[w] \subseteq Stages
    BY DEF TypeOK
  <2> QED
    BY <1>2, <2>1 DEF IsFirst
<1>8. JobInv'
  BY <1>1, <1>4, <1>7 DEF JobInv, OneWorker
<1> QED
  BY <1>6, <1>8

(* A failure ends an attempt of an event that is PROCESSING. *)
LEMMA JobFailure ==
    ASSUME Serializable, TypeOK, OwnerInv, JobInv, NEW w \in Workers, MarkFailure(w), OneWorker
    PROVE  JobInv' /\ Job!Fail
<1>1. pc[w] = "failed" /\ todo[w] # {}
  BY DEF MarkFailure, OwnerInv
<1>2. status = "PROCESSING"
  BY <1>1 DEF JobInv, Owns
<1>3. /\ status' = StatusAfterFailure /\ UNCHANGED <<attempts, ledger>>
      /\ pc'[w] = "report"
  BY GotoOthers, WorkerTypes DEF MarkFailure
<1>4. Job!Fail
  BY <1>2, <1>3, ConstantsAssumption DEF Job!Fail, StatusAfterFailure, TypeOK, ConstantsAssumption
<1>5. JobInv'
  BY <1>3, ConstantsAssumption
     DEF JobInv, StatusAfterFailure, OneWorker, Owns, TypeOK, ConstantsAssumption
<1> QED
  BY <1>4, <1>5

LEMMA JobWorker ==
    ASSUME Serializable, OneWorker, "audit" \notin Faults,
           TypeOK, OwnerInv, LedgerInv, RowsInv, JobInv, NEW w \in Workers,
           \/ WorkerStep(w)
           \/ FailRecord(w) \/ FailAudit(w) \/ Abandon(w) \/ Crash(w) \/ Redeliver(w)
    PROVE  JobInv' /\ (Job!JobNext \/ UNCHANGED Job!jobVars)
<1>1. CASE \/ Receive(w) \/ Return(w) \/ AuditFailure(w) \/ Escalate(w) \/ Abandon(w)
           \/ Crash(w) \/ Redeliver(w)
  <2>1. UNCHANGED event
    BY <1>1 DEF Receive, Return, AuditFailure, Escalate, Abandon, Crash, Redeliver
  <2>2. CASE Release(w)
    BY <2>1, <2>2, JobQuiet, ReleaseOthers, WorkerTypes DEF JobInv, Owns
  <2>3. CASE Goto(w, "raise") \/ UNCHANGED worker
    BY <2>1, <2>3, JobQuiet, GotoOthers, WorkerTypes DEF JobInv, Owns, worker
  <2>4. CASE /\ pc' = [pc EXCEPT ![w] = "claim"] /\ UNCHANGED todo
             /\ status \notin ReadRefuses
    BY <2>1, <2>4, JobQuiet DEF JobInv, Owns, ReadRefuses, TypeOK
  <2> QED
    BY <1>1, <2>2, <2>3, <2>4 DEF Receive, Return, AuditFailure, Escalate, Abandon, Crash, Redeliver
<1>2. CASE LoadContext(w) \/ ClearStage(w) \/ FailStage(w) \/ FailRecord(w)
  <2>1. PICK state \in {"stage", "record", "failed"} : Goto(w, state)
    BY <1>2 DEF LoadContext, ClearStage, FailStage, FailRecord
  <2>2. UNCHANGED event /\ pc[w] \in {"context", "stage", "record"}
    BY <1>2 DEF LoadContext, ClearStage, FailStage, FailRecord
  <2>3. Owns(w)' => status = "PROCESSING"
    BY <2>1, <2>2, GotoOthers, WorkerTypes DEF JobInv, Owns
  <2> QED
    BY <2>1, <2>2, <2>3, JobQuiet, GotoOthers, WorkerTypes DEF JobInv, Owns
<1>3. CASE AuditStage(w)
  <2>1. PICK s \in Stages : IsFirst(s, todo[w]) /\ todo' = [todo EXCEPT ![w] = @ \ {s}]
    BY <1>3 DEF AuditStage
  <2>2. /\ pc[w] = "audit" /\ pc'[w] = "stage" /\ todo'[w] = todo[w] \ {s}
        /\ \A v \in Workers \ {w} : pc'[v] = pc[v] /\ todo'[v] = todo[v]
    BY <1>3, <2>1, WorkerTypes DEF AuditStage, WorkerTypeOK
  <2>3. Owns(w)' => status = "PROCESSING"
    BY <2>1, <2>2 DEF JobInv, Owns, IsFirst
  <2> QED
    BY <1>3, <2>2, <2>3, JobQuiet DEF AuditStage, JobInv, Owns
<1>4. ~FailAudit(w)
  BY DEF FailAudit, Inject
<1> QED
  BY <1>1, <1>2, <1>3, <1>4, JobClaim, JobRecord, JobFinalize, JobFailure
     DEF WorkerStep, Job!JobNext

LEMMA JobHoldsAtFirst == Init => Job!Init /\ JobInv
BY ConstantsAssumption DEF Init, Job!Init, JobInv, Owns, ConstantsAssumption

LEMMA JobHoldsOn ==
    ASSUME Serializable, OneWorker, "audit" \notin Faults
    PROVE  TypeOK /\ OwnerInv /\ LedgerInv /\ RowsInv /\ JobInv /\ [Next]_vars
             => JobInv' /\ [Job!JobNext]_(Job!jobVars)
<1> SUFFICES ASSUME TypeOK, OwnerInv, LedgerInv, RowsInv, JobInv, [Next]_vars
             PROVE  JobInv' /\ [Job!JobNext]_(Job!jobVars)
  OBVIOUS
<1>1. CASE Next
  BY <1>1, JobHandler, JobWorker, StepOfHandlerOrWorker DEF Job!JobNext
<1>2. CASE UNCHANGED vars
  BY <1>2 DEF JobInv, Owns, Job!jobVars, vars
<1> QED
  BY <1>1, <1>2

(* The event row, seen without workers and messages, is the job the API    *)
(* promises: one worker process on a database that serialises the retry    *)
(* clears the stages in their order and each once, gives up after its      *)
(* attempts, and leaves a finished job alone.                              *)
THEOREM CleanupImplementsJob ==
    ASSUME Serializable, OneWorker, "audit" \notin Faults
    PROVE  Spec => ImplementsJob
BY JobHoldsAtFirst, JobHoldsOn, TypeCorrect, OwnerCorrect, RowsCorrect, PTL
   DEF Spec, ImplementsJob, Job!JobSpec

(* The same of the behaviours that are checked beside others.              *)
THEOREM WorkerProcessImplementsJob ==
    ASSUME Serializable, OneWorker, "audit" \notin Faults
    PROVE  MCSpec => CeleryImplementsJob
<1> DEFINE Inv == part = "celery" =>
                    TypeOK /\ CleanInv /\ OwnerInv /\ LedgerInv /\ RowsInv /\ JobInv
<1>1. MCInit => Inv /\ CeleryJob!Init
  BY TypeInit, CleanHoldsAtFirst, OwnerHoldsAtFirst, RowsHoldAtFirst, JobHoldsAtFirst
     DEF MCInit, CeleryJob!Init, Job!Init
<1>2. Inv /\ [MCNext]_<<vars, part>> => Inv'
  BY TypeHoldsOn, CleanHoldsOn, OwnerHoldsOn, RowsHoldOn, JobHoldsOn DEF MCNext
<1>3. Inv /\ [MCNext]_<<vars, part>> => [CeleryJob!JobNext]_(CeleryJob!jobVars)
  <2> SUFFICES ASSUME Inv, [MCNext]_<<vars, part>>
               PROVE  [CeleryJob!JobNext]_(CeleryJob!jobVars)
    OBVIOUS
  <2>1. part' = part
    BY DEF MCNext
  <2>2. CASE part # "celery"
    BY <2>1, <2>2 DEF CeleryJob!jobVars
  <2>3. CASE part = "celery"
    <3>1. [Job!JobNext]_(Job!jobVars)
      BY <2>3, JobHoldsOn DEF MCNext
    <3> QED
      BY <2>1, <2>3, <3>1
      DEF CeleryJob!JobNext, CeleryJob!Request, CeleryJob!Start, CeleryJob!Clear,
          CeleryJob!Finish, CeleryJob!Fail, CeleryJob!Retry, CeleryJob!jobVars,
          Job!JobNext, Job!Request, Job!Start, Job!Clear, Job!Finish, Job!Fail, Job!Retry,
          Job!jobVars
  <2> QED
    BY <2>2, <2>3
<1> QED
  BY <1>1, <1>2, <1>3, PTL DEF MCSpec, CeleryImplementsJob, CeleryJob!JobSpec
=============================================================================
