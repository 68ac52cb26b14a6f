-------------------------- MODULE ImportTaskProofs --------------------------
(***************************************************************************)
(* Proofs about one import task, with any number of workers, nodes,        *)
(* retries, requests, faults and exceptions.                               *)
(***************************************************************************)
EXTENDS MCImportWorkers, FiniteSetTheorems, TLAPS

(***************************************************************************)
(* The types.  A message that is published or taken leaves the queue a     *)
(* queue.                                                                  *)
(***************************************************************************)

LEMMA QueueType ==
    ASSUME queue \in [0 .. MaxRetries -> Nat], NEW r \in 0 .. MaxRetries
    PROVE  /\ Publish(r) => /\ queue' \in [0 .. MaxRetries -> Nat]
                            /\ queue'[r] = queue[r] + 1
                            /\ \A s \in (0 .. MaxRetries) \ {r} : queue'[s] = queue[s]
           /\ Take(r) => /\ queue' \in [0 .. MaxRetries -> Nat]
                         /\ queue[r] > 0
                         /\ queue'[r] = queue[r] - 1
                         /\ \A s \in (0 .. MaxRetries) \ {r} : queue'[s] = queue[s]
<1>1. ASSUME Publish(r)
      PROVE  /\ queue' \in [0 .. MaxRetries -> Nat]
             /\ queue'[r] = queue[r] + 1
             /\ \A s \in (0 .. MaxRetries) \ {r} : queue'[s] = queue[s]
  BY <1>1 DEF Publish
<1>2. ASSUME Take(r)
      PROVE  /\ queue' \in [0 .. MaxRetries -> Nat]
             /\ queue[r] > 0
             /\ queue'[r] = queue[r] - 1
             /\ \A s \in (0 .. MaxRetries) \ {r} : queue'[s] = queue[s]
  <2>1. queue[r] - 1 \in Nat
    BY <1>2 DEF Take
  <2> QED
    BY <1>2, <2>1 DEF Take
<1> QED
  BY <1>1, <1>2

ByService ==
    \/ SubmitUpload \/ RejectUpload \/ SubmitRebuild \/ RequestCancel \/ RequestRetry \/ HandlerStep
    \/ LoseDispatch \/ LoseStatus
ByRunner(w) == RunnerStep(w) \/ Raise(w) \/ Crash(w) \/ Redeliver(w)

LEMMA Actors == Next <=> ByService \/ \E w \in Workers : ByRunner(w)
BY DEF Next, ByService, ByRunner

LEMMA ServiceKeepsTypes == ASSUME TypesInv, ByService PROVE TypesInv'
<1> USE ImportAssumption DEF TypesInv, TypeOK, HandlerGoes, runner, statuses, messages, bounds, Statuses,
        HandlerStates, Ask, Inject
<1>1. CASE SubmitUpload \/ RejectUpload \/ SubmitRebuild
  BY <1>1 DEF SubmitUpload, RejectUpload, SubmitRebuild
<1>2. CASE RequestCancel \/ RequestRetry
  BY <1>2 DEF RequestCancel, RequestRetry
<1>3. CASE CreateRow \/ CancelStore \/ CancelRow \/ Revoke \/ RetryRow \/ RetryStore
  BY <1>3 DEF CreateRow, CancelStore, CancelRow, Revoke, RetryRow, RetryStore
<1>4. CASE Dispatch
  <2>1. queue' \in [0 .. MaxRetries -> Nat]
    BY <1>4, QueueType DEF Dispatch
  <2> QED
    BY <1>4, <2>1 DEF Dispatch
<1>5. CASE LoseDispatch \/ LoseStatus
  BY <1>5 DEF LoseDispatch, LoseStatus
<1> QED
  BY <1>1, <1>2, <1>3, <1>4, <1>5 DEF ByService, HandlerStep

LEMMA RunnerKeepsTypes == ASSUME TypesInv, NEW w \in Workers, ByRunner(w) PROVE TypesInv'
<1> USE ImportAssumption DEF TypesInv, TypeOK, runner, statuses, messages, bounds, Statuses, RunnerStates
<1> DEFINE Others == UNCHANGED <<handler, revoked>> /\ store' \in Statuses /\ row' \in Statuses
                     /\ index' \in {"absent", "partial", "whole"}
                     /\ queue' \in [0 .. MaxRetries -> Nat]
                     /\ faults' \in Nat /\ requests' \in Nat /\ errors' \in Nat
<1>1. ASSUME Others, Release(w) PROVE TypesInv'
  <2>1. /\ pc' \in [Workers -> RunnerStates] /\ node' \in [Workers -> 0 .. Nodes]
        /\ retries' \in [Workers -> 0 .. MaxRetries] /\ retryable' \in [Workers -> {"no", "yes"}]
    BY <1>1 DEF Release
  <2>2. pc'[w] = "idle" /\ \A v \in Workers \ {w} : pc'[v] = pc[v] /\ retries'[v] = retries[v]
    BY <1>1 DEF Release
  <2> QED
    BY <1>1, <2>1, <2>2
<1>2. ASSUME Others, NEW s \in RunnerStates, Goto(w, s),
             s \in {"count", "reset", "publish"} => retries[w] < MaxRetries
      PROVE  TypesInv'
  BY <1>2 DEF Goto
<1>3. CASE Receive(w)
  <2>1. PICK r \in 0 .. MaxRetries :
            /\ Take(r)
            /\ \/ Release(w)
               \/ /\ pc' = [pc EXCEPT ![w] = "begin"]
                  /\ retries' = [retries EXCEPT ![w] = r]
                  /\ UNCHANGED <<node, retryable>>
    BY <1>3 DEF Receive
  <2>2. Others
    BY <1>3, <2>1, QueueType DEF Receive
  <2>3. CASE Release(w)
    BY <1>1, <2>2, <2>3
  <2>4. CASE /\ pc' = [pc EXCEPT ![w] = "begin"]
             /\ retries' = [retries EXCEPT ![w] = r]
             /\ UNCHANGED <<node, retryable>>
    BY <2>2, <2>4
  <2> QED
    BY <2>1, <2>3, <2>4
<1>4. CASE Begin(w) \/ IndexMetadata(w) \/ AuditCompletion(w)
  <2>1. Others /\ (Release(w) \/ \E s \in RunnerStates \ {"count", "reset", "publish"} : Goto(w, s))
    BY <1>4 DEF Begin, IndexMetadata, AuditCompletion, Silent
  <2> QED
    BY <1>1, <1>2, <2>1
<1>5. CASE StartStore(w) \/ CompleteStore(w) \/ FailStore(w)
  <2>1. Others /\ \E s \in RunnerStates \ {"count", "reset", "publish"} : Goto(w, s)
    BY <1>5 DEF StartStore, CompleteStore, FailStore, WriteStore
  <2> QED
    BY <1>2, <2>1
<1>6. CASE StartRow(w)
  BY <1>6 DEF StartRow, WriteRow
<1>7. CASE EndNode(w) \/ CompleteRow(w)
  <2>1. Others /\ \E s \in RunnerStates \ {"count", "reset", "publish"} : Goto(w, s)
    BY <1>7 DEF EndNode, CompleteRow, WriteRow
  <2> QED
    BY <1>2, <2>1
<1>8. CASE Poll(w)
  <2>1. Others /\ pc[w] = "poll"
    BY <1>8 DEF Poll, Silent
  <2>2. CASE \E s \in RunnerStates \ {"count", "reset", "publish"} : Goto(w, s)
    BY <1>2, <2>1, <2>2
  <2>3. CASE /\ node[w] # Nodes
             /\ pc' = [pc EXCEPT ![w] = "node"]
             /\ node' = [node EXCEPT ![w] = @ + 1]
             /\ UNCHANGED <<retries, retryable>>
    <3>1. node[w] + 1 \in 0 .. Nodes
      BY <2>3
    <3>2. node' \in [Workers -> 0 .. Nodes]
      BY <2>3, <3>1
    <3> QED
      BY <2>1, <2>3, <3>2
  <2> QED
    BY <1>8, <2>2, <2>3 DEF Poll, IsLast
<1>9. CASE StopCancelled(w)
  BY <1>1, <1>9 DEF StopCancelled, WriteRow
<1>10. CASE FailRow(w)
  <2>1. Others
    BY <1>10 DEF FailRow, WriteRow
  <2> QED
    BY <1>1, <1>2, <1>10, <2>1 DEF FailRow, RetryIsLeft
<1>11. CASE CountRetry(w) \/ ResetStore(w)
  <2>1. Others /\ retries[w] < MaxRetries /\ (Goto(w, "reset") \/ Goto(w, "publish"))
    BY <1>11 DEF CountRetry, ResetStore, WriteStore, Silent
  <2> QED
    BY <1>2, <2>1
<1>12. CASE PublishRetry(w)
  <2>1. retries[w] + 1 \in 0 .. MaxRetries
    BY <1>12 DEF PublishRetry
  <2>2. Others
    BY <1>12, <2>1, QueueType DEF PublishRetry
  <2> QED
    BY <1>1, <1>12, <2>2 DEF PublishRetry
<1>13. CASE Raise(w)
  BY <1>13 DEF Raise
<1>14. CASE Crash(w)
  <2>1. Others
    BY <1>14, QueueType DEF Crash, ReturnMessage, Inject
  <2> QED
    BY <1>1, <1>14, <2>1 DEF Crash
<1>15. CASE Redeliver(w)
  <2>1. queue' \in [0 .. MaxRetries -> Nat]
    BY <1>15, QueueType DEF Redeliver
  <2> QED
    BY <1>15, <2>1 DEF Redeliver, Inject
<1> QED
  BY <1>3, <1>4, <1>5, <1>6, <1>7, <1>8, <1>9, <1>10, <1>11, <1>12, <1>13, <1>14, <1>15
     DEF ByRunner, RunnerStep

LEMMA TypesHoldAtFirst == Init => TypesInv
BY ImportAssumption DEF Init, TypesInv, TypeOK, Statuses, RunnerStates, HandlerStates

LEMMA TypesHoldOn == TypesInv /\ [Next]_vars => TypesInv'
<1> SUFFICES ASSUME TypesInv, [Next]_vars PROVE TypesInv'
  OBVIOUS
<1>1. CASE UNCHANGED vars
  BY <1>1 DEF vars, TypesInv, TypeOK
<1> QED
  BY <1>1, ServiceKeepsTypes, RunnerKeepsTypes, Actors

(***************************************************************************)
(* A completed task is indexed.  At most one worker is at work.            *)
(***************************************************************************)

OneAtWork == \A v, w \in Busy : v = w

LEMMA ServiceKeepsIndex ==
    ASSUME IndexInv, ByService PROVE IndexInv'
<1>1. UNCHANGED <<index, pc, node>> /\ (row' = row \/ row' \in {"pending", "cancelled"})
  BY DEF ByService, SubmitUpload, RejectUpload, SubmitRebuild, RequestCancel, RequestRetry, HandlerStep,
         CreateRow, Dispatch, CancelStore, CancelRow, Revoke, RetryRow, RetryStore, LoseDispatch,
         LoseStatus, HandlerGoes, runner, statuses
<1> QED
  BY <1>1 DEF IndexInv, CompletedIsIndexed

LEMMA RunnersApart ==
    ASSUME TypesInv, NEW w \in Workers, ByRunner(w), NEW v \in Workers, v # w
    PROVE  pc'[v] = pc[v] /\ node'[v] = node[v]
<1>1. pc \in [Workers -> RunnerStates] /\ node \in [Workers -> 0 .. Nodes]
  BY DEF TypesInv, TypeOK
<1>2. \/ UNCHANGED <<pc, node>>
      \/ \E s : pc' = [pc EXCEPT ![w] = s] /\ (node' = node \/ \E n : node' = [node EXCEPT ![w] = n])
  <2> USE DEF Goto, Release, WriteStore, WriteRow
  <2>1. CASE Receive(w) \/ Begin(w) \/ StartStore(w) \/ StartRow(w)
    BY <2>1 DEF Receive, Begin, StartStore, StartRow
  <2>2. CASE EndNode(w) \/ Poll(w) \/ StopCancelled(w) \/ IndexMetadata(w)
    BY <2>2 DEF EndNode, Poll, StopCancelled, IndexMetadata
  <2>3. CASE CompleteStore(w) \/ CompleteRow(w) \/ AuditCompletion(w) \/ FailStore(w)
    BY <2>3 DEF CompleteStore, CompleteRow, AuditCompletion, FailStore
  <2>4. CASE FailRow(w) \/ CountRetry(w) \/ ResetStore(w) \/ PublishRetry(w)
    BY <2>4 DEF FailRow, CountRetry, ResetStore, PublishRetry
  <2>5. CASE Raise(w) \/ Crash(w) \/ Redeliver(w)
    BY <2>5 DEF Raise, Crash, Redeliver, runner
  <2> QED
    BY <2>1, <2>2, <2>3, <2>4, <2>5 DEF ByRunner, RunnerStep
<1> QED
  BY <1>1, <1>2

LEMMA RunnerKeepsIndex ==
    ASSUME TypesInv, IndexInv, OneAtWork, NEW w \in Workers, ByRunner(w) PROVE IndexInv'
<1> USE DEF Goto, Release, WriteStore, WriteRow, statuses, runner
<1>0. /\ pc \in [Workers -> RunnerStates] /\ node \in [Workers -> 0 .. Nodes]
      /\ \A v \in Workers \ {w} : pc'[v] = pc[v] /\ node'[v] = node[v]
  BY RunnersApart DEF TypesInv, TypeOK
<1> DEFINE Own ==
        /\ pc[w] \in {"node", "poll", "index", "complete_store", "complete_row"} => row # "completed"
        /\ pc[w] \in {"index", "complete_store", "complete_row"} => index = "whole"
        /\ pc[w] = "poll" /\ node[w] = Nodes => index = "whole"
<1>1. Own /\ CompletedIsIndexed
  BY DEF IndexInv
<1>2. ASSUME pc[w] # "idle", Own', CompletedIsIndexed' PROVE IndexInv'
  <2>1. \A v \in Workers \ {w} : pc'[v] = "idle"
    BY <1>0, <1>2 DEF OneAtWork, Busy
  <2> QED
    BY <1>2, <2>1 DEF IndexInv
<1>3. ASSUME UNCHANGED <<index, row>>, Own' PROVE IndexInv'
  BY <1>0, <1>3 DEF IndexInv, CompletedIsIndexed
<1>4. CASE Receive(w)
  <2>1. UNCHANGED <<index, row>> /\ pc'[w] \in {"idle", "begin"}
    BY <1>0, <1>4 DEF Receive
  <2> QED
    BY <1>3, <2>1
<1>5. CASE Begin(w) \/ AuditCompletion(w) \/ StartStore(w)
  <2>1. UNCHANGED <<index, row>> /\ pc'[w] \in {"idle", "start_store", "start_row"}
    BY <1>0, <1>5 DEF Begin, AuditCompletion, StartStore, Silent
  <2> QED
    BY <1>3, <2>1
<1>6. CASE StartRow(w)
  BY <1>0, <1>2, <1>6 DEF StartRow, CompletedIsIndexed
<1>7. CASE EndNode(w)
  BY <1>0, <1>2, <1>7 DEF EndNode, CompletedIsIndexed
<1>8. CASE Poll(w)
  <2>1. UNCHANGED <<index, row>>
    BY <1>8 DEF Poll, Silent
  <2>2. Own'
    BY <1>0, <1>1, <1>8, <2>1 DEF Poll, IsLast
  <2> QED
    BY <1>3, <2>1, <2>2
<1>9. CASE StopCancelled(w)
  BY <1>0, <1>2, <1>9 DEF StopCancelled, CompletedIsIndexed
<1>10. CASE IndexMetadata(w) \/ CompleteStore(w)
  <2>1. UNCHANGED <<index, row>> /\ Own'
    BY <1>0, <1>1, <1>10 DEF IndexMetadata, CompleteStore, Silent
  <2> QED
    BY <1>3, <2>1
<1>11. CASE CompleteRow(w)
  BY <1>0, <1>1, <1>2, <1>11 DEF CompleteRow, CompletedIsIndexed
<1>12. CASE FailStore(w) \/ CountRetry(w) \/ ResetStore(w) \/ PublishRetry(w)
  <2>1. UNCHANGED <<index, row>> /\ pc'[w] \in {"idle", "fail_row", "reset", "publish"}
    BY <1>0, <1>12 DEF FailStore, CountRetry, ResetStore, PublishRetry, Silent
  <2> QED
    BY <1>3, <2>1
<1>13. CASE FailRow(w)
  <2>1. pc[w] # "idle" /\ row' = "failed" /\ pc'[w] \in {"idle", "count"}
    BY <1>0, <1>13 DEF FailRow
  <2> QED
    BY <1>2, <2>1 DEF CompletedIsIndexed
<1>14. CASE Raise(w)
  <2>1. /\ pc[w] # "idle" /\ row' = row /\ pc'[w] = "fail_store"
        /\ index' = index \/ pc[w] = "node"
    BY <1>0, <1>14 DEF Raise
  <2> QED
    BY <1>1, <1>2, <2>1 DEF CompletedIsIndexed
<1>15. CASE Crash(w)
  <2>1. /\ pc[w] # "idle" /\ row' = row /\ pc'[w] = "idle"
        /\ index' = index \/ pc[w] = "node"
    BY <1>0, <1>15 DEF Crash
  <2> QED
    BY <1>1, <1>2, <2>1 DEF CompletedIsIndexed
<1>16. CASE Redeliver(w)
  <2>1. UNCHANGED <<index, row, pc, node>>
    BY <1>16 DEF Redeliver
  <2> QED
    BY <1>1, <1>3, <2>1
<1> QED
  BY <1>4, <1>5, <1>6, <1>7, <1>8, <1>9, <1>10, <1>11, <1>12, <1>13, <1>14, <1>15, <1>16
     DEF ByRunner, RunnerStep

LEMMA IndexHoldsOn == TypesInv /\ IndexInv /\ OneAtWork /\ [Next]_vars => IndexInv'
<1> SUFFICES ASSUME TypesInv, IndexInv, OneAtWork, [Next]_vars PROVE IndexInv'
  OBVIOUS
<1>1. CASE UNCHANGED vars
  BY <1>1 DEF vars, IndexInv, CompletedIsIndexed
<1> QED
  BY <1>1, ServiceKeepsIndex, RunnerKeepsIndex, Actors

(* import_document_task with one worker: a task whose row says completed   *)
(* has its whole document in Milvus, whatever is cancelled, retried,       *)
(* redelivered or restarted, and in whatever order.                        *)
THEOREM CompletedTasksAreIndexed ==
    ASSUME \A v, w \in Workers : v = w PROVE Spec => []CompletedIsIndexed
<1>1. Init => IndexInv
  BY DEF Init, IndexInv, CompletedIsIndexed
<1>2. TypesInv /\ IndexInv /\ [Next]_vars => IndexInv'
  BY IndexHoldsOn DEF OneAtWork, Busy
<1>3. IndexInv => CompletedIsIndexed
  BY DEF IndexInv
<1> QED
  BY <1>1, <1>2, <1>3, TypesHoldAtFirst, TypesHoldOn, PTL DEF Spec

(***************************************************************************)
(* Workers that may be lost, under the task queue, while nobody cancels or *)
(* retries: one execution at a time, and two statuses that agree.          *)
(***************************************************************************)

OnlyLosses == TaskQueue /\ Requests = {} /\ Faults \subseteq {"crash"}

LEMMA OneMoreMessage ==
    ASSUME queue \in [0 .. MaxRetries -> Nat], NEW r \in 0 .. MaxRetries, Empty, Publish(r)
    PROVE  OneMessage' /\ ~Empty'
<1>1. queue'[r] = 1 /\ \A s \in 0 .. MaxRetries : s # r => queue'[s] = 0
  BY QueueType DEF Empty
<1> QED
  BY <1>1 DEF OneMessage, Empty

LEMMA OneMessageLess ==
    ASSUME queue \in [0 .. MaxRetries -> Nat], NEW r \in 0 .. MaxRetries, Empty \/ OneMessage, Take(r)
    PROVE  Empty' /\ OneMessage
<1>1. queue[r] > 0
  BY DEF Take
<1>2. OneMessage
  BY <1>1 DEF Empty
<1>3. PICK m \in 0 .. MaxRetries : \A s \in 0 .. MaxRetries : queue[s] = IF s = m THEN 1 ELSE 0
  BY <1>2 DEF OneMessage
<1>4. m = r
  BY <1>1, <1>3
<1>5. queue'[r] = 0 /\ \A s \in 0 .. MaxRetries : s # r => queue'[s] = 0
  BY <1>3, <1>4, QueueType
<1> QED
  BY <1>2, <1>5 DEF Empty

LEMMA ServiceKeepsExecution ==
    ASSUME OnlyLosses, TypesInv, ExecutionInv, StatusInv, ByService
    PROVE  ExecutionInv' /\ StatusInv'
<1> USE DEF HandlerGoes, statuses, runner, messages, bounds
<1>1. LoseStatus \/ LoseDispatch \/ RequestCancel \/ RequestRetry => FALSE
  BY DEF LoseStatus, LoseDispatch, RequestCancel, RequestRetry, Ask, Inject, OnlyLosses
<1>2. CancelStore \/ CancelRow \/ Revoke \/ RetryRow => FALSE
  BY DEF CancelStore, CancelRow, Revoke, RetryRow, ExecutionInv
<1>3. CASE SubmitUpload \/ RejectUpload \/ SubmitRebuild \/ CreateRow \/ RetryStore
  <2>1. /\ UNCHANGED <<pc, queue, revoked>>
        /\ row = "none" \/ handler # "idle"
        /\ store' = store \/ store' \in {"none", "pending"}
        /\ handler' \in {"idle", "create_row", "dispatch", "retry_store"}
        /\ handler' = "create_row" => row' = "none"
        /\ handler' = "idle" => row' = "none"
        /\ handler' \in {"dispatch", "retry_store"} => row' # "none"
    BY <1>3 DEF SubmitUpload, RejectUpload, SubmitRebuild, CreateRow, RetryStore, ExecutionInv
  <2>2. Empty /\ Busy = {}
    BY <2>1 DEF ExecutionInv
  <2>3. Busy' = {} /\ Empty'
    BY <2>1, <2>2 DEF Busy, Empty
  <2>4. ExecutionInv'
    BY <2>1, <2>3 DEF ExecutionInv
  <2>5. \A w \in Workers : pc'[w] = "idle"
    BY <2>3 DEF Busy
  <2>6. StatusInv'
    BY <2>1, <2>5 DEF StatusInv, AtRest
  <2> QED
    BY <2>4, <2>6
<1>4. CASE Dispatch
  <2>1. /\ UNCHANGED <<pc, revoked, store, row>> /\ handler = "dispatch" /\ handler' = "idle"
        /\ Publish(0) /\ row # "none"
    BY <1>4 DEF Dispatch, ExecutionInv
  <2>2. Empty /\ Busy = {}
    BY <2>1 DEF ExecutionInv
  <2>3. Busy' = {} /\ OneMessage' /\ ~Empty'
    BY <2>1, <2>2, OneMoreMessage, ImportAssumption DEF Busy, TypesInv, TypeOK
  <2>4. ExecutionInv'
    BY <2>1, <2>3 DEF ExecutionInv
  <2>5. StatusInv'
    BY <2>1, <2>3 DEF StatusInv, AtRest, Empty
  <2> QED
    BY <2>4, <2>5
<1> QED
  BY <1>1, <1>2, <1>3, <1>4 DEF ByService, HandlerStep

LEMMA RunnerKeepsExecution ==
    ASSUME OnlyLosses, TypesInv, ExecutionInv, StatusInv, NEW w \in Workers, ByRunner(w)
    PROVE  ExecutionInv' /\ StatusInv'
<1> USE DEF Goto, Release, WriteStore, WriteRow, Silent, statuses, runner, messages
<1>0. /\ pc \in [Workers -> RunnerStates]
      /\ \A v \in Workers \ {w} : pc'[v] = pc[v]
      /\ queue \in [0 .. MaxRetries -> Nat] /\ retries[w] \in 0 .. MaxRetries
  BY RunnersApart DEF TypesInv, TypeOK
<1> DEFINE Own ==
        /\ pc[w] # "stop"
        /\ pc[w] = "complete_row" => store = "completed"
        /\ pc[w] = "audit" => store = "completed" /\ row = "completed"
        /\ pc[w] = "fail_row" => store = "failed"
<1>1. pc[w] # "idle" =>
        /\ Own /\ Empty /\ Busy = {w} /\ handler = "idle" /\ row # "none"
        /\ \A v \in Workers \ {w} : pc[v] = "idle"
  BY DEF StatusInv, ExecutionInv, Busy
<1>2. revoked = "no" /\ store # "cancelled"
  BY DEF StatusInv
(* The worker goes on; *)
<1>3. ASSUME pc[w] # "idle", pc'[w] # "idle", UNCHANGED <<queue, revoked, handler>>,
             row' # "none", store' # "cancelled", Own'
      PROVE  ExecutionInv' /\ StatusInv'
  <2>1. Busy' = {w} /\ Empty' /\ \A v \in Workers \ {w} : pc'[v] = "idle"
    BY <1>0, <1>1, <1>3 DEF Busy, Empty
  <2>2. ExecutionInv'
    BY <1>1, <1>3, <2>1 DEF ExecutionInv
  <2>3. StatusInv'
    BY <1>2, <1>3, <2>1 DEF StatusInv, AtRest
  <2> QED
    BY <2>2, <2>3
(* it ends, or gives the task back. *)
<1>4. ASSUME pc[w] # "idle", pc'[w] = "idle", UNCHANGED <<revoked, handler>>,
             row' # "none", store' # "cancelled",
             (Empty' /\ store' = row') \/ (OneMessage' /\ ~Empty')
      PROVE  ExecutionInv' /\ StatusInv'
  <2>1. \A v \in Workers : pc'[v] = "idle"
    BY <1>0, <1>1, <1>4
  <2>2. Busy' = {}
    BY <2>1 DEF Busy
  <2>3. ExecutionInv'
    BY <1>1, <1>4, <2>2 DEF ExecutionInv
  <2>4. StatusInv'
    BY <1>2, <1>4, <2>1 DEF StatusInv, AtRest, Empty
  <2> QED
    BY <2>3, <2>4
<1>5. CASE Receive(w)
  <2>1. PICK r \in 0 .. MaxRetries : Take(r)
    BY <1>5 DEF Receive
  <2>2. pc[w] = "idle" /\ pc'[w] = "begin" /\ UNCHANGED <<store, row, revoked, handler>>
    BY <1>0, <1>2, <1>5 DEF Receive
  <2>3. OneMessage /\ Empty'
    BY <1>0, <2>1, OneMessageLess DEF ExecutionInv
  <2>4. ~Empty
    BY <2>3 DEF OneMessage, Empty
  <2>5. Busy = {} /\ row # "none" /\ handler = "idle"
    BY <2>4 DEF ExecutionInv
  <2>6. Busy' = {w}
    BY <1>0, <2>2, <2>5 DEF Busy
  <2>7. ExecutionInv'
    BY <2>2, <2>3, <2>5, <2>6 DEF ExecutionInv
  <2>8. StatusInv'
    BY <1>0, <2>2, <2>6 DEF StatusInv, AtRest
  <2> QED
    BY <2>7, <2>8
<1>6. CASE Begin(w) \/ StartStore(w) \/ IndexMetadata(w) \/ CompleteStore(w) \/ FailStore(w)
  <2>1. /\ pc[w] # "idle" /\ pc'[w] # "idle" /\ UNCHANGED <<queue, revoked, handler, row>>
        /\ store' # "cancelled" /\ Own'
    BY <1>0, <1>2, <1>6 DEF Begin, StartStore, IndexMetadata, CompleteStore, FailStore
  <2> QED
    BY <1>1, <1>3, <2>1
<1>7. CASE StartRow(w) \/ EndNode(w) \/ Poll(w)
  <2>1. /\ pc[w] # "idle" /\ pc'[w] # "idle" /\ UNCHANGED <<queue, revoked, handler, store>>
        /\ row' \in {row, "processing"} /\ Own'
    BY <1>0, <1>2, <1>7 DEF StartRow, EndNode, Poll
  <2> QED
    BY <1>1, <1>2, <1>3, <2>1
<1>8. CASE StopCancelled(w)
  BY <1>1, <1>8 DEF StopCancelled
<1>9. CASE CompleteRow(w)
  <2>1. /\ pc[w] # "idle" /\ pc'[w] = "audit" /\ UNCHANGED <<queue, revoked, handler, store>>
        /\ row' = "completed" /\ Own'
    BY <1>0, <1>1, <1>9 DEF CompleteRow
  <2> QED
    BY <1>2, <1>3, <2>1
<1>10. CASE AuditCompletion(w)
  <2>1. /\ pc[w] = "audit" /\ pc'[w] = "idle" /\ UNCHANGED <<queue, revoked, handler, store, row>>
        /\ store = row
    BY <1>0, <1>1, <1>10 DEF AuditCompletion
  <2>2. Empty'
    BY <1>1, <2>1 DEF Empty
  <2> QED
    BY <1>1, <1>2, <1>4, <2>1, <2>2
<1>11. CASE FailRow(w)
  <2>1. /\ pc[w] = "fail_row" /\ UNCHANGED <<queue, revoked, handler, store>>
        /\ row' = "failed" /\ store = "failed" /\ pc'[w] \in {"idle", "count"}
    BY <1>0, <1>1, <1>11 DEF FailRow
  <2>2. Empty'
    BY <1>1, <2>1 DEF Empty
  <2>3. CASE pc'[w] = "idle"
    BY <1>4, <2>1, <2>2, <2>3
  <2>4. CASE pc'[w] = "count"
    BY <1>3, <2>1, <2>4
  <2> QED
    BY <2>1, <2>3, <2>4
<1>12. CASE CountRetry(w) \/ ResetStore(w)
  <2>1. /\ pc[w] # "idle" /\ pc'[w] \in {"reset", "publish"} /\ UNCHANGED <<queue, revoked, handler, row>>
        /\ store' # "cancelled"
    BY <1>0, <1>2, <1>12 DEF CountRetry, ResetStore
  <2> QED
    BY <1>1, <1>3, <2>1
<1>13. CASE PublishRetry(w)
  <2>1. /\ pc[w] = "publish" /\ pc'[w] = "idle" /\ UNCHANGED <<revoked, handler, store, row>>
        /\ Publish(retries[w] + 1)
    BY <1>0, <1>13 DEF PublishRetry
  <2>2. retries[w] + 1 \in 0 .. MaxRetries
    BY <1>0, <2>1, ImportAssumption DEF TypesInv
  <2>3. OneMessage' /\ ~Empty'
    BY <1>0, <1>1, <2>1, <2>2, OneMoreMessage
  <2> QED
    BY <1>1, <1>2, <1>4, <2>1, <2>3
<1>14. CASE Raise(w)
  <2>1. pc[w] # "idle" /\ pc'[w] = "fail_store" /\ UNCHANGED <<queue, revoked, handler, store, row>>
    BY <1>0, <1>14 DEF Raise
  <2> QED
    BY <1>1, <1>2, <1>3, <2>1
<1>15. CASE Crash(w)
  <2>1. /\ pc[w] # "idle" /\ pc'[w] = "idle" /\ UNCHANGED <<revoked, handler, store, row>>
        /\ Publish(retries[w])
    BY <1>0, <1>15 DEF Crash, ReturnMessage, OnlyLosses
  <2>2. OneMessage' /\ ~Empty'
    BY <1>0, <1>1, <2>1, OneMoreMessage
  <2> QED
    BY <1>1, <1>2, <1>4, <2>1, <2>2
<1>16. CASE Redeliver(w)
  BY <1>16 DEF Redeliver, Inject, OnlyLosses
<1> QED
  BY <1>5, <1>6, <1>7, <1>8, <1>9, <1>10, <1>11, <1>12, <1>13, <1>14, <1>15, <1>16
     DEF ByRunner, RunnerStep

PairInv == TypesInv /\ ExecutionInv /\ StatusInv

LEMMA PairHoldsAtFirst == Init => PairInv
<1> SUFFICES ASSUME Init PROVE ExecutionInv /\ StatusInv
  BY TypesHoldAtFirst DEF PairInv
<1>1. Busy = {} /\ Empty /\ \A w \in Workers : pc[w] = "idle"
  BY DEF Init, Busy, Empty
<1> QED
  BY <1>1 DEF Init, ExecutionInv, StatusInv

LEMMA PairHoldsOn == ASSUME OnlyLosses PROVE PairInv /\ [Next]_vars => PairInv'
<1> SUFFICES ASSUME TypesInv, ExecutionInv, StatusInv, [Next]_vars PROVE ExecutionInv' /\ StatusInv'
  BY TypesHoldOn DEF PairInv
<1>1. CASE UNCHANGED vars
  BY <1>1 DEF vars, ExecutionInv, StatusInv, AtRest, Busy, Empty, OneMessage
<1> QED
  BY <1>1, ServiceKeepsExecution, RunnerKeepsExecution, Actors

LEMMA CountedOnce == ExecutionInv => OneRunAtATime
<1> SUFFICES ASSUME ExecutionInv PROVE OneRunAtATime
  OBVIOUS
<1>1. Busy = {} \/ \E w : Busy = {w}
  BY DEF ExecutionInv
<1>2. Cardinality({}) = 0 /\ \A x : Cardinality({x}) = 1
  BY FS_EmptySet, FS_Singleton
<1>3. Empty => Waiting = {}
  BY ImportAssumption DEF Empty, Waiting
<1>4. ASSUME OneMessage PROVE \E m : Waiting = {m}
  <2>1. PICK m \in 0 .. MaxRetries : \A r \in 0 .. MaxRetries : queue[r] = IF r = m THEN 1 ELSE 0
    BY <1>4 DEF OneMessage
  <2>2. \A r \in 0 .. MaxRetries : {r} \X (1 .. queue[r]) = IF r = m THEN {<<m, 1>>} ELSE {}
    <3>1. 1 .. 1 = {1} /\ 1 .. 0 = {}
      OBVIOUS
    <3> QED
      BY <2>1, <3>1
  <2>3. Waiting = {<<m, 1>>}
    BY <2>2 DEF Waiting
  <2> QED
    BY <2>3
<1>5. Empty \/ OneMessage
  BY DEF ExecutionInv
<1>6. Cardinality(Waiting) = 0 \/ (Cardinality(Waiting) = 1 /\ Busy = {})
  BY <1>2, <1>3, <1>4, <1>5 DEF ExecutionInv, Empty, OneMessage
<1>7. Cardinality(Busy) = 0 \/ Cardinality(Busy) = 1
  BY <1>1, <1>2
<1> QED
  BY <1>2, <1>6, <1>7 DEF OneRunAtATime

LEMMA AgreedAtRest == StatusInv => StatusesAgreeAtRest
BY DEF StatusInv, StatusesAgreeAtRest

LEMMA PairsHold == ASSUME OnlyLosses PROVE MCSpec => [](part = "pair" => PairInv)
<1> DEFINE I == part = "pair" => PairInv
<1>1. MCInit => I
  BY PairHoldsAtFirst DEF MCInit
<1>2. I /\ [MCNext]_<<vars, part>> => I'
  BY PairHoldsOn DEF MCNext
<1> QED
  BY <1>1, <1>2, PTL DEF MCSpec

(* Late acknowledgement and Celery's retries: a message and a run of the   *)
(* task are never two, however many workers there are and however often    *)
(* one of them is lost, as long as nobody cancels, retries or delivers     *)
(* twice.                                                                  *)
THEOREM OneRunWithoutRequests ==
    ASSUME OnlyLosses PROVE Spec => []OneRunAtATime
BY PairHoldsAtFirst, PairHoldsOn, CountedOnce, PTL DEF Spec, PairInv

(* The same of the behaviours that are checked beside others.              *)
THEOREM PairsRunOneAtATime ==
    ASSUME OnlyLosses PROVE MCSpec => []PairOneRunAtATime
<1>1. (part = "pair" => PairInv) => PairOneRunAtATime
  BY CountedOnce DEF PairInv, PairOneRunAtATime
<1> QED
  BY <1>1, PairsHold, PTL

(* The runner and the service write the store and then the row: under the  *)
(* same conditions the two say the same once nothing of the task is under  *)
(* way.                                                                    *)
THEOREM PairsAgreeAtRest ==
    ASSUME OnlyLosses PROVE MCSpec => []PairStatusesAgreeAtRest
<1>1. (part = "pair" => PairInv) => PairStatusesAgreeAtRest
  BY AgreedAtRest DEF PairInv, PairStatusesAgreeAtRest
<1> QED
  BY <1>1, PairsHold, PTL
============================================================================
