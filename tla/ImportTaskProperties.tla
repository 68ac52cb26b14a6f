------------------------ MODULE ImportTaskProperties ------------------------
(***************************************************************************)
(* What an import task is expected to guarantee.                           *)
(***************************************************************************)
EXTENDS ImportTask, FiniteSets

(* Every variable keeps its type. *)
TypeOK ==
    /\ store \in Statuses
    /\ row \in Statuses
    /\ index \in {"absent", "partial", "whole"}
    /\ queue \in [0 .. MaxRetries -> Nat]
    /\ revoked \in {"no", "yes"}
    /\ pc \in [Workers -> RunnerStates]
    /\ node \in [Workers -> 0 .. Nodes]
    /\ retries \in [Workers -> 0 .. MaxRetries]
    /\ retryable \in [Workers -> {"no", "yes"}]
    /\ handler \in HandlerStates
    /\ faults \in Nat /\ requests \in Nat /\ errors \in Nat

(* A task shown as completed has its whole document in Milvus, however     *)
(* often it was cancelled, retried, redelivered or restarted before.       *)
CompletedIsIndexed == row = "completed" => index = "whole"

Busy == {w \in Workers : pc[w] # "idle"}

AtRest ==
    /\ handler = "idle"
    /\ Busy = {}
    /\ \A r \in 0 .. MaxRetries : queue[r] = 0

(* When nothing is in progress any more, the status endpoint (the store)   *)
(* and the task list (the row) say the same.                               *)
StatusesAgreeAtRest == AtRest /\ row # "none" /\ store # "none" => store = row

(* The messages in the queue. *)
Waiting == UNION {{r} \X (1 .. queue[r]) : r \in 0 .. MaxRetries}

(* The task's executions, waiting or running, are never two: "only failed  *)
(* tasks can be executed again".                                           *)
OneRunAtATime == Cardinality(Waiting) + Cardinality(Busy) <= 1

(* A task that waits is taken up. *)
PendingEnds == (row # "none" /\ Current = "pending") ~> Current # "pending"

(* A task that is being processed comes to an end, even when its worker is *)
(* lost.                                                                   *)
ProcessingEnds == Current = "processing" ~> Current \in {"completed", "failed", "cancelled"}

----------------------------------------------------------------------------
(* The inductive invariants behind these properties. *)

(* A message is only published again while a retry is left. *)
TypesInv ==
    /\ TypeOK
    /\ \A w \in Workers : pc[w] \in {"count", "reset", "publish"} => retries[w] < MaxRetries

(* One worker alone: while it works on the document the row does not say   *)
(* completed, and after the last node all of it is in Milvus.              *)
IndexInv ==
    /\ CompletedIsIndexed
    /\ \A w \in Workers :
        /\ pc[w] \in {"node", "poll", "index", "complete_store", "complete_row"} =>
             row # "completed"
        /\ pc[w] \in {"index", "complete_store", "complete_row"} => index = "whole"
        /\ pc[w] = "poll" /\ node[w] = Nodes => index = "whole"

Empty == \A r \in 0 .. MaxRetries : queue[r] = 0
OneMessage == \E m \in 0 .. MaxRetries : \A r \in 0 .. MaxRetries : queue[r] = IF r = m THEN 1 ELSE 0

(* Workers that may be lost, and no request: the task is with the handler  *)
(* that submits it, in the queue, with one worker or at its end, *)
ExecutionInv ==
    /\ handler \in {"idle", "create_row", "dispatch", "retry_store"}
    /\ handler = "create_row" => row = "none"
    /\ handler \in {"dispatch", "retry_store"} => row # "none"
    /\ \A v, w \in Busy : v = w
    /\ Empty \/ OneMessage
    /\ Busy # {} => Empty
    /\ row = "none" \/ handler # "idle" => Empty /\ Busy = {}

(* and who has it has written what the two statuses say. *)
StatusInv ==
    /\ revoked = "no" /\ store # "cancelled"
    /\ AtRest /\ row # "none" => store = row
    /\ \A w \in Workers :
        /\ pc[w] # "stop"
        /\ pc[w] = "complete_row" => store = "completed"
        /\ pc[w] = "audit" => store = "completed" /\ row = "completed"
        /\ pc[w] = "fail_row" => store = "failed"
============================================================================
