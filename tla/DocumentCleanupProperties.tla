---------------------- MODULE DocumentCleanupProperties ----------------------
(***************************************************************************)
(* What the document cleanup is expected to guarantee.                     *)
(***************************************************************************)
EXTENDS DocumentCleanup

(* Every variable keeps its type.  The event's attempts may exceed its     *)
(* maximum (see AttemptsBounded).                                          *)
TypeOK ==
    /\ lifecycle \in Lifecycles
    /\ deleted_at \in {"null", "set"}
    /\ status \in Statuses
    /\ attempts \in Nat
    /\ ledger \subseteq Stages
    /\ residue \subseteq Stages
    /\ queue \in [0 .. CeleryRetries -> Nat]
    /\ pc \in [Workers -> WorkerStates]
    /\ todo \in [Workers -> SUBSET Stages]
    /\ retries \in [Workers -> 0 .. CeleryRetries]
    /\ hpc \in [Handlers -> HandlerStates]
    /\ seen \in [Handlers -> Statuses]
    /\ faults \in Nat
    /\ requests \in Nat

(* A document that the SQL metadata says is deleted has nothing left in    *)
(* any store: finalize_document_deletion runs "only after all external     *)
(* stages succeeded", whichever workers did the stages, in whichever       *)
(* attempts, across crashes, duplicated messages and lost ledger entries.  *)
DeletedMeansClean == deleted_at = "set" => residue = {}

(* The two rows the administrator sees always tell the same story: a       *)
(* running or waiting job never belongs to a document shown as failed or   *)
(* deleted, a failed job never to one shown as being deleted.              *)
StatusAgreement ==
    /\ status = "NONE" <=> lifecycle = "ACTIVE"
    /\ status \in {"PENDING", "PROCESSING"} => lifecycle \in {"DELETING", "RETRYING"}
    /\ status \in {"RETRYING", "DEAD_LETTER"} => lifecycle = "CLEANUP_FAILED"
    /\ status = "COMPLETED" => lifecycle = "DELETED"

(* A worker owns the event from its claim until its failure is committed   *)
(* or its last stage is behind it.                                         *)
Owns(w) == pc[w] \in {"context", "stage", "record", "audit", "failed"} /\ todo[w] # {}

(* mark_cleanup_started hands the event to one worker at a time, although  *)
(* messages are duplicated and redelivered and any worker may take them.   *)
SingleOwner == \A v, w \in Workers : Owns(v) /\ Owns(w) => v = w

(* process_cleanup_event: "completed stages are never repeated".  No       *)
(* worker at the head of its loop has a recorded stage ahead of it.        *)
NoStageRepeated == \A w \in Workers : pc[w] = "stage" => todo[w] \cap ledger = {}

(* The ledger is filled in the order of CLEANUP_STAGES. *)
LedgerIsPrefix == \A s \in ledger : VECTORS .. s \subseteq ledger

(* What the API shows of a deletion is one story: the document's row, the  *)
(* event's row and the stages in its payload, which are completed in their *)
(* order and all of them once the document is deleted.                     *)
RowsAgree ==
    /\ StatusAgreement
    /\ LedgerIsPrefix
    /\ deleted_at = "set" <=> SQL_METADATA \in ledger

(* Why DeletedMeansClean is inductive: a stage in the ledger, or behind a   *)
(* worker's loop, is out of its store; no step brings data back.           *)
CleanInv ==
    /\ ledger \cap residue = {}
    /\ \A w \in Workers :
        /\ pc[w] \in {"context", "stage", "record", "audit"} => residue \subseteq todo[w]
        /\ pc[w] \in {"record", "audit"} =>
             \A s \in residue : \E t \in todo[w] : t < s
    /\ status = "COMPLETED" => deleted_at = "set"
    /\ DeletedMeansClean

(* Why SingleOwner and NoStageRepeated are inductive: an owned event is    *)
(* PROCESSING, or COMPLETED by its owner, so neither a claim nor a retry   *)
(* can take it; and an owner's ledger holds nothing it has still to do but *)
(* the stage it is about to leave.                                         *)
OwnerInv ==
    /\ \A w \in Workers : pc[w] \in {"record", "audit", "failed"} => todo[w] # {}
    /\ \A w \in Workers : Owns(w) => status \in {"PROCESSING", "COMPLETED"}
    /\ \A h \in Handlers : hpc[h] # "retry_write"
    /\ SingleOwner

LedgerInv ==
    /\ \A w \in Workers :
        /\ pc[w] \in {"context", "stage", "record"} => todo[w] \cap ledger = {}
        /\ pc[w] = "audit" => \A s \in todo[w] \cap ledger : IsFirst(s, todo[w])

(* Why RowsAgree is inductive: before the first request there is no event  *)
(* to be about, and a stage a worker's loop does not have ahead of it is   *)
(* one its ledger records.                                                 *)
QuietInv ==
    status = "NONE" =>
        /\ ledger = {}
        /\ \A r \in 0 .. CeleryRetries : queue[r] = 0
        /\ \A w \in Workers : pc[w] = "idle"
        /\ \A h \in Handlers : hpc[h] = "idle"

LoopInv ==
    \A w \in Workers :
        /\ pc[w] \in {"context", "stage", "record", "audit"} => RemainingStages \subseteq todo[w]
        /\ pc[w] = "record" => \E s \in todo[w] : s < SQL_METADATA
        /\ pc[w] = "audit" => \A s \in Stages : IsFirst(s, todo[w]) => s \in ledger

RowsInv == QuietInv /\ LoopInv /\ RowsAgree

(* No event is processed more than max_attempts times between two requests *)
(* of the administrator.                                                   *)
AttemptsBounded == attempts <= MaxAttempts

(* TERMINAL_CLEANUP_STATUSES: a completed event stays completed. *)
CompletedIsTerminal == [][status = "COMPLETED" => status' = "COMPLETED"]_vars

(* TERMINAL_CLEANUP_STATUSES: only the administrator's retry, which makes  *)
(* it pending again, takes an event out of the dead letters.               *)
DeadLetterIsTerminal ==
    [][status = "DEAD_LETTER" => status' \in {"DEAD_LETTER", "PENDING"}]_vars

(* One worker on a database that serialises the retry: the event row, seen *)
(* without its workers and messages, is the job the API promises.          *)
Job == INSTANCE DeletionJob WITH
    LastStage <- SQL_METADATA, MaxAttempts <- MaxAttempts,
    job <- status, tries <- attempts, cleared <- ledger

ImplementsJob == Job!JobSpec

(* Why one worker implements the job: an event it may claim has an attempt *)
(* left, and while it has stages ahead of it the event is PROCESSING.      *)
JobInv ==
    /\ status = "NONE" => attempts = 0
    /\ status \in {"NONE", "PENDING", "RETRYING"} => attempts < MaxAttempts
    /\ \A w \in Workers : pc[w] = "claim" => status # "DEAD_LETTER"
    /\ \A w \in Workers : Owns(w) =>
         \/ status = "PROCESSING"
         \/ status = "COMPLETED" /\ pc[w] = "audit" /\ todo[w] = {SQL_METADATA}

(* Every deletion that has been dispatched ends, completed or as a dead    *)
(* letter an administrator can see, unless the environment interferes (see *)
(* ProcessingEnds): failures of the stores themselves are dealt with.      *)
EventuallySettled ==
    status # "NONE" ~> status \in {"COMPLETED", "DEAD_LETTER"} \/ faults > 0

(* "Resume a persisted document cleanup job after worker or dependency     *)
(* failures": an event found in PROCESSING does not stay there.            *)
ProcessingEnds == status = "PROCESSING" ~> status # "PROCESSING"

(* A committed deletion request is picked up. *)
PendingEnds == status = "PENDING" ~> status # "PENDING"
============================================================================
