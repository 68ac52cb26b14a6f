---------------------------- MODULE DeletionJob ----------------------------
(***************************************************************************)
(* What a cleanup job promises to the administrator who reads it through   *)
(* the API: a record that is worked on in attempts, that clears the stages *)
(* of a deletion in their order and each of them once, that gives up after *)
(* a number of attempts, that only a request of the administrator revives, *)
(* and that is finished for good when every stage is cleared.  No workers, *)
(* no messages, no transactions.                                           *)
(***************************************************************************)
EXTENDS Integers

CONSTANTS
    LastStage,    \* the stages are 1 .. LastStage; the last one ends the job
    MaxAttempts   \* attempts between two requests of the administrator

VARIABLES job, tries, cleared

jobVars == <<job, tries, cleared>>

Init ==
    /\ job = "NONE"
    /\ tries = 0
    /\ cleared = {}

Request ==
    /\ job = "NONE"
    /\ job' = "PENDING"
    /\ UNCHANGED <<tries, cleared>>

Start ==
    /\ job \in {"PENDING", "RETRYING"}
    /\ tries < MaxAttempts
    /\ job' = "PROCESSING"
    /\ tries' = tries + 1
    /\ UNCHANGED cleared

Clear ==
    /\ job = "PROCESSING"
    /\ \E s \in 1 .. LastStage - 1 :
        /\ cleared = 1 .. s - 1
        /\ cleared' = 1 .. s
    /\ UNCHANGED <<job, tries>>

Finish ==
    /\ job = "PROCESSING"
    /\ cleared = 1 .. LastStage - 1
    /\ cleared' = 1 .. LastStage
    /\ job' = "COMPLETED"
    /\ UNCHANGED tries

Fail ==
    /\ job = "PROCESSING"
    /\ job' = IF tries < MaxAttempts THEN "RETRYING" ELSE "DEAD_LETTER"
    /\ UNCHANGED <<tries, cleared>>

Retry ==
    /\ job \in {"RETRYING", "DEAD_LETTER"}
    /\ job' = "PENDING"
    /\ tries' = IF job = "DEAD_LETTER" THEN 0 ELSE tries
    /\ UNCHANGED cleared

JobNext == Request \/ Start \/ Clear \/ Finish \/ Fail \/ Retry

JobSpec == Init /\ [][JobNext]_jobVars
============================================================================
