--------------------------- MODULE MCQueryWorkflow ---------------------------
(* Small instances of the query workflow and of the model gateway for TLC, *)
(* each of them on its own: part says which of the two a behaviour is of.  *)
EXTENDS QueryWorkflowProperties, ModelGateway, TLC

CONSTANTS primary, fallback
VARIABLE part

TwoModels == <<primary, fallback>>

MCInit ==
    /\ Init /\ GatewayInit
    /\ \/ part = "workflow"
       \/ part = "gateway" /\ backend = "memory" /\ streamed = {}

MCNext ==
    /\ \/ part = "workflow" /\ Next /\ UNCHANGED gateway
       \/ part = "gateway" /\ GatewayNext /\ UNCHANGED vars
    /\ UNCHANGED part

MCSpec == MCInit /\ [][MCNext]_<<vars, gateway, part>> /\ Fairness
============================================================================
