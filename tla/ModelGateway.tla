---------------------------- MODULE ModelGateway ----------------------------
(***************************************************************************)
(* The gateway to the language models (ModelGateway): a call tries the     *)
(* configured models in turn, a circuit breaker per model, shared by all   *)
(* calls of the process, says which of them may be tried.  Calls of        *)
(* concurrent queries interleave between the check of the circuit, the     *)
(* chunks of the answer and the record of the outcome.                     *)
(***************************************************************************)
EXTENDS Integers, Sequences

CONSTANTS
    Callers,           \* what calls the gateway, one call at a time
    Models,            \* the primary model, then the fallbacks
    CircuitFailures,   \* model_circuit_breaker_failures
    MaxParts           \* bound on the chunks of a streamed answer

ASSUME GatewayAssumption ==
    /\ Models \in Seq({Models[i] : i \in DOMAIN Models})
    /\ Len(Models) > 0
    /\ \A i \in DOMAIN Models : Models[i] # "none"
    /\ CircuitFailures \in Nat \ {0}
    /\ MaxParts \in Nat \ {0}

VARIABLES
    circuits,    \* per model: failures, and closed, open, or due for a reset
    calls,       \* per caller: the call in progress
    streak       \* history: failures of a model since it succeeded or had time to reset

gateway == <<circuits, calls, streak>>

ModelSet == {Models[i] : i \in DOMAIN Models}
NoModel == "none"
NoCall == [stream |-> FALSE, left |-> <<>>, model |-> NoModel, chunks |-> 0,
           writer |-> NoModel, outcome |-> "none"]

GatewayInit ==
    /\ circuits = [m \in ModelSet |-> [failures |-> 0, state |-> "closed"]]
    /\ calls = [c \in Callers |-> NoCall]
    /\ streak = [m \in ModelSet |-> 0]

Calling(c) == calls[c].outcome = "trying"
Trying(c) == Calling(c) /\ calls[c].model # NoModel

(* _circuit_allows: closed, or opened long enough ago. *)
Allows(m) == circuits[m].state # "open"

RecordSuccess(m) == circuits' = [circuits EXCEPT ![m] = [failures |-> 0, state |-> "closed"]]

(* Failures are counted up to the number that opens the circuit. *)
Capped(n) == IF n > CircuitFailures THEN CircuitFailures ELSE n

\* mutant: the circuit opens one failure too late
RecordFailureLate(m) ==
    circuits' = [circuits EXCEPT ![m] =
        [failures |-> Capped(@.failures + 1),
         state |-> IF @.failures >= CircuitFailures THEN "open" ELSE @.state]]

(* A failure counts, and opens the circuit, for long enough from now on. *)
RecordFailure(m) ==
    circuits' = [circuits EXCEPT ![m] =
        [failures |-> Capped(@.failures + 1),
         state |-> IF @.failures + 1 >= CircuitFailures THEN "open" ELSE @.state]]

(* get_llm_client(...).invoke or .stream: every model is still to be tried. *)
StartCall(c) ==
    /\ ~Calling(c)
    /\ \E stream \in BOOLEAN :
        calls' = [calls EXCEPT ![c] = [NoCall EXCEPT !.stream = stream, !.left = Models,
                                                    !.outcome = "trying"]]
    /\ UNCHANGED <<circuits, streak>>

(* The next model: it is called if its circuit allows it, which closes a   *)
(* circuit that is due; it is passed over otherwise.                       *)
TryModel(c) ==
    /\ Calling(c) /\ ~Trying(c)
    /\ calls[c].left # <<>>
    /\ LET m == Head(calls[c].left)
       IN  /\ calls' = [calls EXCEPT ![c].left = Tail(@),
                                     ![c].model = IF Allows(m) THEN m ELSE NoModel]
           /\ circuits' = IF circuits[m].state = "due"
                          THEN [circuits EXCEPT ![m] = [failures |-> 0, state |-> "closed"]]
                          ELSE circuits
    /\ UNCHANGED streak

(* All have failed or were passed over. *)
NoneLeft(c) ==
    /\ Calling(c) /\ ~Trying(c)
    /\ calls[c].left = <<>>
    /\ calls' = [calls EXCEPT ![c].outcome = "error"]
    /\ UNCHANGED <<circuits, streak>>

(* A chunk of a streamed answer, which the caller may publish at once. *)
ModelEmits(c) ==
    /\ Trying(c) /\ calls[c].stream
    /\ calls[c].chunks < MaxParts
    /\ calls' = [calls EXCEPT ![c].chunks = @ + 1, ![c].writer = calls[c].model]
    /\ UNCHANGED <<circuits, streak>>

ModelAnswers(c) ==
    /\ Trying(c)
    /\ RecordSuccess(calls[c].model)
    /\ calls' = [calls EXCEPT ![c].outcome = "answer"]
    /\ streak' = [streak EXCEPT ![calls[c].model] = 0]

\* mutant: another model goes on where one broke off
AfterFailureFallback(c) == [calls[c] EXCEPT !.model = NoModel]

(* A model fails: the next one is tried, unless part of the answer is out. *)
AfterFailure(c) ==
    IF calls[c].chunks > 0 THEN [calls[c] EXCEPT !.outcome = "error"]
    ELSE [calls[c] EXCEPT !.model = NoModel]

ModelFails(c) ==
    /\ Trying(c)
    /\ RecordFailure(calls[c].model)
    /\ calls' = [calls EXCEPT ![c] = AfterFailure(c)]
    /\ streak' = [streak EXCEPT ![calls[c].model] = Capped(@ + 1)]

(* model_circuit_breaker_reset_seconds after the circuit was last opened. *)
ResetDue(m) ==
    /\ circuits[m].state = "open"
    /\ circuits' = [circuits EXCEPT ![m].state = "due"]
    /\ streak' = [streak EXCEPT ![m] = 0]
    /\ UNCHANGED calls

----------------------------------------------------------------------------
GatewayNext ==
    \/ \E c \in Callers :
        \/ StartCall(c) \/ TryModel(c) \/ NoneLeft(c)
        \/ ModelEmits(c) \/ ModelAnswers(c) \/ ModelFails(c)
    \/ \E m \in ModelSet : ResetDue(m)

GatewaySpec == GatewayInit /\ [][GatewayNext]_gateway

----------------------------------------------------------------------------
(* What a caller of the gateway relies on, however many models there are.  *)
Call == INSTANCE ModelCall WITH
    outcome <- [c \in Callers |-> calls[c].outcome],
    parts   <- [c \in Callers |-> calls[c].chunks],
    writer  <- [c \in Callers |-> calls[c].writer]

(* The gateway implements it: a call ends once, with an answer or an error *)
(* and the parts of an answer are all written by one model.                *)
ImplementsCall == Call!Spec

(* A model that failed CircuitFailures times with neither a success nor    *)
(* the time to reset between is not called, whichever callers called it.   *)
BreakerProtects ==
    [][\A m \in ModelSet :
        (\E c \in Callers : calls'[c].model = m /\ calls[c].model # m) =>
            streak[m] < CircuitFailures]_gateway
============================================================================
