----------------------------- MODULE ModelCall -----------------------------
(***************************************************************************)
(* What the nodes of the workflows rely on when they call a model through  *)
(* get_llm_client: a call is answered, in parts when it is streamed, or it *)
(* fails; the parts are one model's, and a failed call may leave some.     *)
(***************************************************************************)
EXTENDS Integers

CONSTANTS Callers, ModelSet, NoModel, MaxParts

VARIABLES
    outcome,   \* per caller: "none", "trying", "answer" or "error"
    parts,     \* the parts of the answer so far
    writer     \* the model that writes them

vars == <<outcome, parts, writer>>

Init ==
    /\ outcome = [c \in Callers |-> "none"]
    /\ parts = [c \in Callers |-> 0]
    /\ writer = [c \in Callers |-> NoModel]

Start(c) ==
    /\ outcome[c] # "trying"
    /\ outcome' = [outcome EXCEPT ![c] = "trying"]
    /\ parts' = [parts EXCEPT ![c] = 0]
    /\ writer' = [writer EXCEPT ![c] = NoModel]

Part(c, m) ==
    /\ outcome[c] = "trying"
    /\ writer[c] \in {NoModel, m}
    /\ parts[c] < MaxParts
    /\ parts' = [parts EXCEPT ![c] = @ + 1]
    /\ writer' = [writer EXCEPT ![c] = m]
    /\ UNCHANGED outcome

End(c, result) ==
    /\ outcome[c] = "trying"
    /\ outcome' = [outcome EXCEPT ![c] = result]
    /\ UNCHANGED <<parts, writer>>

Next ==
    \E c \in Callers :
        \/ Start(c)
        \/ \E m \in ModelSet : Part(c, m)
        \/ End(c, "answer") \/ End(c, "error")

Spec == Init /\ [][Next]_vars
============================================================================
