---------------------------- MODULE QueryWorkflow ----------------------------
(***************************************************************************)
(* The queries of one chat session: the POST, the query graph that runs in *)
(* a thread (kb_query_workflow.py and its nodes), the history in SQL and   *)
(* the answer.  The nodes write to the session's results and stream, which *)
(* are in QuerySessions.                                                   *)
(*                                                                         *)
(* What the searches find and how it is ranked is data here (Ranking has   *)
(* the operators): a query finds documents, or none.  How a call is        *)
(* tried on several models is in ModelGateway; a node sees a ModelCall.    *)
(***************************************************************************)
EXTENDS QuerySessions, FiniteSets

CONSTANTS
    Patient,      \* the client waits for the end of a query before it posts the next
    MaxChunks,    \* bound on the parts of a streamed answer
    Faults,       \* "history": SQL fails; "embedding": the embedding model does
    MaxFaults     \* bound on the faults

ASSUME WorkflowAssumption ==
    /\ Patient \in BOOLEAN
    /\ MaxChunks \in Nat \ {0}
    /\ MaxFaults \in Nat

VARIABLES
    streamed,     \* the queries that ask for a stream
    node,         \* where the graph of a query is
    parts,        \* the parts of its answer that the model has written
    found,        \* its searches found something
    answer,       \* its state["answer"], and whether documents are cited for it
    chat,         \* the session has its row
    messages,     \* the messages of the session, in the order of created_at
    cleared,      \* history: the queries that ran when the history was cleared
    faults        \* faults so far

graph == <<node, parts, found, answer>>
history == <<chat, messages, cleared>>
vars == <<sessions, streamed, graph, history, faults>>

NoAnswer == [text |-> "none", cited |-> FALSE]
Preset == "preset"     \* an answer of node_item_name_confirm: options, or nothing found
Ended == {"done", "failed"}

Stream(q) == q \in streamed
Goto(q, n) == node' = [node EXCEPT ![q] = n]
Fault(f) == f \in Faults /\ faults < MaxFaults /\ faults' = faults + 1
Message(q, role, a) == [of |-> q, role |-> role, text |-> a.text, cited |-> a.cited]
Has(q, role) == \E i \in DOMAIN messages : messages[i].of = q /\ messages[i].role = role

Init ==
    /\ SessionsInit
    /\ streamed \in SUBSET Queries
    /\ node = [q \in Queries |-> "none"]
    /\ parts = [q \in Queries |-> 0]
    /\ found = [q \in Queries |-> FALSE]
    /\ answer = [q \in Queries |-> NoAnswer]
    /\ chat = FALSE
    /\ messages = <<>>
    /\ cleared = {}
    /\ faults = 0

----------------------------------------------------------------------------
(* For its client a query has ended with the answer to the POST, with the  *)
(* last event of its stream, or with both its graph and its stream over.   *)
EndedForClient(q) ==
    \/ response[q] \notin {"none", "accepted"}
    \/ received[q] # <<>> /\ received[q][Len(received[q])].kind \in Terminal
    \/ node[q] \in Ended /\ reader[q].state = "ended"

(* POST /query: the session's row, and the stream of a query that asks for *)
(* one, before the graph is handed to a thread.                            *)
Post(q) ==
    /\ node[q] = "none"
    /\ chat' = TRUE
    /\ Patient => \A p \in Queries : node[p] = "none" \/ EndedForClient(p)
    /\ IF Stream(q)
       THEN CreateStream /\ response' = [response EXCEPT ![q] = "accepted"]
       ELSE UNCHANGED <<streams, current, response>>
    /\ Goto(q, "node_item_name_confirm")
    /\ UNCHANGED <<backend, result, reader, received, parts, found, answer,
                   messages, cleared, faults>>

\* mutant: a streamed query does not hear of it
FailRunSilently(q) ==
    /\ result' = [result EXCEPT !.error = q]
    /\ Goto(q, "failed")
    /\ UNCHANGED <<backend, streams, current, reader, received, response>>

(* An exception in a node: the error is the session's from now on. *)
FailRun(q) ==
    /\ result' = [result EXCEPT !.error = q]
    /\ IF Stream(q) THEN Push(Event("error", q)) ELSE UNCHANGED streams
    /\ Goto(q, "failed")
    /\ UNCHANGED <<backend, current, reader, received, response>>

\* mutant: every message is a new one
SaveMessageAgain(q, role) ==
    /\ chat' = TRUE
    /\ messages' = Append(messages, Message(q, role, answer[q]))
    /\ UNCHANGED cleared

(* save_chat_message: a message with a known id, as that of the question,  *)
(* is updated, or written again when it is gone, and so is the session.    *)
SaveMessage(q, role) ==
    /\ chat' = TRUE
    /\ messages' = IF role = "user" /\ Has(q, role) THEN messages
                   ELSE Append(messages, Message(q, role, answer[q]))
    /\ UNCHANGED cleared

(* A write to the history, then the next node; SQL fails, the run fails.   *)
Write(q, role, next) ==
    \/ /\ SaveMessage(q, role)
       /\ Goto(q, next)
       /\ UNCHANGED <<sessions, faults>>
    \/ Fault("history") /\ FailRun(q) /\ UNCHANGED history

(* node_item_name_confirm: the history is read and the question saved, *)
SaveQuestion(q) ==
    /\ node[q] = "node_item_name_confirm"
    /\ Write(q, "user", "extract")
    /\ UNCHANGED <<parts, found, answer>>

(* names are extracted by a model, none when it fails, and found in the    *)
(* catalogue or not; a confirmed name leads to the searches, the others to *)
(* an answer of the node's own,                                            *)
AlignNames(q) ==
    /\ node[q] = "extract"
    /\ \/ Goto(q, "update_question") /\ UNCHANGED <<sessions, answer, faults>>
       \/ /\ answer' = [answer EXCEPT ![q].text = Preset]
          /\ Goto(q, "save_reply")
          /\ UNCHANGED <<sessions, faults>>
       \/ Fault("embedding") /\ FailRun(q) /\ UNCHANGED answer
    /\ UNCHANGED <<parts, found, history>>

(* which is saved first, *)
SaveReply(q) ==
    /\ node[q] = "save_reply"
    /\ Write(q, "assistant", "update_question")
    /\ UNCHANGED <<parts, found, answer>>

(* and then the question again, with its names. *)
UpdateQuestion(q) ==
    /\ node[q] = "update_question"
    /\ Write(q, "user", IF answer[q].text = "none" THEN "node_multi_search"
                                                    ELSE "node_answer_output")
    /\ UNCHANGED <<parts, found, answer>>

(* Three searches side by side, each of which finds nothing when it fails, *)
(* then node_rrf and node_rerank.                                          *)
MultiSearch(q) ==
    /\ node[q] = "node_multi_search"
    /\ \E hit \in BOOLEAN : found' = [found EXCEPT ![q] = hit]
    /\ Goto(q, "node_answer_output")
    /\ UNCHANGED <<sessions, parts, answer, history, faults>>

(* node_answer_output: an answer that is there is published, and so is the *)
(* one that there is no evidence; else a model writes it.                  *)
PublishExisting(q) ==
    IF Stream(q) THEN Push(Event("delta", q)) ELSE UNCHANGED streams

PrepareEvidence(q) ==
    /\ node[q] = "node_answer_output"
    /\ \/ /\ answer[q].text # "none"
          /\ PublishExisting(q)
          /\ Goto(q, "persist")
          /\ UNCHANGED answer
       \/ /\ answer[q].text = "none"
          /\ answer' = [answer EXCEPT ![q].text = "no_evidence"]
          /\ PublishExisting(q)
          /\ Goto(q, "write_history")
       \/ /\ answer[q].text = "none"
          /\ found[q]
          /\ answer' = [answer EXCEPT ![q].cited = TRUE]
          /\ Goto(q, "generate")
          /\ UNCHANGED streams
    /\ UNCHANGED <<backend, result, current, reader, received, response, parts, found,
                   history, faults>>

(* A part of a streamed answer is published as it comes (ModelCall). *)
Emit(q) ==
    /\ node[q] = "generate"
    /\ Stream(q)
    /\ parts[q] < MaxChunks
    /\ parts' = [parts EXCEPT ![q] = @ + 1]
    /\ Push(Event("delta", q))
    /\ UNCHANGED <<backend, result, current, reader, received, response, node, found,
                   answer, history, faults>>

\* mutant: only the text of an answer that must not be given is replaced
SecuredText(q, text) == [answer[q] EXCEPT !.text = text]

(* _enforce_generated_output_security, _reconcile_generated_evidence: an   *)
(* answer that is replaced, or that admits to know nothing, cites nothing. *)
Secured(q, text) == [text |-> text, cited |-> answer[q].cited /\ text = "generated"]

(* The call has ended: with a text, or in an error, of the model or of     *)
(* this node when the answer is empty.                                     *)
Generate(q) ==
    /\ node[q] = "generate"
    /\ \/ /\ Stream(q) => parts[q] > 0
          /\ \E text \in {"generated", "withheld"} :
                answer' = [answer EXCEPT ![q] = Secured(q, text)]
          /\ Goto(q, "write_history")
          /\ UNCHANGED sessions
       \/ FailRun(q) /\ UNCHANGED answer
    /\ UNCHANGED <<parts, found, history, faults>>

(* _write_history: an error here is not the query's. *)
WriteHistory(q) ==
    /\ node[q] = "write_history"
    /\ \/ SaveMessage(q, "assistant") /\ UNCHANGED faults
       \/ Fault("history") /\ UNCHANGED history
    /\ Goto(q, "persist")
    /\ UNCHANGED <<sessions, parts, found, answer>>

(* _persist_task_result: the results are the session's. *)
PersistResult(q) ==
    /\ node[q] = "persist"
    /\ result' = [result EXCEPT !.answer = q]
    /\ Goto(q, "final")
    /\ UNCHANGED <<backend, streams, current, reader, received, response, parts,
                   found, answer, history, faults>>

(* The last event, and the end of the run. *)
Finish(q) ==
    /\ node[q] = "final"
    /\ IF Stream(q) THEN Push(Event("final", q)) ELSE UNCHANGED streams
    /\ Goto(q, "done")
    /\ UNCHANGED <<backend, result, current, reader, received, response, parts,
                   found, answer, history, faults>>

(* The POST of a query that is not streamed is answered when it has run. *)
Answer(q) ==
    /\ ~Stream(q)
    /\ node[q] \in Ended
    /\ response[q] = "none"
    /\ Respond(q)
    /\ UNCHANGED <<backend, result, streams, current, reader, received, graph,
                   history, faults>>

----------------------------------------------------------------------------
(* GET /stream/{session_id}: 404 when the session is gone. *)
OpenStream(q) ==
    /\ \/ chat /\ Connect(q)
       \/ /\ ~chat
          /\ response[q] = "accepted" /\ reader[q].state = "none"
          /\ reader' = [reader EXCEPT ![q].state = "ended"]
          /\ UNCHANGED <<backend, result, streams, current, received, response>>
    /\ UNCHANGED <<graph, history, faults>>

Serve(q) == (Read(q) \/ Close(q)) /\ UNCHANGED <<graph, history, faults>>

LeaveStream(q) == Disconnect(q) /\ UNCHANGED <<graph, history, faults>>

(* DELETE /history/{session_id}: the messages and the session's row.  Once *)
(* is enough to meet every step of a query.                                *)
ClearHistory ==
    /\ chat
    /\ cleared = {}
    /\ \E q \in Queries : node[q] \notin {"none"} \cup Ended
    /\ cleared' = {q \in Queries : node[q] \notin {"none"} \cup Ended}
    /\ chat' = FALSE
    /\ messages' = <<>>
    /\ UNCHANGED <<sessions, graph, faults>>

----------------------------------------------------------------------------
Run(q) ==
    \/ SaveQuestion(q) \/ AlignNames(q) \/ SaveReply(q) \/ UpdateQuestion(q)
    \/ MultiSearch(q) \/ PrepareEvidence(q) \/ Emit(q) \/ Generate(q)
    \/ WriteHistory(q) \/ PersistResult(q) \/ Finish(q) \/ Answer(q)

Next ==
    /\ \/ \E q \in Queries : Post(q) \/ Run(q) \/ OpenStream(q) \/ Serve(q) \/ LeaveStream(q)
       \/ ClearHistory
    /\ UNCHANGED streamed

Spec == Init /\ [][Next]_vars

(* The thread of a query goes on until its graph has ended, and so does    *)
(* the generator of a client that stays.                                   *)
Fairness ==
    /\ \A q \in Queries : WF_vars(Run(q) /\ UNCHANGED streamed)
    /\ \A q \in Queries : WF_vars(Serve(q) /\ UNCHANGED streamed)

FairSpec == Spec /\ Fairness
============================================================================
