----------------------- MODULE QueryWorkflowProperties -----------------------
(***************************************************************************)
(* What the clients of a chat session are expected to see.  A client that  *)
(* posts its next question before the last one has ended (~Patient) has    *)
(* no promise of whose answer it reads: the session is the key of both the *)
(* results and the stream.                                                 *)
(***************************************************************************)
EXTENDS QueryWorkflow

Nodes == {"none", "node_item_name_confirm", "extract", "save_reply", "update_question",
          "node_multi_search", "node_answer_output", "generate",
          "write_history", "persist", "final", "done", "failed"}
Texts == {Preset, "none", "no_evidence", "generated", "withheld"}
Events == [kind : {"delta", "final", "error"}, of : Queries]
Messages == [of : Queries, role : {"user", "assistant"}, text : Texts, cited : BOOLEAN]

(* Every variable keeps its type. *)
TypeOK ==
    /\ backend \in {"memory", "redis"}
    /\ result \in [answer : Queries \cup {NoQuery}, error : Queries \cup {NoQuery}]
    /\ streams \in Seq(Seq(Events))
    /\ current \in 0 .. Len(streams)
    /\ reader \in [Queries -> [state : {"none", "reading", "closing", "ended"},
                               stream : 0 .. Len(streams), position : Nat]]
    /\ received \in [Queries -> Seq(Events)]
    /\ response \in [Queries -> {"none", "accepted", "error"} \cup Queries]
    /\ node \in [Queries -> Nodes]
    /\ found \in [Queries -> BOOLEAN]
    /\ answer \in [Queries -> [text : Texts, cited : BOOLEAN]]
    /\ parts \in [Queries -> 0 .. MaxChunks]
    /\ chat \in BOOLEAN
    /\ messages \in Seq(Messages)
    /\ cleared \subseteq Queries
    /\ streamed \subseteq Queries
    /\ faults \in 0 .. MaxFaults

(* A client that waits for the end of each answer reads, in order and from *)
(* its beginning, what its own query pushed and nothing else; when it gets *)
(* the end it has got every part of the answer.                            *)
WholeStream ==
    Patient =>
        \A q \in streamed : received[q] # <<>> =>
            LET last == received[q][Len(received[q])]
            IN  /\ \A i \in DOMAIN received[q] :
                    /\ received[q][i].of = q
                    /\ i < Len(received[q]) => received[q][i].kind = "delta"
                /\ last.kind = "final" =>
                    Len(received[q]) - 1 = IF answer[q].text \in {Preset, "no_evidence"} THEN 1
                                           ELSE parts[q]

(* A query that is not streamed is answered with its own answer, not with  *)
(* one left by an earlier query, and only if it has one; it is answered    *)
(* with an error only if it failed or an earlier one of the session did.   *)
OwnResponse ==
    Patient =>
        \A q \in Queries :
            /\ response[q] \in Queries => response[q] = q /\ node[q] = "done"
            /\ response[q] = "error" => \E p \in Queries : node[p] = "failed"

(* A client that waits for each answer gets its own, as a stream or in the *)
(* response, though the session is the key of the results and the stream.  *)
OwnAnswer == WholeStream /\ OwnResponse

Count(q, role) ==
    Cardinality({i \in DOMAIN messages : messages[i].of = q /\ messages[i].role = role})

(* The history has a question and its answer once, in this order unless it *)
(* was cleared between them, and both when the query has run to its end    *)
(* and no write of an answer failed.                                       *)
HistoryKept ==
    \A q \in Queries :
        /\ Count(q, "user") <= 1 /\ Count(q, "assistant") <= 1
        /\ q \notin cleared =>
            /\ \A i, j \in DOMAIN messages :
                messages[i] # messages[j] /\ messages[i].of = q /\ messages[j].of = q =>
                    (i < j <=> messages[i].role = "user")
            /\ node[q] = "done" /\ faults = 0 /\ cleared = {} =>
                Count(q, "user") = 1 /\ Count(q, "assistant") = 1

(* Documents are only cited for an answer that a model wrote from some,    *)
(* whatever became of it after it was written: neither for a refusal nor   *)
(* for one that finds nothing in them; what is saved is what is returned.  *)
Grounded ==
    \A i \in DOMAIN messages :
        messages[i].role = "assistant" =>
            LET q == messages[i].of
            IN  /\ messages[i].cited => messages[i].text = "generated" /\ found[q]
                /\ messages[i].text = answer[q].text /\ messages[i].cited = answer[q].cited

(* In Redis every client that stays gets to the end of its stream, also    *)
(* when queries of a session overlap.                                      *)
StreamEnds ==
    \A q \in Queries :
        (backend = "redis" /\ reader[q].state = "reading") ~> (reader[q].state = "ended")

----------------------------------------------------------------------------
(* The inductive invariants behind these properties. *)

(* A client reads a stream that there is: in Redis the key of the session  *)
(* is not removed while a client may read it. *)
ReaderInv ==
    \A q \in Queries :
        /\ reader[q].state # "none" => response[q] = "accepted"
        /\ response[q] = "accepted" /\ backend = "redis" => current # 0
        /\ reader[q].state = "reading" => reader[q].stream # 0

(* The answer of a query, node by node: it is preset, or there is no       *)
(* evidence, or a model writes it, and cites what was found. *)
AnswerInv(q) ==
    /\ node[q] \in {"none", "node_item_name_confirm", "extract", "node_multi_search"} =>
         answer[q] = NoAnswer
    /\ node[q] = "generate" => answer[q].text = "none"
    /\ node[q] = "save_reply" => answer[q].text = Preset
    /\ node[q] \in {"update_question", "node_answer_output"} => answer[q].text \in {"none", Preset}
    /\ node[q] = "write_history" => answer[q].text \notin {"none", Preset}
    /\ node[q] \in {"persist", "final", "done"} => answer[q].text # "none"
    /\ answer[q].cited =>
        /\ found[q]
        /\ \/ answer[q].text = "generated"
           \/ answer[q].text = "none" /\ node[q] \in {"generate", "failed"}
    /\ parts[q] > 0 => node[q] \in {"generate", "write_history", "persist", "final", "done", "failed"}

(* A saved answer does not change any more. *)
AnswersInv ==
    /\ \A q \in Queries : AnswerInv(q)
    /\ \A i \in DOMAIN messages : messages[i].role = "assistant" =>
        LET q == messages[i].of
        IN  /\ \/ node[q] \in {"persist", "final", "done"}
               \/ /\ node[q] \in {"update_question", "node_answer_output", "failed"}
                  /\ answer[q].text = Preset
            /\ messages[i].text = answer[q].text /\ messages[i].cited = answer[q].cited

(* The question of a query that runs is there unless it was cleared; its   *)
(* answer comes once and after it. *)
SavedOnce ==
    \A i, j \in DOMAIN messages :
        messages[i].of = messages[j].of /\ messages[i].role = messages[j].role => i = j

QuestionFirst ==
    \A i, j \in DOMAIN messages :
        /\ messages[i].of = messages[j].of /\ messages[i].of \notin cleared
        /\ messages[i].role = "user" /\ messages[j].role = "assistant"
        => i < j

QuestionSaved ==
    \A q \in Queries \ cleared :
        /\ node[q] \notin {"none", "node_item_name_confirm", "failed"}
        /\ cleared = {} \/ node[q] # "done"
        => Has(q, "user")

AnswerSaved ==
    cleared = {} /\ faults = 0 =>
        \A q \in Queries :
            \/ node[q] \in {"persist", "final", "done"}
            \/ node[q] \in {"update_question", "node_answer_output"} /\ answer[q].text = Preset
            => Has(q, "assistant")

MessagesInv == SavedOnce /\ QuestionFirst /\ QuestionSaved /\ AnswerSaved

(* A query whose end its client has not seen yet. *)
Active(q) == node[q] # "none" /\ ~EndedForClient(q)

(* The parts of the answer that have been pushed. *)
Pushed(q) ==
    IF answer[q].text \in {Preset, "no_evidence"}
    THEN IF node[q] \in {"write_history", "persist", "final", "done"} THEN 1 ELSE 0
    ELSE parts[q]

(* The events of query q at node n, which has pushed k parts, or the       *)
(* beginning of them, *)
Told(events, q, n, k) ==
    \A i \in DOMAIN events :
        /\ events[i].of = q
        /\ i < Len(events) => events[i].kind = "delta"
        /\ events[i].kind = "final" => n = "done" /\ Len(events) = k + 1
        /\ events[i].kind = "error" => n = "failed"

(* and all of them, as long as the query runs. *)
AllTold(events, q, n, k) == Told(events, q, n, k) /\ (n \notin Ended => Len(events) = k)

Fine(events, q) == Told(events, q, node[q], Pushed(q))
Complete(events, q) == AllTold(events, q, node[q], Pushed(q))

(* A client that has not come yet finds the stream of its query, if there  *)
(* is one; one that reads it has what was pushed, or in memory what was    *)
(* pushed until an earlier client took the session's stream away. *)
StreamInv(q) ==
    /\ Fine(received[q], q)
    /\ reader[q].state = "none" =>
        /\ received[q] = <<>>
        /\ node[q] # "none" =>
            IF current = 0 THEN backend = "memory" ELSE Complete(streams[current], q)
    /\ reader[q].state = "reading" =>
        /\ \A i \in DOMAIN received[q] : received[q][i].kind = "delta"
        /\ reader[q].stream # 0
        /\ current \in {0, reader[q].stream}
        /\ backend = "memory" =>
            /\ reader[q].position = 0
            /\ Fine(received[q] \o streams[reader[q].stream], q)
            /\ current # 0 => Complete(received[q] \o streams[current], q)
        /\ backend = "redis" =>
            /\ current # 0
            /\ reader[q].position <= Len(streams[current])
            /\ received[q] = SubSeq(streams[current], 1, reader[q].position)
            /\ Complete(streams[current], q)

(* The response to a query, and the results it is taken from. *)
ResponseInv(q) ==
    /\ Stream(q) => response[q] = IF node[q] = "none" THEN "none" ELSE "accepted"
    /\ ~Stream(q) => response[q] # "accepted" /\ reader[q] = NoReader /\ received[q] = <<>>
    /\ node[q] = "none" => reader[q] = NoReader /\ response[q] = "none"
    /\ response[q] \notin {"none", "accepted"} => node[q] \in Ended
    /\ response[q] \in Queries => response[q] = q /\ node[q] = "done"
    /\ response[q] = "error" => result.error # NoQuery
    /\ node[q] = "failed" => result.error # NoQuery
    /\ ~Stream(q) /\ response[q] = "none" /\ node[q] \in {"final", "done"} => result.answer = q

ErrorInv == result.error # NoQuery => node[result.error] = "failed"

OneActive == \A p, q \in Queries : Active(p) /\ Active(q) => p = q

EndsOnce == \A q \in Queries : EndedForClient(q) => node[q] \in Ended

(* With a client that waits, one query at a time is not over. *)
PatientInv ==
    /\ ErrorInv /\ OneActive /\ EndsOnce
    /\ \A q \in Queries : ResponseInv(q)
    /\ \A q \in streamed : StreamInv(q)
============================================================================
