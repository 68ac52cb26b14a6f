---------------------------- MODULE QuerySessions ----------------------------
(***************************************************************************)
(* What the queries of one chat session share: the result and the status   *)
(* of the task store, which has the session as its key, and the stream of  *)
(* events, with the clients that read it.  A worker of the query service   *)
(* keeps both in memory, or several share them in Redis.                   *)
(*                                                                         *)
(* Progress events are left out: they are a display.                       *)
(***************************************************************************)
EXTENDS Integers, Sequences

CONSTANTS
    Queries          \* the queries of the session

ASSUME QueriesAssumption == Queries \cap {"none", "accepted", "error"} = {}

VARIABLES
    backend,         \* task_backend: "memory" or "redis"
    result,          \* the results of the session: who wrote answer and error
    streams,         \* the events of every stream that was created
    current,         \* the stream the session has now, 0 if none
    reader,          \* per streamed query: its client and the stream it reads
    received,        \* per streamed query: the events its client got
    response         \* per query: what the POST was answered

sessions == <<backend, result, streams, current, reader, received, response>>

NoQuery == "none"
NoReader == [state |-> "none", stream |-> 0, position |-> 0]
Terminal == {"final", "error"}
Event(kind, q) == [kind |-> kind, of |-> q]

SessionsInit ==
    /\ backend \in {"memory", "redis"}
    /\ result = [answer |-> NoQuery, error |-> NoQuery]
    /\ streams = <<>>
    /\ current = 0
    /\ reader = [q \in Queries |-> NoReader]
    /\ received = [q \in Queries |-> <<>>]
    /\ response = [q \in Queries |-> "none"]

\* mutant: the events of the stream before are kept
CreateStreamKept ==
    /\ streams' = IF current = 0 THEN Append(streams, <<>>)
                  ELSE Append(streams, streams[current])
    /\ current' = Len(streams) + 1

(* create_sse_queue: a new stream in the place of the one before. *)
CreateStream ==
    /\ streams' = Append(streams, <<>>)
    /\ current' = Len(streams) + 1

(* push_to_session: to the stream the session has; lost if it has none. *)
Push(event) ==
    streams' = IF current = 0 THEN streams ELSE [streams EXCEPT ![current] = Append(@, event)]

(* GET /stream: in memory the client holds on to the stream it finds. *)
Connect(q) ==
    /\ response[q] = "accepted"
    /\ reader[q].state = "none"
    /\ reader' = [reader EXCEPT ![q] =
            [state |-> IF backend = "memory" /\ current = 0 THEN "closing" ELSE "reading",
             stream |-> current, position |-> 0]]
    /\ UNCHANGED <<backend, result, streams, current, received, response>>

(* The stream a client reads: in Redis always the one under the key, from  *)
(* its beginning when it is another one than before.                       *)
Reads(q) == IF backend = "memory" THEN reader[q].stream ELSE current
Position(q) == IF Reads(q) = reader[q].stream THEN reader[q].position ELSE 0

(* sse_generator: the next event, which is gone from a queue in memory. *)
Read(q) ==
    /\ reader[q].state = "reading"
    /\ Position(q) < Len(streams[Reads(q)])
    /\ LET event == streams[Reads(q)][Position(q) + 1]
       IN  /\ received' = [received EXCEPT ![q] = Append(@, event)]
           /\ streams' = IF backend = "memory" THEN [streams EXCEPT ![Reads(q)] = Tail(@)]
                         ELSE streams
           /\ reader' = [reader EXCEPT ![q] =
                [state |-> IF event.kind \in Terminal THEN "closing" ELSE "reading",
                 stream |-> Reads(q),
                 position |-> IF backend = "memory" THEN 0 ELSE Position(q) + 1]]
    /\ UNCHANGED <<backend, result, current, response>>

(* The client goes away; the generator notices with the next event, which  *)
(* it drops, or with the next heartbeat.                                   *)
Disconnect(q) ==
    /\ reader[q].state = "reading"
    /\ reader' = [reader EXCEPT ![q].state = "closing"]
    /\ UNCHANGED <<backend, result, streams, current, received, response>>

(* remove_sse_queue, when the generator ends: the session has no stream    *)
(* then, be it the one that was read or a newer one.                       *)
Close(q) ==
    /\ reader[q].state = "closing"
    /\ reader' = [reader EXCEPT ![q].state = "ended"]
    /\ current' = IF backend = "memory" THEN 0 ELSE current
    /\ UNCHANGED <<backend, result, streams, received, response>>

(* The answer to a POST that is not streamed: the error of the session, if *)
(* it has one, or else the results.                                        *)
Respond(q) ==
    response' = [response EXCEPT ![q] =
                    IF result.error # NoQuery THEN "error" ELSE result.answer]
============================================================================
