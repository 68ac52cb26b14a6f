------------------------- MODULE QueryServiceProofs --------------------------
(***************************************************************************)
(* Proofs about the query service: the queries of one chat session, any    *)
(* number of them, with any number of parts and of faults, in memory and   *)
(* in Redis; and the gateway through which they call the models.           *)
(***************************************************************************)
EXTENDS QueryWorkflowProperties, ModelGateway, FiniteSetTheorems, TLAPS

(***************************************************************************)
(* Sequences of events.                                                    *)
(***************************************************************************)

LEMMA AppendOne ==
    ASSUME NEW S, NEW s \in Seq(S), NEW e \in S
    PROVE  /\ Append(s, e) \in Seq(S)
           /\ Len(Append(s, e)) = Len(s) + 1
           /\ Append(s, e)[Len(s) + 1] = e
           /\ \A i \in 1 .. Len(s) : Append(s, e)[i] = s[i]
           /\ DOMAIN Append(s, e) = 1 .. Len(s) + 1
           /\ DOMAIN s = 1 .. Len(s)
           /\ Len(s) \in Nat
OBVIOUS

LEMMA AppendBehind ==
    ASSUME NEW r \in Seq(Events), NEW s \in Seq(Events), NEW e \in Events
    PROVE  r \o Append(s, e) = Append(r \o s, e)
OBVIOUS

LEMMA HeadOver ==
    ASSUME NEW r \in Seq(Events), NEW s \in Seq(Events), Len(s) > 0
    PROVE  /\ s[1] \in Events /\ Tail(s) \in Seq(Events)
           /\ Append(r, s[1]) \o Tail(s) = r \o s
<1> DEFINE a == Append(r, s[1]) \o Tail(s)
           b == r \o s
<1>1. s[1] \in Events /\ Tail(s) \in Seq(Events) /\ Len(Tail(s)) = Len(s) - 1
  OBVIOUS
<1>2. \A i \in 1 .. Len(s) - 1 : Tail(s)[i] = s[i + 1]
  OBVIOUS
<1>3. Append(r, s[1]) \in Seq(Events) /\ Len(Append(r, s[1])) = Len(r) + 1
  BY <1>1
<1>4. a \in Seq(Events) /\ b \in Seq(Events) /\ Len(a) = Len(b) /\ Len(b) = Len(r) + Len(s)
  BY <1>1, <1>3
<1>5. ASSUME NEW i \in 1 .. Len(b) PROVE a[i] = b[i]
  <2>1. CASE i <= Len(r) + 1
    BY <1>1, <1>3, <1>4, <2>1
  <2>2. CASE i > Len(r) + 1
    BY <1>1, <1>2, <1>3, <1>4, <2>2
  <2> QED
    BY <1>4, <2>1, <2>2
<1>6. a = b
  <2> HIDE DEF a, b
  <2> QED
    BY <1>4, <1>5
<1> QED
  BY <1>1, <1>6

LEMMA OneMoreRead ==
    ASSUME NEW s \in Seq(Events), NEW n \in Nat, n < Len(s)
    PROVE  /\ s[n + 1] \in Events
           /\ Append(SubSeq(s, 1, n), s[n + 1]) = SubSeq(s, 1, n + 1)
OBVIOUS

LEMMA PrefixStays ==
    ASSUME NEW S, NEW s \in Seq(S), NEW e \in S, NEW n \in Nat, n <= Len(s)
    PROVE  SubSeq(Append(s, e), 1, n) = SubSeq(s, 1, n)
OBVIOUS

(***************************************************************************)
(* The types.                                                              *)
(***************************************************************************)

SessionsType ==
    /\ backend \in {"memory", "redis"}
    /\ result \in [answer : Queries \cup {NoQuery}, error : Queries \cup {NoQuery}]
    /\ streams \in Seq(Seq(Events))
    /\ current \in 0 .. Len(streams)
    /\ reader \in [Queries -> [state : {"none", "reading", "closing", "ended"},
                               stream : 0 .. Len(streams), position : Nat]]
    /\ received \in [Queries -> Seq(Events)]
    /\ response \in [Queries -> {"none", "accepted", "error"} \cup Queries]

GraphType ==
    /\ node \in [Queries -> Nodes]
    /\ found \in [Queries -> BOOLEAN]
    /\ answer \in [Queries -> [text : Texts, cited : BOOLEAN]]
    /\ parts \in [Queries -> 0 .. MaxChunks]

HistoryType ==
    /\ chat \in BOOLEAN
    /\ messages \in Seq(Messages)
    /\ cleared \subseteq Queries

LEMMA Types ==
    TypeOK <=> /\ SessionsType /\ GraphType /\ HistoryType
               /\ streamed \subseteq Queries /\ faults \in 0 .. MaxFaults
BY DEF TypeOK, SessionsType, GraphType, HistoryType

LEMMA EventTypes == \A k \in {"delta", "final", "error"}, q \in Queries : Event(k, q) \in Events
BY DEF Event, Events

LEMMA PushEffect ==
    ASSUME SessionsType, NEW e \in Events, Push(e)
    PROVE  /\ streams' \in Seq(Seq(Events)) /\ Len(streams') = Len(streams)
           /\ current # 0 => streams'[current] = Append(streams[current], e)
           /\ \A k \in 1 .. Len(streams) : k # current => streams'[k] = streams[k]
<1>1. CASE current = 0
  BY <1>1 DEF SessionsType, Push
<1>2. CASE current # 0
  <2>1. current \in 1 .. Len(streams) /\ streams[current] \in Seq(Events)
    BY <1>2 DEF SessionsType
  <2>2. Append(streams[current], e) \in Seq(Events)
    BY <2>1
  <2> QED
    BY <1>2, <2>1, <2>2 DEF SessionsType, Push
<1> QED
  BY <1>1, <1>2

LEMMA FailEffect ==
    ASSUME SessionsType, GraphType, NEW q \in Queries, FailRun(q)
    PROVE  /\ SessionsType'
           /\ result'.error = q /\ result'.answer = result.answer
           /\ node' = [node EXCEPT ![q] = "failed"]
           /\ UNCHANGED <<backend, current, reader, received, response>>
           /\ Len(streams') = Len(streams)
           /\ Stream(q) => Push(Event("error", q))
           /\ ~Stream(q) => UNCHANGED streams
<1>1. Event("error", q) \in Events
  BY EventTypes
<1>2. streams' \in Seq(Seq(Events)) /\ Len(streams') = Len(streams)
  BY <1>1, PushEffect DEF FailRun, SessionsType
<1>3. result' \in [answer : Queries \cup {NoQuery}, error : Queries \cup {NoQuery}]
  BY DEF FailRun, SessionsType
<1> QED
  BY <1>2, <1>3 DEF FailRun, SessionsType, Goto

LEMMA SaveEffect ==
    ASSUME TypeOK, NEW q \in Queries, NEW role \in {"user", "assistant"}, SaveMessage(q, role)
    PROVE  /\ HistoryType'
           /\ cleared' = cleared
           /\ \/ role = "user" /\ Has(q, role) /\ messages' = messages
              \/ /\ role = "assistant" \/ ~Has(q, role)
                 /\ messages' = Append(messages, Message(q, role, answer[q]))
                 /\ Message(q, role, answer[q]) \in Messages
<1>1. Message(q, role, answer[q]) \in Messages
  BY DEF Message, Messages, TypeOK
<1>2. Append(messages, Message(q, role, answer[q])) \in Seq(Messages)
  BY <1>1 DEF TypeOK
<1> QED
  BY <1>1, <1>2 DEF SaveMessage, HistoryType, TypeOK

Readers(n) ==
    [state : {"none", "reading", "closing", "ended"}, stream : 0 .. n, position : Nat]

LEMMA TypesNext ==
    SessionsType' /\ GraphType' /\ HistoryType' /\ streamed' \subseteq Queries
    /\ faults' \in 0 .. MaxFaults => TypeOK'
BY DEF TypeOK, SessionsType, GraphType, HistoryType

LEMMA MoreStreams ==
    ASSUME NEW n \in Nat, NEW f \in [Queries -> Readers(n)]
    PROVE  f \in [Queries -> Readers(n + 1)]
<1>1. \A q \in Queries : f[q] \in Readers(n + 1)
  BY DEF Readers
<1> QED
  BY <1>1

LEMMA OneReader ==
    ASSUME NEW n \in Nat, NEW f \in [Queries -> Readers(n)], NEW q \in Queries,
           NEW s \in {"none", "reading", "closing", "ended"},
           NEW k \in 0 .. n, NEW i \in Nat
    PROVE  [f EXCEPT ![q] = [state |-> s, stream |-> k, position |-> i]]
                \in [Queries -> Readers(n)]
<1>1. [state |-> s, stream |-> k, position |-> i] \in Readers(n)
  BY DEF Readers
<1> QED
  BY <1>1

LEMMA OneState ==
    ASSUME NEW n \in Nat, NEW f \in [Queries -> Readers(n)], NEW q \in Queries,
           NEW s \in {"none", "reading", "closing", "ended"}
    PROVE  [f EXCEPT ![q].state = s] \in [Queries -> Readers(n)]
<1>1. [f[q] EXCEPT !.state = s] \in Readers(n)
  BY DEF Readers
<1> QED
  BY <1>1

LEMMA ReaderType == SessionsType => reader \in [Queries -> Readers(Len(streams))] /\ Len(streams) \in Nat
BY DEF SessionsType, Readers

ByClient(q) == Post(q) \/ OpenStream(q) \/ Serve(q) \/ LeaveStream(q)

LEMMA Steps ==
    Next <=> /\ (\E q \in Queries : ByClient(q) \/ Run(q)) \/ ClearHistory
             /\ UNCHANGED streamed
BY DEF Next, ByClient

(* What Read reads. *)
LEMMA ReadEffect ==
    ASSUME SessionsType, ReaderInv, NEW q \in Queries, Read(q)
    PROVE  /\ Reads(q) \in 1 .. Len(streams)
           /\ Position(q) \in 0 .. Len(streams[Reads(q)]) - 1
           /\ streams[Reads(q)] \in Seq(Events)
           /\ streams[Reads(q)][Position(q) + 1] \in Events
           /\ streams' \in Seq(Seq(Events)) /\ Len(streams') = Len(streams)
<1>1. reader[q] \in Readers(Len(streams)) /\ Len(streams) \in Nat
  BY ReaderType
<1>2. Reads(q) \in 1 .. Len(streams) /\ Position(q) \in Nat
  <2>1. reader[q].state = "reading" /\ reader[q].stream \in 0 .. Len(streams)
        /\ reader[q].position \in Nat
    BY <1>1 DEF Read, Readers
  <2>2. reader[q].stream # 0 /\ (backend = "redis" => current # 0)
    BY <2>1 DEF ReaderInv
  <2>3. backend \in {"memory", "redis"} /\ current \in 0 .. Len(streams)
    BY DEF SessionsType
  <2>4. Reads(q) \in {reader[q].stream, current}
        /\ (backend # "redis" => Reads(q) = reader[q].stream)
    BY <2>3 DEF Reads
  <2>5. Position(q) \in {reader[q].position, 0}
    BY DEF Position
  <2> QED
    BY <1>1, <2>1, <2>2, <2>3, <2>4, <2>5
<1>3. streams[Reads(q)] \in Seq(Events)
  BY <1>2 DEF SessionsType
<1>4. Position(q) < Len(streams[Reads(q)])
  BY DEF Read
<1>5. streams[Reads(q)][Position(q) + 1] \in Events
  BY <1>2, <1>3, <1>4
<1>6. Tail(streams[Reads(q)]) \in Seq(Events)
  BY <1>2, <1>3, <1>4
<1>7. [streams EXCEPT ![Reads(q)] = Tail(@)] \in Seq(Seq(Events))
      /\ Len([streams EXCEPT ![Reads(q)] = Tail(@)]) = Len(streams)
  BY <1>2, <1>6 DEF SessionsType
<1>8. streams' = streams \/ streams' = [streams EXCEPT ![Reads(q)] = Tail(@)]
  BY DEF Read
<1>9. streams' \in Seq(Seq(Events)) /\ Len(streams') = Len(streams)
  BY <1>7, <1>8 DEF SessionsType
<1>10. Position(q) \in 0 .. Len(streams[Reads(q)]) - 1
  BY <1>2, <1>3, <1>4
<1> QED
  BY <1>2, <1>3, <1>5, <1>9, <1>10

LEMMA ClientKeepsTypes ==
    ASSUME TypeOK, ReaderInv, NEW q \in Queries, ByClient(q), UNCHANGED streamed PROVE TypeOK'
<1> USE WorkflowAssumption, Types DEF graph, history
<1> DEFINE n == Len(streams)
<1>0. reader \in [Queries -> Readers(n)] /\ n \in Nat
  BY ReaderType
<1>1. CASE Post(q)
  <2>1. GraphType' /\ HistoryType' /\ faults' = faults
    BY <1>1 DEF Post, GraphType, HistoryType, Goto, Nodes
  <2>2. /\ streams' \in Seq(Seq(Events)) /\ current' \in 0 .. Len(streams')
        /\ Len(streams') \in {n, n + 1}
    <3>1. streams \in Seq(Seq(Events)) /\ current \in 0 .. n
      BY DEF SessionsType
    <3>2. CASE Stream(q)
      <4>1. streams' = Append(streams, <<>>) /\ current' = n + 1
        BY <1>1, <3>2 DEF Post, CreateStream
      <4>2. <<>> \in Seq(Events)
        OBVIOUS
      <4> QED
        BY <3>1, <4>1, <4>2
    <3>3. CASE ~Stream(q)
      BY <1>1, <3>1, <3>3 DEF Post
    <3> QED
      BY <3>2, <3>3
  <2>3. reader' \in [Queries -> Readers(Len(streams'))]
    BY <1>0, <1>1, <2>2, MoreStreams DEF Post
  <2>4. SessionsType'
    BY <1>1, <2>2, <2>3 DEF Post, SessionsType, Readers
  <2> QED
    BY <2>1, <2>4, TypesNext
<1>2. CASE OpenStream(q)
  <2>1. UNCHANGED <<backend, result, streams, current, received, response>>
    BY <1>2 DEF OpenStream, Connect
  <2>2. current \in 0 .. n
    BY DEF SessionsType
  <2>3. reader' \in [Queries -> Readers(n)]
    <3>1. CASE Connect(q)
      BY <1>0, <2>2, <3>1, OneReader DEF Connect
    <3>2. CASE reader' = [reader EXCEPT ![q].state = "ended"]
      BY <1>0, <3>2, OneState
    <3> QED
      BY <1>2, <3>1, <3>2 DEF OpenStream
  <2>4. SessionsType'
    BY <2>1, <2>3 DEF SessionsType, Readers
  <2> QED
    BY <1>2, <2>4, TypesNext DEF OpenStream, GraphType, HistoryType
<1>3. CASE Serve(q)
  <2>0. UNCHANGED <<graph, history, faults>>
    BY <1>3 DEF Serve
  <2>1. CASE Close(q)
    <3>1. reader' \in [Queries -> Readers(n)]
      <4>1. reader' = [reader EXCEPT ![q].state = "ended"]
        BY <2>1 DEF Close
      <4>2. [reader EXCEPT ![q].state = "ended"] \in [Queries -> Readers(n)]
        <5> HIDE DEF n
        <5> QED
          BY <1>0, OneState
      <4> QED
        BY <4>1, <4>2
    <3>2. UNCHANGED <<backend, result, streams, received, response>> /\ current' \in 0 .. n
      BY <2>1 DEF Close, SessionsType
    <3>3. SessionsType'
      BY <3>1, <3>2 DEF SessionsType, Readers
    <3> QED
      BY <2>0, <3>3, TypesNext DEF GraphType, HistoryType
  <2>2. CASE Read(q)
    <3> DEFINE k == Reads(q)
               e == streams[k][Position(q) + 1]
    <3>1. /\ k \in 1 .. n /\ e \in Events /\ Position(q) \in Nat
          /\ streams' \in Seq(Seq(Events)) /\ Len(streams') = n
      BY <2>2, ReadEffect
    <3>2. received' = [received EXCEPT ![q] = Append(@, e)]
      BY <2>2 DEF Read
    <3>3. \E s \in {"closing", "reading"}, i \in Nat :
            reader' = [reader EXCEPT ![q] = [state |-> s, stream |-> k, position |-> i]]
      <4> DEFINE s == IF e.kind \in Terminal THEN "closing" ELSE "reading"
                 i == IF backend = "memory" THEN 0 ELSE Position(q) + 1
      <4>1. reader' = [reader EXCEPT ![q] = [state |-> s, stream |-> k, position |-> i]]
        BY <2>2 DEF Read
      <4>2. s \in {"closing", "reading"} /\ i \in Nat
        BY <3>1
      <4> HIDE DEF s, i
      <4> QED
        BY <4>1, <4>2
    <3> HIDE DEF k, e
    <3>4. received' \in [Queries -> Seq(Events)]
      BY <3>1, <3>2 DEF SessionsType
    <3>5. reader' \in [Queries -> Readers(n)]
      <4>1. PICK s \in {"closing", "reading"}, i \in Nat :
                reader' = [reader EXCEPT ![q] = [state |-> s, stream |-> k, position |-> i]]
        BY <3>3
      <4>2. s \in {"none", "reading", "closing", "ended"} /\ k \in 0 .. n
        BY <1>0, <3>1
      <4> QED
        BY <1>0, <4>1, <4>2, OneReader
    <3>6. SessionsType'
      BY <2>2, <3>1, <3>4, <3>5 DEF Read, SessionsType, Readers
    <3> QED
      BY <2>0, <3>6, TypesNext DEF GraphType, HistoryType
  <2> QED
    BY <1>3, <2>1, <2>2 DEF Serve
<1>4. CASE LeaveStream(q)
  <2>1. reader' \in [Queries -> Readers(n)]
    BY <1>0, <1>4, OneState DEF LeaveStream, Disconnect
  <2>2. SessionsType'
    BY <1>4, <2>1 DEF LeaveStream, Disconnect, SessionsType, Readers
  <2> QED
    BY <1>4, <2>2, TypesNext DEF LeaveStream, GraphType, HistoryType
<1> QED
  BY <1>1, <1>2, <1>3, <1>4 DEF ByClient

(* The records of the other queries are not touched by the run of one. *)
Others(q) ==
    \A p \in Queries \ {q} :
        /\ node'[p] = node[p] /\ found'[p] = found[p] /\ answer'[p] = answer[p]
        /\ parts'[p] = parts[p] /\ response'[p] = response[p]

RunFrame(q) ==
    /\ SessionsType' /\ GraphType' /\ HistoryType' /\ faults' \in 0 .. MaxFaults
    /\ UNCHANGED <<backend, current, reader, received, cleared>>
    /\ Len(streams') = Len(streams)
    /\ Others(q)

LEMMA FaultEffect ==
    ASSUME TypeOK, NEW f, Fault(f) PROVE faults' \in 0 .. MaxFaults /\ faults' = faults + 1
BY WorkflowAssumption DEF Fault, TypeOK

LEMMA WriteFrame ==
    ASSUME TypeOK, NEW q \in Queries, NEW role \in {"user", "assistant"}, NEW n \in Nodes,
           Write(q, role, n), UNCHANGED <<parts, found, answer>>
    PROVE  RunFrame(q)
<1> USE Types
<1>1. CASE SaveMessage(q, role) /\ Goto(q, n) /\ UNCHANGED <<sessions, faults>>
  <2>1. SessionsType'
    BY <1>1 DEF sessions, SessionsType
  <2>2. GraphType'
    BY <1>1 DEF Goto, GraphType
  <2>3. HistoryType' /\ cleared' = cleared
    BY <1>1, SaveEffect
  <2> QED
    BY <1>1, <2>1, <2>2, <2>3 DEF RunFrame, Others, Goto, sessions, GraphType
<1>2. CASE Fault("history") /\ FailRun(q) /\ UNCHANGED history
  <2>1. /\ SessionsType' /\ node' = [node EXCEPT ![q] = "failed"]
        /\ UNCHANGED <<backend, current, reader, received, response>>
        /\ Len(streams') = Len(streams)
    BY <1>2, FailEffect
  <2>2. GraphType'
    BY <2>1 DEF GraphType, Nodes
  <2>3. HistoryType' /\ cleared' = cleared
    BY <1>2 DEF history, HistoryType
  <2>4. faults' \in 0 .. MaxFaults
    BY <1>2, FaultEffect
  <2> QED
    BY <2>1, <2>2, <2>3, <2>4 DEF RunFrame, Others, GraphType
<1> QED
  BY <1>1, <1>2 DEF Write

LEMMA PushFrame ==
    ASSUME TypeOK, NEW e \in Events, Push(e) \/ UNCHANGED streams,
           UNCHANGED <<backend, current, reader, received, response, result>>
    PROVE  SessionsType' /\ Len(streams') = Len(streams)
<1> USE Types
<1>1. streams' \in Seq(Seq(Events)) /\ Len(streams') = Len(streams)
  BY PushEffect DEF SessionsType
<1> QED
  BY <1>1 DEF SessionsType

LEMMA RunKeepsFrame ==
    ASSUME TypeOK, NEW q \in Queries, Run(q) PROVE RunFrame(q)
<1> USE Types
<1>0. /\ \A n \in Nodes : Goto(q, n) => /\ node' \in [Queries -> Nodes]
                                        /\ \A p \in Queries \ {q} : node'[p] = node[p]
      /\ UNCHANGED sessions => SessionsType' /\ Len(streams') = Len(streams)
      /\ UNCHANGED history => HistoryType' /\ cleared' = cleared
  <2>1. \A n \in Nodes : Goto(q, n) => /\ node' \in [Queries -> Nodes]
                                      /\ \A p \in Queries \ {q} : node'[p] = node[p]
    BY DEF Goto, GraphType
  <2>2. UNCHANGED sessions => SessionsType' /\ Len(streams') = Len(streams)
    BY DEF sessions, SessionsType
  <2>3. UNCHANGED history => HistoryType' /\ cleared' = cleared
    BY DEF history, HistoryType
  <2> QED
    BY <2>1, <2>2, <2>3
<1>1. CASE SaveQuestion(q)
  BY <1>1, WriteFrame DEF SaveQuestion, Nodes
<1>2. CASE AlignNames(q)
  <2>1. CASE Goto(q, "update_question") /\ UNCHANGED <<sessions, answer, faults>>
    BY <1>0, <1>2, <2>1 DEF AlignNames, RunFrame, Others, GraphType, Nodes, sessions
  <2>2. CASE /\ answer' = [answer EXCEPT ![q].text = Preset]
             /\ Goto(q, "save_reply") /\ UNCHANGED <<sessions, faults>>
    <3>1. [answer[q] EXCEPT !.text = Preset] \in [text : Texts, cited : BOOLEAN]
      BY DEF GraphType, Texts
    <3>2. answer' \in [Queries -> [text : Texts, cited : BOOLEAN]]
      BY <2>2, <3>1 DEF GraphType
    <3> QED
      BY <1>0, <1>2, <2>2, <3>2 DEF AlignNames, RunFrame, Others, GraphType, Nodes, sessions
  <2>3. CASE Fault("embedding") /\ FailRun(q) /\ UNCHANGED answer
    BY <1>0, <1>2, <2>3, FailEffect, FaultEffect
       DEF AlignNames, RunFrame, Others, GraphType, Nodes
  <2> QED
    BY <1>2, <2>1, <2>2, <2>3 DEF AlignNames
<1>3. CASE SaveReply(q)
  BY <1>3, WriteFrame DEF SaveReply, Nodes
<1>4. CASE UpdateQuestion(q)
  BY <1>4, WriteFrame DEF UpdateQuestion, Nodes
<1>5. CASE MultiSearch(q)
  <2>1. found' \in [Queries -> BOOLEAN] /\ \A p \in Queries \ {q} : found'[p] = found[p]
    BY <1>5 DEF MultiSearch, GraphType
  <2> QED
    BY <1>0, <1>5, <2>1 DEF MultiSearch, RunFrame, Others, GraphType, Nodes, sessions
<1>6. CASE PrepareEvidence(q)
  <2>1. SessionsType' /\ Len(streams') = Len(streams)
    <3>1. UNCHANGED <<backend, current, reader, received, response, result>>
      BY <1>6 DEF PrepareEvidence
    <3>2. Push(Event("delta", q)) \/ UNCHANGED streams
      BY <1>6 DEF PrepareEvidence, PublishExisting
    <3>3. Event("delta", q) \in Events
      BY EventTypes
    <3> QED
      BY <3>1, <3>2, <3>3, PushFrame
  <2>2. \E n \in Nodes : Goto(q, n)
    BY <1>6 DEF PrepareEvidence, Nodes
  <2>3. /\ answer' \in [Queries -> [text : Texts, cited : BOOLEAN]]
        /\ \A p \in Queries \ {q} : answer'[p] = answer[p]
    <3>1. /\ [answer[q] EXCEPT !.text = "no_evidence"] \in [text : Texts, cited : BOOLEAN]
          /\ [answer[q] EXCEPT !.cited = TRUE] \in [text : Texts, cited : BOOLEAN]
      BY DEF GraphType, Texts
    <3>2. \/ UNCHANGED answer
          \/ answer' = [answer EXCEPT ![q].text = "no_evidence"]
          \/ answer' = [answer EXCEPT ![q].cited = TRUE]
      BY <1>6 DEF PrepareEvidence
    <3> QED
      BY <3>1, <3>2 DEF GraphType
  <2>4. UNCHANGED <<parts, found, history, faults, backend, current, reader, received, response>>
    BY <1>6 DEF PrepareEvidence
  <2> QED
    BY <1>0, <2>1, <2>2, <2>3, <2>4 DEF RunFrame, Others, GraphType
<1>7. CASE Emit(q)
  <2>1. SessionsType' /\ Len(streams') = Len(streams)
    <3>1. Event("delta", q) \in Events
      BY EventTypes
    <3> QED
      BY <1>7, <3>1, PushFrame DEF Emit
  <2>2. parts' \in [Queries -> 0 .. MaxChunks] /\ \A p \in Queries \ {q} : parts'[p] = parts[p]
    BY <1>7, WorkflowAssumption DEF Emit, GraphType
  <2> QED
    BY <1>0, <1>7, <2>1, <2>2 DEF Emit, RunFrame, Others, GraphType
<1>8. CASE Generate(q)
  <2>1. CASE /\ \E text \in {"generated", "withheld"} :
                    answer' = [answer EXCEPT ![q] = Secured(q, text)]
             /\ Goto(q, "write_history") /\ UNCHANGED sessions
    <3>1. \A text \in {"generated", "withheld"} :
            Secured(q, text) \in [text : Texts, cited : BOOLEAN]
      BY DEF Secured, GraphType, Texts
    <3>2. /\ answer' \in [Queries -> [text : Texts, cited : BOOLEAN]]
          /\ \A p \in Queries \ {q} : answer'[p] = answer[p]
      BY <2>1, <3>1 DEF GraphType
    <3> QED
      BY <1>0, <1>8, <2>1, <3>2 DEF Generate, RunFrame, Others, GraphType, Nodes, sessions
  <2>2. CASE FailRun(q) /\ UNCHANGED answer
    BY <1>0, <1>8, <2>2, FailEffect DEF Generate, RunFrame, Others, GraphType, Nodes
  <2> QED
    BY <1>8, <2>1, <2>2 DEF Generate
<1>9. CASE WriteHistory(q)
  <2>1. HistoryType' /\ cleared' = cleared
    BY <1>0, <1>9, SaveEffect DEF WriteHistory
  <2>2. faults' \in 0 .. MaxFaults
    BY <1>9, FaultEffect DEF WriteHistory, TypeOK
  <2> QED
    BY <1>0, <1>9, <2>1, <2>2 DEF WriteHistory, RunFrame, Others, GraphType, Nodes, sessions
<1>10. CASE PersistResult(q)
  <2>1. result' \in [answer : Queries \cup {NoQuery}, error : Queries \cup {NoQuery}]
    BY <1>10 DEF PersistResult, SessionsType
  <2>2. SessionsType'
    BY <1>10, <2>1 DEF PersistResult, SessionsType
  <2> QED
    BY <1>0, <1>10, <2>2 DEF PersistResult, RunFrame, Others, GraphType, Nodes
<1>11. CASE Finish(q)
  <2>1. SessionsType' /\ Len(streams') = Len(streams)
    <3>1. Event("final", q) \in Events
      BY EventTypes
    <3>2. UNCHANGED <<backend, current, reader, received, response, result>>
          /\ (Push(Event("final", q)) \/ UNCHANGED streams)
      BY <1>11 DEF Finish
    <3> QED
      BY <3>1, <3>2, PushFrame
  <2> QED
    BY <1>0, <1>11, <2>1 DEF Finish, RunFrame, Others, GraphType, Nodes
<1>12. CASE Answer(q)
  <2>1. /\ response' \in [Queries -> {"none", "accepted", "error"} \cup Queries]
        /\ \A p \in Queries \ {q} : response'[p] = response[p]
    BY <1>12 DEF Answer, Respond, SessionsType, NoQuery
  <2>2. SessionsType' /\ Len(streams') = Len(streams)
    BY <1>12, <2>1 DEF Answer, SessionsType
  <2> QED
    BY <1>0, <1>12, <2>1, <2>2 DEF Answer, RunFrame, Others, GraphType, graph
<1> QED
  BY <1>1, <1>2, <1>3, <1>4, <1>5, <1>6, <1>7, <1>8, <1>9, <1>10, <1>11, <1>12 DEF Run

LEMMA ClearFrame ==
    ASSUME TypeOK, ClearHistory
    PROVE  SessionsType' /\ GraphType' /\ HistoryType' /\ UNCHANGED <<sessions, graph, faults>>
<1> USE Types
<1>1. UNCHANGED <<sessions, graph, faults>>
  BY DEF ClearHistory
<1>2. chat' = FALSE /\ messages' = <<>> /\ cleared' \subseteq Queries
  BY DEF ClearHistory
<1>3. HistoryType'
  <2>1. <<>> \in Seq(Messages)
    OBVIOUS
  <2> QED
    BY <1>2, <2>1 DEF HistoryType
<1> QED
  BY <1>1, <1>3 DEF sessions, graph, SessionsType, GraphType

(* Only the answer to a query that is not streamed changes its response. *)
LEMMA RunResponse ==
    ASSUME TypeOK, NEW q \in Queries, Run(q)
    PROVE  \/ UNCHANGED response
           \/ /\ Answer(q) /\ response[q] = "none" /\ ~Stream(q) /\ node[q] \in Ended
              /\ response'[q] = IF result.error # NoQuery THEN "error" ELSE result.answer
              /\ response'[q] # "accepted"
<1>1. CASE Answer(q)
  BY <1>1, QueriesAssumption DEF Answer, Respond, TypeOK, NoQuery
<1>2. CASE ~Answer(q)
  BY <1>2 DEF Run, SaveQuestion, AlignNames, SaveReply, UpdateQuestion, MultiSearch,
              PrepareEvidence, Emit, Generate, WriteHistory, PersistResult, Finish, Write,
              FailRun, sessions
<1> QED
  BY <1>1, <1>2

TypeInv == TypeOK /\ ReaderInv

LEMMA ReaderStep == ASSUME TypeInv, Next PROVE ReaderInv'
<1> USE DEF TypeInv
<1>1. ASSUME NEW q \in Queries, Run(q) PROVE ReaderInv'
  <2>1. UNCHANGED <<backend, current, reader>> /\ Others(q)
    BY <1>1, RunKeepsFrame DEF RunFrame
  <2>2. response'[q] = response[q] \/ (response[q] = "none" /\ response'[q] # "accepted")
    BY <1>1, RunResponse
  <2>3. \A p \in Queries : response'[p] = "accepted" <=> response[p] = "accepted"
    BY <2>1, <2>2 DEF Others
  <2> QED
    BY <2>1, <2>3 DEF ReaderInv
<1>2. ASSUME NEW q \in Queries, Post(q) PROVE ReaderInv'
  <2>1. Len(streams) \in Nat /\ DOMAIN response = Queries
    BY DEF TypeOK
  <2>2. CASE Stream(q)
    <3>1. current' # 0
      BY <1>2, <2>1, <2>2 DEF Post, CreateStream
    <3>2. UNCHANGED <<backend, reader>> /\ response' = [response EXCEPT ![q] = "accepted"]
      BY <1>2, <2>2 DEF Post
    <3>3. \A p \in Queries : response[p] = "accepted" => response'[p] = "accepted"
      BY <2>1, <3>2
    <3> QED
      BY <3>1, <3>2, <3>3 DEF ReaderInv
  <2>3. CASE ~Stream(q)
    <3>1. UNCHANGED <<backend, current, reader, response>>
      BY <1>2, <2>3 DEF Post
    <3> QED
      BY <3>1 DEF ReaderInv
  <2> QED
    BY <2>2, <2>3
<1>3. ASSUME NEW q \in Queries, OpenStream(q) PROVE ReaderInv'
  <2>1. response[q] = "accepted" /\ UNCHANGED <<backend, current, response>>
    BY <1>3 DEF OpenStream, Connect
  <2>2. \A p \in Queries \ {q} : reader'[p] = reader[p]
    BY <1>3 DEF OpenStream, Connect, TypeOK
  <2>3. reader'[q].state = "reading" => reader'[q].stream # 0
    <3>1. CASE Connect(q)
      BY <2>1, <3>1 DEF Connect, ReaderInv, TypeOK
    <3>2. CASE reader' = [reader EXCEPT ![q].state = "ended"]
      BY <3>2 DEF TypeOK
    <3> QED
      BY <1>3, <3>1, <3>2 DEF OpenStream
  <2> QED
    BY <2>1, <2>2, <2>3 DEF ReaderInv
<1>4. ASSUME NEW q \in Queries, Serve(q) \/ LeaveStream(q) PROVE ReaderInv'
  <2>1. /\ UNCHANGED <<backend, response>>
        /\ reader[q].state # "none" /\ (backend = "redis" => current' = current)
        /\ \A p \in Queries \ {q} : reader'[p] = reader[p]
    BY <1>4 DEF Serve, LeaveStream, Read, Close, Disconnect, TypeOK
  <2>2. reader'[q].state = "reading" => reader'[q].stream # 0
    <3>1. CASE Read(q)
      <4>1. Reads(q) # 0
        BY <3>1, ReadEffect, Types
      <4> QED
        BY <3>1, <4>1 DEF Read, TypeOK
    <3>2. CASE Close(q) \/ Disconnect(q)
      BY <3>2 DEF Close, Disconnect, TypeOK
    <3> QED
      BY <1>4, <3>1, <3>2 DEF Serve, LeaveStream
  <2> QED
    BY <2>1, <2>2 DEF ReaderInv
<1>5. ASSUME ClearHistory PROVE ReaderInv'
  BY <1>5 DEF ClearHistory, sessions, ReaderInv
<1> QED
  BY <1>1, <1>2, <1>3, <1>4, <1>5 DEF Next

LEMMA TypesHold == ASSUME Init PROVE TypeInv
<1>1. Len(streams) = 0 /\ streams \in Seq(Seq(Events)) /\ current = 0
  BY DEF Init, SessionsInit
<1>2. reader \in [Queries -> Readers(0)]
  BY DEF Init, SessionsInit, NoReader, Readers
<1>3. received \in [Queries -> Seq(Events)]
  BY DEF Init, SessionsInit
<1>4. SessionsType
  BY <1>1, <1>2, <1>3 DEF Init, SessionsInit, SessionsType, NoQuery, Readers
<1>5. GraphType
  BY WorkflowAssumption DEF Init, GraphType, NoAnswer, Nodes, Texts
<1>6. HistoryType
  <2>1. <<>> \in Seq(Messages)
    OBVIOUS
  <2> QED
    BY <2>1 DEF Init, HistoryType
<1>7. ReaderInv
  BY DEF Init, SessionsInit, NoReader, ReaderInv
<1> QED
  BY <1>4, <1>5, <1>6, <1>7, Types, WorkflowAssumption DEF Init, TypeInv

LEMMA TypesStep == ASSUME TypeInv, [Next]_vars PROVE TypeInv'
<1> USE DEF TypeInv
<1>1. CASE Next
  <2>1. ReaderInv'
    BY <1>1, ReaderStep
  <2>2. streamed' = streamed /\ streamed \subseteq Queries
    BY <1>1 DEF Next, TypeOK
  <2>3. ASSUME NEW q \in Queries, ByClient(q) PROVE TypeOK'
    BY <2>2, <2>3, ClientKeepsTypes
  <2>4. ASSUME NEW q \in Queries, Run(q) PROVE TypeOK'
    BY <2>2, <2>4, RunKeepsFrame, TypesNext DEF RunFrame
  <2>5. ASSUME ClearHistory PROVE TypeOK'
    BY <2>2, <2>5, ClearFrame, TypesNext, Types
  <2> QED
    BY <1>1, <2>1, <2>3, <2>4, <2>5, Steps
<1>2. CASE UNCHANGED vars
  BY <1>2 DEF vars, sessions, graph, history, TypeOK, ReaderInv
<1> QED
  BY <1>1, <1>2

LEMMA Typed == Spec => []TypeInv
<1>1. Init => TypeInv
  BY TypesHold
<1>2. TypeInv /\ [Next]_vars => TypeInv'
  BY TypesStep
<1> QED
  BY <1>1, <1>2, PTL DEF Spec

(***************************************************************************)
(* The answers and the documents they cite.                                *)
(***************************************************************************)

(* What a step of a run does to the history. *)
Saves(q, role) ==
    /\ SaveMessage(q, role)
    /\ UNCHANGED <<answer, found, parts, faults>>
    /\ \/ role = "user" /\ node[q] = "node_item_name_confirm" /\ node'[q] = "extract"
       \/ /\ role = "user" /\ node[q] = "update_question"
          /\ node'[q] = IF answer[q].text = "none" THEN "node_multi_search"
                                                  ELSE "node_answer_output"
       \/ role = "assistant" /\ node[q] = "save_reply" /\ node'[q] = "update_question"
       \/ role = "assistant" /\ node[q] = "write_history" /\ node'[q] = "persist"

LEMMA RunMessages ==
    ASSUME TypeOK, NEW q \in Queries, Run(q)
    PROVE  (\E role \in {"user", "assistant"} : Saves(q, role)) \/ UNCHANGED <<chat, messages>>
<1>0. \A n : Goto(q, n) => node'[q] = n
  BY DEF Goto, TypeOK
<1>1. CASE SaveQuestion(q)
  BY <1>0, <1>1 DEF SaveQuestion, Write, Saves, sessions, history
<1>2. CASE SaveReply(q)
  BY <1>0, <1>2 DEF SaveReply, Write, Saves, sessions, history
<1>3. CASE UpdateQuestion(q)
  BY <1>0, <1>3 DEF UpdateQuestion, Write, Saves, sessions, history
<1>4. CASE WriteHistory(q)
  BY <1>0, <1>4 DEF WriteHistory, Saves, history
<1>5. CASE AlignNames(q) \/ MultiSearch(q) \/ PrepareEvidence(q) \/ Emit(q)
           \/ Generate(q) \/ PersistResult(q) \/ Finish(q) \/ Answer(q)
  BY <1>5 DEF AlignNames, MultiSearch, PrepareEvidence, Emit, Generate, PersistResult,
              Finish, Answer, history
<1> QED
  BY <1>1, <1>2, <1>3, <1>4, <1>5 DEF Run

LEMMA AnswerStep ==
    ASSUME TypeInv, NEW q \in Queries, AnswerInv(q), Run(q) PROVE AnswerInv(q)'
<1> USE DEF TypeInv
<1>0. /\ \A n : Goto(q, n) => node'[q] = n
      /\ FailRun(q) => node'[q] = "failed"
      /\ UNCHANGED graph => UNCHANGED <<node, parts, found, answer>>
  BY DEF Goto, FailRun, TypeOK, graph
<1>a. ASSUME NEW x, answer' = [answer EXCEPT ![q].text = x]
      PROVE  answer'[q].text = x /\ answer'[q].cited = answer[q].cited
  BY <1>a DEF TypeOK
<1>b. ASSUME answer' = [answer EXCEPT ![q].cited = TRUE]
      PROVE  answer'[q].text = answer[q].text /\ answer'[q].cited
  BY <1>b DEF TypeOK
<1>c. ASSUME NEW x, answer' = [answer EXCEPT ![q] = x] PROVE answer'[q] = x
  BY <1>c DEF TypeOK
<1> USE DEF AnswerInv, NoAnswer, Preset
<1>1. CASE SaveQuestion(q)
  BY <1>0, <1>1 DEF SaveQuestion, Write
<1>2. CASE AlignNames(q)
  <2>1. UNCHANGED <<parts, found>> /\ node[q] = "extract"
    BY <1>2 DEF AlignNames
  <2>2. \/ node'[q] \in {"update_question", "failed"} /\ answer' = answer
        \/ /\ answer'[q].text = Preset /\ answer'[q].cited = answer[q].cited
           /\ node'[q] = "save_reply"
    BY <1>0, <1>a, <1>2 DEF AlignNames
  <2> QED
    BY <2>1, <2>2
<1>3. CASE SaveReply(q)
  BY <1>0, <1>3 DEF SaveReply, Write
<1>4. CASE UpdateQuestion(q)
  <2>1. UNCHANGED <<parts, found, answer>> /\ node[q] = "update_question"
    BY <1>4 DEF UpdateQuestion
  <2>2. \/ node'[q] = "failed"
        \/ node'[q] = IF answer[q].text = "none" THEN "node_multi_search"
                                                 ELSE "node_answer_output"
    BY <1>0, <1>4 DEF UpdateQuestion, Write
  <2>3. answer[q] \in [text : Texts, cited : BOOLEAN]
    BY DEF TypeOK
  <2>4. answer[q].text = "none" => answer[q] = NoAnswer
    BY <2>1, <2>3
  <2> QED
    BY <2>1, <2>2, <2>4
<1>5. CASE MultiSearch(q)
  BY <1>0, <1>5 DEF MultiSearch, TypeOK
<1>6. CASE PrepareEvidence(q)
  <2>1. UNCHANGED <<parts, found>> /\ node[q] = "node_answer_output"
    BY <1>6 DEF PrepareEvidence
  <2>2. \/ node'[q] = "persist" /\ answer[q].text # "none" /\ answer' = answer
        \/ /\ node'[q] = "write_history" /\ answer[q].text = "none"
           /\ answer'[q].text = "no_evidence" /\ answer'[q].cited = answer[q].cited
        \/ /\ node'[q] = "generate" /\ answer[q].text = "none" /\ found[q]
           /\ answer'[q].text = "none" /\ answer'[q].cited
    BY <1>0, <1>a, <1>b, <1>6 DEF PrepareEvidence
  <2> QED
    BY <2>1, <2>2
<1>7. CASE Emit(q)
  BY <1>0, <1>7 DEF Emit, TypeOK
<1>8. CASE Generate(q)
  <2>1. UNCHANGED <<parts, found>> /\ node[q] = "generate"
    BY <1>8 DEF Generate
  <2>2. \/ node'[q] = "failed" /\ answer' = answer
        \/ /\ node'[q] = "write_history"
           /\ \E text \in {"generated", "withheld"} : answer'[q] = Secured(q, text)
    BY <1>0, <1>c, <1>8 DEF Generate
  <2>3. ASSUME NEW text \in {"generated", "withheld"}, answer'[q] = Secured(q, text)
        PROVE  /\ answer'[q].text = text
               /\ answer'[q].cited => answer[q].cited /\ text = "generated"
    <3> DEFINE b == answer[q].cited /\ text = "generated"
    <3>1. answer'[q] = [text |-> text, cited |-> b]
      BY <2>3 DEF Secured
    <3>2. b \in BOOLEAN
      OBVIOUS
    <3>3. b => answer[q].cited /\ text = "generated"
      OBVIOUS
    <3> HIDE DEF b
    <3>4. answer'[q].text = text /\ answer'[q].cited = b
      BY <3>1
    <3> QED
      BY <3>2, <3>3, <3>4
  <2> QED
    BY <2>1, <2>2, <2>3
<1>9. CASE WriteHistory(q)
  BY <1>0, <1>9 DEF WriteHistory
<1>10. CASE PersistResult(q)
  BY <1>0, <1>10 DEF PersistResult
<1>11. CASE Finish(q)
  BY <1>0, <1>11 DEF Finish
<1>12. CASE Answer(q)
  BY <1>0, <1>12 DEF Answer
<1> QED
  BY <1>1, <1>2, <1>3, <1>4, <1>5, <1>6, <1>7, <1>8, <1>9, <1>10, <1>11, <1>12 DEF Run

(* The answer of a query is saved, or about to be published as it is. *)
Settled(q) ==
    \/ node[q] \in {"persist", "final", "done"}
    \/ /\ node[q] \in {"update_question", "node_answer_output", "failed"}
       /\ answer[q].text = Preset

SavedInv ==
    \A q \in Queries : \A i \in DOMAIN messages :
        messages[i].role = "assistant" /\ messages[i].of = q =>
            /\ Settled(q)
            /\ messages[i].text = answer[q].text /\ messages[i].cited = answer[q].cited

LEMMA MessageTypes ==
    TypeOK => \A i \in DOMAIN messages : messages[i] \in Messages /\ messages[i].of \in Queries
<1>1. messages \in Seq(Messages) => \A i \in DOMAIN messages : messages[i] \in Messages
  OBVIOUS
<1> QED
  BY <1>1 DEF TypeOK, Messages

LEMMA AnswersParts ==
    TypeOK => (AnswersInv <=> (\A q \in Queries : AnswerInv(q)) /\ SavedInv)
BY MessageTypes DEF AnswersInv, SavedInv, Settled

LEMMA SettledStays ==
    ASSUME TypeInv, NEW q \in Queries, Run(q), Settled(q)
    PROVE  Settled(q)' /\ answer'[q] = answer[q]
<1> USE DEF TypeInv, Settled, Ended, Preset
<1>0. /\ \A n : Goto(q, n) => node'[q] = n
      /\ FailRun(q) => node'[q] = "failed"
      /\ UNCHANGED graph => UNCHANGED <<node, answer>>
  BY DEF Goto, FailRun, TypeOK, graph
<1>1. CASE UpdateQuestion(q)
  BY <1>0, <1>1 DEF UpdateQuestion, Write
<1>2. CASE PrepareEvidence(q)
  BY <1>0, <1>2 DEF PrepareEvidence
<1>3. CASE PersistResult(q) \/ Finish(q) \/ Answer(q)
  BY <1>0, <1>3 DEF PersistResult, Finish, Answer
<1> QED
  BY <1>1, <1>2, <1>3 DEF Run, SaveQuestion, AlignNames, SaveReply, MultiSearch, Emit, Generate,
                          WriteHistory

LEMMA SavedStep ==
    ASSUME TypeInv, \A q \in Queries : AnswerInv(q), SavedInv, NEW q \in Queries, Run(q)
    PROVE  SavedInv'
<1>1. \A i \in DOMAIN messages : messages[i] \in Messages /\ messages[i].of \in Queries
  BY MessageTypes DEF TypeInv
<1>2. \A p \in Queries : Settled(p) => Settled(p)' /\ answer'[p] = answer[p]
  <2>1. ASSUME NEW p \in Queries \ {q}, Settled(p) PROVE Settled(p)' /\ answer'[p] = answer[p]
    <3>1. node'[p] = node[p] /\ answer'[p] = answer[p]
      BY RunKeepsFrame DEF RunFrame, Others, TypeInv
    <3> QED
      BY <2>1, <3>1 DEF Settled
  <2> QED
    BY <2>1, SettledStays
<1>3. CASE UNCHANGED messages
  BY <1>1, <1>2, <1>3 DEF SavedInv
<1>4. ASSUME NEW role \in {"user", "assistant"}, Saves(q, role) PROVE SavedInv'
  <2>1. CASE UNCHANGED messages
    BY <1>3, <2>1
  <2> DEFINE m == Message(q, role, answer[q])
  <2>2. CASE messages' = Append(messages, m) /\ m \in Messages
    <3>1. /\ DOMAIN messages' = 1 .. Len(messages) + 1
          /\ DOMAIN messages = 1 .. Len(messages) /\ Len(messages) \in Nat
          /\ \A i \in DOMAIN messages : messages'[i] = messages[i]
          /\ messages'[Len(messages) + 1] = m
      <4>1. messages \in Seq(Messages)
        BY DEF TypeInv, TypeOK
      <4> HIDE DEF m
      <4> QED
        BY <2>2, <4>1, AppendOne
    <3>2. m.of = q /\ m.role = role /\ m.text = answer[q].text /\ m.cited = answer[q].cited
      BY DEF Message
    <3>3. answer' = answer
      BY <1>4 DEF Saves
    <3>4. role = "assistant" => Settled(q)'
      BY <1>4 DEF Saves, Settled, AnswerInv
    <3> HIDE DEF m
    <3>5. ASSUME NEW p \in Queries, NEW i \in DOMAIN messages',
                 messages'[i].role = "assistant", messages'[i].of = p
          PROVE  /\ Settled(p)'
                 /\ messages'[i].text = answer'[p].text /\ messages'[i].cited = answer'[p].cited
      <4>1. CASE i = Len(messages) + 1
        BY <3>1, <3>2, <3>3, <3>4, <3>5, <4>1
      <4>2. CASE i \in DOMAIN messages
        BY <1>2, <3>1, <3>5, <4>2 DEF SavedInv
      <4> QED
        BY <3>1, <4>1, <4>2
    <3> QED
      BY <3>5 DEF SavedInv
  <2> QED
    BY <1>4, <2>1, <2>2, SaveEffect DEF Saves, TypeInv
<1> QED
  BY <1>3, <1>4, RunMessages DEF TypeInv

(* What a client does leaves the history and the graphs alone, but for the *)
(* start of a graph. *)
LEMMA ClientEffect ==
    ASSUME TypeInv, NEW q \in Queries, ByClient(q)
    PROVE  /\ UNCHANGED <<parts, found, answer, messages, cleared, faults, result>>
           /\ \/ node' = node
              \/ Post(q) /\ node[q] = "none" /\ node'[q] = "node_item_name_confirm"
           /\ \A p \in Queries \ {q} : node'[p] = node[p]
<1>1. CASE Post(q)
  BY <1>1 DEF Post, Goto, TypeInv, TypeOK
<1>2. CASE OpenStream(q) \/ Serve(q) \/ LeaveStream(q)
  <2>1. UNCHANGED <<graph, history, faults>>
    BY <1>2 DEF OpenStream, Serve, LeaveStream
  <2>2. UNCHANGED result
    BY <1>2 DEF OpenStream, Connect, Serve, Read, Close, LeaveStream, Disconnect
  <2> QED
    BY <2>1, <2>2 DEF graph, history
<1> QED
  BY <1>1, <1>2 DEF ByClient

LEMMA AnswersStep == ASSUME TypeInv, AnswersInv, [Next]_vars PROVE AnswersInv'
<1>0. TypeOK /\ TypeOK'
  BY TypesStep DEF TypeInv
<1>a. (\A q \in Queries : AnswerInv(q)) /\ SavedInv
  BY <1>0, AnswersParts
<1> SUFFICES (\A p \in Queries : AnswerInv(p)') /\ SavedInv'
  <2>1. \A i \in DOMAIN messages' : messages'[i].of \in Queries
    <3>1. messages' \in Seq(Messages) => \A i \in DOMAIN messages' : messages'[i] \in Messages
      OBVIOUS
    <3> QED
      BY <1>0, <3>1 DEF TypeOK, Messages
  <2> QED
    BY <2>1 DEF AnswersInv, SavedInv, Settled
<1>1. ASSUME NEW q \in Queries, Run(q)
      PROVE  (\A p \in Queries : AnswerInv(p)') /\ SavedInv'
  <2>1. AnswerInv(q)' /\ SavedInv'
    BY <1>a, <1>1, AnswerStep, SavedStep
  <2>2. Others(q)
    BY <1>0, <1>1, RunKeepsFrame DEF RunFrame
  <2>3. ASSUME NEW p \in Queries \ {q} PROVE AnswerInv(p)'
    <3>1. AnswerInv(p)
      BY <1>a
    <3> QED
      BY <2>2, <3>1 DEF Others, AnswerInv
  <2> QED
    BY <2>1, <2>3
<1>2. ASSUME NEW q \in Queries, ByClient(q)
      PROVE  (\A p \in Queries : AnswerInv(p)') /\ SavedInv'
  <2>1. /\ UNCHANGED <<parts, found, answer, messages>>
        /\ \A p \in Queries : \/ node'[p] = node[p]
                              \/ node[p] = "none" /\ node'[p] = "node_item_name_confirm"
    BY <1>2, ClientEffect
  <2>2. ASSUME NEW p \in Queries PROVE AnswerInv(p)'
    <3>1. AnswerInv(p)
      BY <1>a
    <3> QED
      BY <2>1, <3>1 DEF AnswerInv
  <2>3. SavedInv'
    <3>1. \A p \in Queries : Settled(p) => Settled(p)'
      BY <2>1 DEF Settled
    <3> QED
      BY <1>a, <2>1, <3>1 DEF SavedInv
  <2> QED
    BY <2>2, <2>3
<1>3. ASSUME ClearHistory PROVE (\A p \in Queries : AnswerInv(p)') /\ SavedInv'
  <2>1. UNCHANGED <<parts, found, answer, node>>
    BY <1>3 DEF ClearHistory, graph
  <2>2. DOMAIN messages' = {}
    BY <1>3 DEF ClearHistory
  <2> QED
    BY <1>a, <2>1, <2>2 DEF AnswerInv, SavedInv
<1>4. ASSUME UNCHANGED vars PROVE (\A p \in Queries : AnswerInv(p)') /\ SavedInv'
  <2>1. UNCHANGED <<parts, found, answer, node, messages>>
    BY <1>4 DEF vars, graph, history
  <2> QED
    BY <1>a, <2>1 DEF AnswerInv, SavedInv, Settled
<1> QED
  BY <1>1, <1>2, <1>3, <1>4, Steps

LEMMA AnswersHold == Spec => [](TypeInv /\ AnswersInv)
<1>1. Init => AnswersInv
  BY DEF Init, AnswersInv, AnswerInv, NoAnswer
<1>2. TypeInv /\ AnswersInv /\ [Next]_vars => AnswersInv'
  BY AnswersStep
<1> QED
  BY <1>1, <1>2, Typed, PTL DEF Spec

(* Documents are cited only for an answer that a model wrote from some,    *)
(* and what the history has is what was returned: whoever asks, however    *)
(* many, and whatever fails. *)
THEOREM CitationsAreGrounded == Spec => []Grounded
<1>1. TypeInv /\ AnswersInv => Grounded
  <2> SUFFICES ASSUME TypeInv, AnswersInv,
                      NEW i \in DOMAIN messages, messages[i].role = "assistant"
               PROVE  LET q == messages[i].of
                      IN  /\ messages[i].cited => messages[i].text = "generated" /\ found[q]
                          /\ messages[i].text = answer[q].text
                          /\ messages[i].cited = answer[q].cited
    BY DEF Grounded
  <2> DEFINE q == messages[i].of
  <2>1. q \in Queries
    BY MessageTypes DEF TypeInv
  <2>2. AnswerInv(q) /\ Settled(q) /\ messages[i].text = answer[q].text
        /\ messages[i].cited = answer[q].cited
    BY <2>1, AnswersParts DEF TypeInv, SavedInv
  <2> QED
    BY <2>1, <2>2 DEF AnswerInv, Settled, Preset
<1> QED
  BY <1>1, AnswersHold, PTL

(***************************************************************************)
(* The messages of the session.                                            *)
(***************************************************************************)

Answered(q) ==
    \/ node[q] \in {"persist", "final", "done"}
    \/ node[q] \in {"update_question", "node_answer_output"} /\ answer[q].text = Preset

NewAtEnd(q, role) ==
    /\ role = "assistant" \/ ~Has(q, role)
    /\ \E n \in Nat :
        /\ DOMAIN messages' = DOMAIN messages \cup {n}
        /\ \A i \in DOMAIN messages : i < n
        /\ messages'[n].of = q /\ messages'[n].role = role

(* A message that is written again changes nothing; one that is new comes  *)
(* to the end. *)
LEMMA SavesOne ==
    ASSUME TypeInv, NEW q \in Queries, NEW role \in {"user", "assistant"}, Saves(q, role)
    PROVE  /\ cleared' = cleared
           /\ DOMAIN messages \subseteq DOMAIN messages'
           /\ \A i \in DOMAIN messages : messages'[i] = messages[i] /\ i \in Nat
           /\ \E i \in DOMAIN messages' : messages'[i].of = q /\ messages'[i].role = role
           /\ \/ DOMAIN messages' = DOMAIN messages
              \/ NewAtEnd(q, role)
<1>1. messages \in Seq(Messages)
  BY DEF TypeInv, TypeOK
<1>2. DOMAIN messages = 1 .. Len(messages) /\ Len(messages) \in Nat
  BY <1>1
<1>3. CASE role = "user" /\ Has(q, role) /\ messages' = messages
  <2>1. cleared' = cleared
    BY SaveEffect DEF Saves, TypeInv
  <2>2. \A i \in DOMAIN messages : i \in Nat
    BY <1>2
  <2>3. \E i \in DOMAIN messages : messages[i].of = q /\ messages[i].role = role
    BY <1>3 DEF Has
  <2> QED
    BY <1>3, <2>1, <2>2, <2>3
<1> DEFINE m == Message(q, role, answer[q])
<1>4. CASE /\ role = "assistant" \/ ~Has(q, role)
           /\ messages' = Append(messages, m) /\ m \in Messages
  <2>1. m.of = q /\ m.role = role
    BY DEF Message
  <2> HIDE DEF m
  <2>2. /\ DOMAIN messages' = 1 .. Len(messages) + 1
        /\ \A i \in DOMAIN messages : messages'[i] = messages[i]
        /\ messages'[Len(messages) + 1] = m
    BY <1>1, <1>2, <1>4, AppendOne
  <2>3. /\ DOMAIN messages' = DOMAIN messages \cup {Len(messages) + 1}
        /\ \A i \in DOMAIN messages : i < Len(messages) + 1 /\ i \in Nat
        /\ Len(messages) + 1 \in Nat
    BY <1>2, <2>2
  <2>4. cleared' = cleared
    BY SaveEffect DEF Saves, TypeInv
  <2> QED
    BY <1>4, <2>1, <2>2, <2>3, <2>4 DEF NewAtEnd
<1> QED
  BY <1>3, <1>4, SaveEffect DEF Saves, TypeInv

(* The answer of a query is not there before it is settled. *)
LEMMA NoAnswerYet ==
    ASSUME TypeInv, AnswersInv, NEW q \in Queries, ~Settled(q)
    PROVE  ~Has(q, "assistant")
BY AnswersParts DEF TypeInv, SavedInv, Has

LEMMA NewMessage ==
    ASSUME TypeInv, AnswersInv, MessagesInv, NEW q \in Queries,
           NEW role \in {"user", "assistant"}, Saves(q, role)
    PROVE  SavedOnce' /\ QuestionFirst'
<1>1. AnswerInv(q)
  BY AnswersParts DEF TypeInv
<1>2. role = "assistant" => ~Has(q, "assistant")
  BY <1>1, NoAnswerYet DEF Saves, Settled, AnswerInv
<1>3. role = "user" /\ ~Has(q, "user") /\ q \notin cleared => ~Has(q, "assistant")
  <2>1. CASE node[q] = "node_item_name_confirm"
    BY <2>1, NoAnswerYet DEF Settled
  <2>2. CASE node[q] = "update_question"
    BY <2>2 DEF MessagesInv, QuestionSaved
  <2> QED
    BY <2>1, <2>2 DEF Saves
<1>4. CASE DOMAIN messages' = DOMAIN messages
  BY <1>4, SavesOne DEF MessagesInv, SavedOnce, QuestionFirst
<1>5. ASSUME NEW n \in Nat,
             role = "assistant" \/ ~Has(q, role),
             DOMAIN messages' = DOMAIN messages \cup {n},
             \A i \in DOMAIN messages : i < n,
             messages'[n].of = q, messages'[n].role = role
      PROVE  SavedOnce' /\ QuestionFirst'
  <2>1. ~Has(q, role)
    BY <1>2, <1>5
  <2>2. /\ \A i \in DOMAIN messages : messages'[i] = messages[i] /\ i \in Nat
        /\ cleared' = cleared
    BY SavesOne
  <2>3. \A i \in DOMAIN messages : ~(messages'[i].of = q /\ messages'[i].role = role)
    BY <2>1, <2>2 DEF Has
  <2>4. SavedOnce'
    <3>1. ASSUME NEW i \in DOMAIN messages', NEW j \in DOMAIN messages',
                 messages'[i].of = messages'[j].of, messages'[i].role = messages'[j].role
          PROVE  i = j
      <4>1. CASE i \in DOMAIN messages /\ j \in DOMAIN messages
        BY <2>2, <3>1, <4>1 DEF MessagesInv, SavedOnce
      <4>2. CASE i = n /\ j \in DOMAIN messages
        BY <1>5, <2>3, <3>1, <4>2
      <4>3. CASE j = n /\ i \in DOMAIN messages
        BY <1>5, <2>3, <3>1, <4>3
      <4> QED
        BY <1>5, <4>1, <4>2, <4>3
    <3> QED
      BY <3>1 DEF SavedOnce
  <2>5. QuestionFirst'
    <3>1. ASSUME NEW i \in DOMAIN messages', NEW j \in DOMAIN messages',
                 messages'[i].of = messages'[j].of, messages'[i].of \notin cleared',
                 messages'[i].role = "user", messages'[j].role = "assistant"
          PROVE  i < j
      <4>1. CASE i \in DOMAIN messages /\ j \in DOMAIN messages
        BY <2>2, <3>1, <4>1 DEF MessagesInv, QuestionFirst
      <4>2. CASE i \in DOMAIN messages /\ j = n
        BY <1>5, <4>2
      <4>3. CASE i = n /\ j \in DOMAIN messages
        <5>1. Has(q, "assistant")
          BY <1>5, <2>2, <3>1, <4>3 DEF Has
        <5> QED
          BY <1>3, <1>5, <2>1, <2>2, <3>1, <4>3, <5>1
      <4>4. CASE i = n /\ j = n
        BY <3>1, <4>4
      <4> QED
        BY <1>5, <4>1, <4>2, <4>3, <4>4
    <3> QED
      BY <3>1 DEF QuestionFirst
  <2> QED
    BY <2>4, <2>5
<1>6. CASE NewAtEnd(q, role)
  BY <1>5, <1>6 DEF NewAtEnd
<1> QED
  BY <1>4, <1>6, SavesOne

LEMMA HasStays ==
    ASSUME TypeInv, NEW q \in Queries, Run(q), NEW p \in Queries,
           NEW role \in {"user", "assistant"}, Has(p, role)
    PROVE  Has(p, role)'
<1>1. CASE UNCHANGED <<chat, messages>>
  BY <1>1 DEF Has
<1>2. ASSUME NEW r \in {"user", "assistant"}, Saves(q, r) PROVE Has(p, role)'
  <2>1. /\ DOMAIN messages \subseteq DOMAIN messages'
        /\ \A i \in DOMAIN messages : messages'[i] = messages[i]
    BY <1>2, SavesOne
  <2> QED
    BY <2>1 DEF Has
<1> QED
  BY <1>1, <1>2, RunMessages DEF TypeInv

(* A step of a run to a node behind a write has written. *)
LEMMA QuestionStep ==
    ASSUME TypeInv, NEW q \in Queries, Run(q),
           node[q] \in {"none", "node_item_name_confirm", "failed"},
           node'[q] \notin {"none", "node_item_name_confirm", "failed"}
    PROVE  Saves(q, "user")
<1>1. SaveQuestion(q)
  BY DEF Run, SaveQuestion, AlignNames, SaveReply, UpdateQuestion, MultiSearch,
         PrepareEvidence, Emit, Generate, WriteHistory, PersistResult, Finish, Answer,
         Ended, graph
<1>2. /\ Goto(q, "extract") => node'[q] = "extract"
      /\ FailRun(q) => node'[q] = "failed"
  BY DEF Goto, FailRun, TypeInv, TypeOK
<1> QED
  BY <1>1, <1>2 DEF SaveQuestion, Write, Saves, sessions

LEMMA NoFaultStep ==
    ASSUME TypeInv, NEW q \in Queries, Run(q), faults' = 0
    PROVE  faults = 0
BY RunKeepsFrame, FaultEffect, WorkflowAssumption
   DEF TypeInv, TypeOK, Run, SaveQuestion, AlignNames, SaveReply, UpdateQuestion, MultiSearch,
       PrepareEvidence, Emit, Generate, WriteHistory, PersistResult, Finish, Answer, Write

LEMMA ReplyStep ==
    ASSUME TypeInv, NEW q \in Queries, AnswerInv(q), Run(q), faults' = 0,
           ~Answered(q), Answered(q)'
    PROVE  Saves(q, "assistant")
<1>0. /\ \A n : Goto(q, n) => node'[q] = n
      /\ FailRun(q) => node'[q] = "failed"
      /\ UNCHANGED graph => UNCHANGED <<node, answer>>
      /\ \A f : ~Fault(f)
  <2>0. TypeOK
    BY DEF TypeInv
  <2>1. node \in [Queries -> Nodes] /\ faults \in Nat
    BY <2>0, WorkflowAssumption DEF TypeOK
  <2>2. ASSUME NEW f, Fault(f) PROVE FALSE
    <3>1. faults' = faults + 1
      BY <2>2 DEF Fault
    <3> QED
      BY <2>1, <3>1
  <2>3. \A n : Goto(q, n) => node'[q] = n
    BY <2>1 DEF Goto
  <2> QED
    BY <2>2, <2>3 DEF FailRun, graph
<1> USE DEF Answered, AnswerInv, Preset, Ended
<1>1. CASE SaveReply(q)
  BY <1>0, <1>1 DEF SaveReply, Write, Saves, sessions
<1>2. CASE WriteHistory(q)
  BY <1>0, <1>2 DEF WriteHistory, Saves
<1>3. CASE SaveQuestion(q) \/ AlignNames(q)
  <2>1. node'[q] \in {"extract", "failed", "save_reply"}
        \/ (node'[q] = "update_question" /\ answer' = answer /\ answer[q] = NoAnswer)
    BY <1>0, <1>3 DEF SaveQuestion, AlignNames, Write
  <2> QED
    BY <2>1 DEF NoAnswer
<1>4. CASE UpdateQuestion(q)
  BY <1>0, <1>4 DEF UpdateQuestion, Write
<1>5. CASE MultiSearch(q)
  BY <1>0, <1>5 DEF MultiSearch, NoAnswer
<1>6. CASE PrepareEvidence(q)
  BY <1>0, <1>6 DEF PrepareEvidence
<1>7. CASE Emit(q) \/ Generate(q)
  BY <1>0, <1>7 DEF Emit, Generate
<1>8. CASE PersistResult(q) \/ Finish(q) \/ Answer(q)
  BY <1>0, <1>8 DEF PersistResult, Finish, Answer
<1> QED
  BY <1>1, <1>2, <1>3, <1>4, <1>5, <1>6, <1>7, <1>8 DEF Run

LEMMA QuestionSavedStep ==
    ASSUME TypeInv, MessagesInv, NEW q \in Queries, Run(q) PROVE QuestionSaved'
<1>1. UNCHANGED cleared /\ Others(q)
  BY RunKeepsFrame DEF RunFrame, TypeInv
<1> SUFFICES ASSUME NEW p \in Queries \ cleared,
                    node'[p] \notin {"none", "node_item_name_confirm", "failed"},
                    cleared = {} \/ node'[p] # "done"
             PROVE  Has(p, "user")'
  BY <1>1 DEF QuestionSaved
<1>2. CASE Has(p, "user")
  BY <1>2, HasStays
<1>3. CASE ~Has(p, "user") /\ p = q
  <2>1. \/ node[q] \in {"none", "node_item_name_confirm", "failed"}
        \/ cleared # {} /\ node[q] = "done"
    BY <1>3 DEF MessagesInv, QuestionSaved
  <2>2. node[q] = "done" => node'[q] = "done"
    BY DEF Run, SaveQuestion, AlignNames, SaveReply, UpdateQuestion, MultiSearch,
           PrepareEvidence, Emit, Generate, WriteHistory, PersistResult, Finish, Answer, graph
  <2>3. Saves(q, "user")
    BY <1>3, <2>1, <2>2, QuestionStep
  <2> QED
    BY <1>3, <2>3, SavesOne DEF Has
<1>4. CASE ~Has(p, "user") /\ p # q
  BY <1>1, <1>4 DEF Others, MessagesInv, QuestionSaved
<1> QED
  BY <1>2, <1>3, <1>4

LEMMA AnswerSavedStep ==
    ASSUME TypeInv, AnswersInv, MessagesInv, NEW q \in Queries, Run(q) PROVE AnswerSaved'
<1>1. UNCHANGED cleared /\ Others(q)
  BY RunKeepsFrame DEF RunFrame, TypeInv
<1> SUFFICES ASSUME cleared = {}, faults' = 0, NEW p \in Queries, Answered(p)'
             PROVE  Has(p, "assistant")'
  BY <1>1 DEF AnswerSaved, Answered
<1>2. faults = 0
  BY NoFaultStep
<1>3. Answered(p) => Has(p, "assistant")
  BY <1>2 DEF MessagesInv, AnswerSaved, Answered
<1>4. CASE Answered(p)
  BY <1>3, <1>4, HasStays
<1>5. CASE ~Answered(p) /\ p = q
  <2>1. AnswerInv(q)
    BY AnswersParts DEF TypeInv
  <2>2. Saves(q, "assistant")
    BY <1>5, <2>1, ReplyStep
  <2> QED
    BY <1>5, <2>2, SavesOne DEF Has
<1>6. CASE ~Answered(p) /\ p # q
  BY <1>1, <1>6 DEF Others, Answered
<1> QED
  BY <1>4, <1>5, <1>6

LEMMA MessagesStep ==
    ASSUME TypeInv, AnswersInv, MessagesInv, [Next]_vars PROVE MessagesInv'
<1>1. ASSUME NEW q \in Queries, Run(q) PROVE MessagesInv'
  <2>1. SavedOnce' /\ QuestionFirst'
    <3>1. CASE UNCHANGED <<chat, messages>>
      <4>1. UNCHANGED cleared
        BY <1>1, RunKeepsFrame DEF RunFrame, TypeInv
      <4> QED
        BY <3>1, <4>1 DEF MessagesInv, SavedOnce, QuestionFirst
    <3>2. ASSUME NEW role \in {"user", "assistant"}, Saves(q, role)
          PROVE  SavedOnce' /\ QuestionFirst'
      BY <3>2, NewMessage
    <3> QED
      BY <1>1, <3>1, <3>2, RunMessages DEF TypeInv
  <2> QED
    BY <1>1, <2>1, QuestionSavedStep, AnswerSavedStep DEF MessagesInv
<1>2. ASSUME NEW q \in Queries, ByClient(q) PROVE MessagesInv'
  <2>1. /\ UNCHANGED <<answer, messages, cleared, faults>>
        /\ \A p \in Queries : \/ node'[p] = node[p]
                              \/ node[p] = "none" /\ node'[p] = "node_item_name_confirm"
    BY <1>2, ClientEffect
  <2>2. SavedOnce' /\ QuestionFirst'
    BY <2>1 DEF MessagesInv, SavedOnce, QuestionFirst
  <2>3. QuestionSaved'
    BY <2>1 DEF MessagesInv, QuestionSaved, Has
  <2>4. AnswerSaved'
    BY <2>1 DEF MessagesInv, AnswerSaved, Has
  <2> QED
    BY <2>2, <2>3, <2>4 DEF MessagesInv
<1>3. ASSUME ClearHistory PROVE MessagesInv'
  <2>1. /\ UNCHANGED <<node, answer>> /\ DOMAIN messages' = {}
        /\ cleared' = {q \in Queries : node[q] \notin {"none"} \cup Ended}
        /\ cleared' # {}
    BY <1>3 DEF ClearHistory, graph
  <2>2. SavedOnce' /\ QuestionFirst'
    BY <2>1 DEF SavedOnce, QuestionFirst
  <2>3. QuestionSaved'
    BY <2>1 DEF QuestionSaved, Ended
  <2>4. AnswerSaved'
    BY <2>1 DEF AnswerSaved
  <2> QED
    BY <2>2, <2>3, <2>4 DEF MessagesInv
<1>4. ASSUME UNCHANGED vars PROVE MessagesInv'
  BY <1>4 DEF vars, graph, history, MessagesInv, SavedOnce, QuestionFirst, QuestionSaved,
              AnswerSaved, Has
<1> QED
  BY <1>1, <1>2, <1>3, <1>4, Steps

LEMMA CountOfOne ==
    ASSUME TypeInv, SavedOnce, NEW q \in Queries, NEW role \in {"user", "assistant"}
    PROVE  Count(q, role) \in Nat /\ Count(q, role) <= 1 /\ (Has(q, role) => Count(q, role) = 1)
<1> DEFINE S == {i \in DOMAIN messages : messages[i].of = q /\ messages[i].role = role}
<1>1. CASE S = {}
  <2>1. ~Has(q, role)
    BY <1>1 DEF Has
  <2>2. Count(q, role) = 0
    BY <1>1, FS_EmptySet DEF Count
  <2> QED
    BY <2>1, <2>2
<1>2. CASE S # {}
  <2>1. PICK i \in S : TRUE
    BY <1>2
  <2>2. S = {i}
    BY <2>1 DEF SavedOnce
  <2> QED
    BY <2>2, FS_Singleton DEF Count
<1> QED
  BY <1>1, <1>2

(* The history has each question and each answer once, the question first, *)
(* and both of a query that ran to its end: however the queries of the     *)
(* session overlap and wherever a write fails or the history is cleared. *)
THEOREM HistoryIsKept == Spec => []HistoryKept
<1>1. Init => MessagesInv
  <2> SUFFICES ASSUME Init PROVE MessagesInv
    OBVIOUS
  <2>1. DOMAIN messages = {} /\ \A q \in Queries : node[q] = "none"
    BY DEF Init
  <2> QED
    BY <2>1 DEF MessagesInv, SavedOnce, QuestionFirst, QuestionSaved, AnswerSaved
<1>2. TypeInv /\ AnswersInv /\ MessagesInv /\ [Next]_vars => MessagesInv'
  BY MessagesStep
<1>3. TypeInv /\ MessagesInv => HistoryKept
  <2> SUFFICES ASSUME TypeInv, MessagesInv, NEW q \in Queries
               PROVE
        /\ Count(q, "user") <= 1 /\ Count(q, "assistant") <= 1
        /\ q \notin cleared =>
            /\ \A i, j \in DOMAIN messages :
                messages[i] # messages[j] /\ messages[i].of = q /\ messages[j].of = q =>
                    (i < j <=> messages[i].role = "user")
            /\ node[q] = "done" /\ faults = 0 /\ cleared = {} =>
                Count(q, "user") = 1 /\ Count(q, "assistant") = 1
    BY DEF HistoryKept
  <2>1. SavedOnce /\ QuestionFirst /\ QuestionSaved /\ AnswerSaved
    BY DEF MessagesInv
  <2>2. Count(q, "user") <= 1 /\ Count(q, "assistant") <= 1
    BY <2>1, CountOfOne
  <2>3. ASSUME q \notin cleared, NEW i \in DOMAIN messages, NEW j \in DOMAIN messages,
               messages[i] # messages[j], messages[i].of = q, messages[j].of = q
        PROVE  i < j <=> messages[i].role = "user"
    <3>1. messages[i].role # messages[j].role
      BY <2>1, <2>3 DEF SavedOnce
    <3>2. messages[i].role \in {"user", "assistant"} /\ messages[j].role \in {"user", "assistant"}
      BY MessageTypes DEF TypeInv, Messages
    <3>3. i \in Nat /\ j \in Nat
      <4>1. messages \in Seq(Messages)
        BY DEF TypeInv, TypeOK
      <4> QED
        BY <4>1
    <3>4. CASE messages[i].role = "user"
      BY <2>1, <2>3, <3>1, <3>2, <3>4 DEF QuestionFirst
    <3>5. CASE messages[i].role = "assistant"
      BY <2>1, <2>3, <3>1, <3>2, <3>3, <3>5 DEF QuestionFirst
    <3> QED
      BY <3>2, <3>4, <3>5
  <2>4. ASSUME node[q] = "done", faults = 0, cleared = {}
        PROVE  Count(q, "user") = 1 /\ Count(q, "assistant") = 1
    <3>1. Has(q, "user") /\ Has(q, "assistant")
      BY <2>1, <2>4 DEF QuestionSaved, AnswerSaved
    <3> QED
      BY <2>1, <3>1, CountOfOne
  <2> QED
    BY <2>2, <2>3, <2>4
<1> QED
  BY <1>1, <1>2, <1>3, AnswersHold, PTL DEF Spec

(***************************************************************************)
(* What the clients read.                                                  *)
(***************************************************************************)

LEMMA ToldNothing == \A q, n, k : Told(<<>>, q, n, k)
BY DEF Told

(* The beginning of what was told is told as well: only its last event can *)
(* be the end. *)
LEMMA ToldBeginning ==
    ASSUME NEW a \in Seq(Events), NEW b \in Seq(Events), NEW q, NEW n, NEW k,
           Told(a \o b, q, n, k)
    PROVE  Told(a, q, n, k)
<1>1. /\ Len(a \o b) = Len(a) + Len(b) /\ Len(a) \in Nat /\ Len(b) \in Nat
      /\ DOMAIN (a \o b) = 1 .. Len(a) + Len(b) /\ DOMAIN a = 1 .. Len(a)
      /\ \A i \in DOMAIN a : (a \o b)[i] = a[i]
  OBVIOUS
<1> SUFFICES ASSUME NEW i \in DOMAIN a
             PROVE  /\ a[i].of = q
                    /\ i < Len(a) => a[i].kind = "delta"
                    /\ a[i].kind = "final" => n = "done" /\ Len(a) = k + 1
                    /\ a[i].kind = "error" => n = "failed"
  BY DEF Told
<1>2. /\ a[i].of = q
      /\ i < Len(a) + Len(b) => a[i].kind = "delta"
      /\ a[i].kind = "final" => n = "done" /\ Len(a) + Len(b) = k + 1
      /\ a[i].kind = "error" => n = "failed"
  BY <1>1 DEF Told
<1> QED
  BY <1>1, <1>2

LEMMA ToldPrefix ==
    ASSUME NEW s \in Seq(Events), NEW m \in 0 .. Len(s), NEW q, NEW n, NEW k, Told(s, q, n, k)
    PROVE  Told(SubSeq(s, 1, m), q, n, k)
<1> DEFINE a == SubSeq(s, 1, m)
<1>1. /\ Len(a) = m /\ DOMAIN a = 1 .. m /\ Len(s) \in Nat /\ DOMAIN s = 1 .. Len(s)
      /\ \A i \in DOMAIN a : a[i] = s[i]
  OBVIOUS
<1> HIDE DEF a
<1> SUFFICES ASSUME NEW i \in DOMAIN a
             PROVE  /\ a[i].of = q
                    /\ i < Len(a) => a[i].kind = "delta"
                    /\ a[i].kind = "final" => n = "done" /\ Len(a) = k + 1
                    /\ a[i].kind = "error" => n = "failed"
  BY DEF Told, a
<1>2. /\ a[i].of = q
      /\ i < Len(s) => a[i].kind = "delta"
      /\ a[i].kind = "final" => n = "done" /\ Len(s) = k + 1
      /\ a[i].kind = "error" => n = "failed"
  BY <1>1 DEF Told
<1> QED
  BY <1>1, <1>2

(* As long as a query runs there are only parts of its answer. *)
LEMMA ToldDeltas ==
    ASSUME NEW s \in Seq(Events), NEW q, NEW n, NEW k, Told(s, q, n, k), n \notin Ended
    PROVE  \A i \in DOMAIN s : s[i].of = q /\ s[i].kind = "delta"
<1>1. \A i \in DOMAIN s : s[i] \in Events
  OBVIOUS
<1> QED
  BY <1>1 DEF Told, Ended, Events

LEMMA ToldOn ==
    ASSUME NEW s \in Seq(Events), NEW q, NEW n, NEW k, NEW m, NEW l,
           Told(s, q, n, k), n \notin Ended
    PROVE  Told(s, q, m, l)
<1>1. \A i \in DOMAIN s : s[i].of = q /\ s[i].kind = "delta"
  BY ToldDeltas
<1> QED
  BY <1>1 DEF Told

LEMMA ToldOneMore ==
    ASSUME NEW s \in Seq(Events), NEW q \in Queries, NEW n, NEW k,
           Told(s, q, n, k), n \notin Ended, Len(s) = k
    PROVE  /\ \A m, l : Told(Append(s, Event("delta", q)), q, m, l)
           /\ Told(Append(s, Event("final", q)), q, "done", k)
           /\ \A l : Told(Append(s, Event("error", q)), q, "failed", l)
           /\ \A e \in Events : Len(Append(s, e)) = k + 1 /\ Append(s, e) \in Seq(Events)
<1>1. \A i \in DOMAIN s : s[i].of = q /\ s[i].kind = "delta"
  BY ToldDeltas
<1>2. ASSUME NEW e \in Events
      PROVE  /\ Len(Append(s, e)) = k + 1 /\ Append(s, e) \in Seq(Events)
             /\ DOMAIN Append(s, e) = 1 .. k + 1 /\ DOMAIN s = 1 .. k /\ k \in Nat
             /\ Append(s, e)[k + 1] = e
             /\ \A i \in 1 .. k : Append(s, e)[i] = s[i]
  BY AppendOne
<1>3. ASSUME NEW e \in Events, e.of = q, NEW m, NEW l,
             e.kind = "final" => m = "done" /\ l = k, e.kind = "error" => m = "failed"
      PROVE  Told(Append(s, e), q, m, l)
  <2> DEFINE a == Append(s, e)
  <2>1. /\ Len(a) = k + 1 /\ DOMAIN a = 1 .. k + 1 /\ k \in Nat /\ DOMAIN s = 1 .. k
        /\ a[k + 1] = e
        /\ \A i \in 1 .. k : a[i] = s[i]
    BY <1>2
  <2> HIDE DEF a
  <2>2. ASSUME NEW i \in DOMAIN a
        PROVE  /\ a[i].of = q
               /\ i < Len(a) => a[i].kind = "delta"
               /\ a[i].kind = "final" => m = "done" /\ Len(a) = l + 1
               /\ a[i].kind = "error" => m = "failed"
    <3>1. CASE i = k + 1
      BY <1>3, <2>1, <3>1
    <3>2. CASE i \in 1 .. k
      BY <1>1, <2>1, <3>2
    <3> QED
      BY <2>1, <3>1, <3>2
  <2> QED
    BY <2>2 DEF Told, a
<1>4. \A kind \in {"delta", "final", "error"} :
        Event(kind, q) \in Events /\ Event(kind, q).of = q /\ Event(kind, q).kind = kind
  BY DEF Event, Events
<1> QED
  BY <1>2, <1>3, <1>4

Running(q) == node[q] \notin {"none"} \cup Ended

(* What a step of a streamed query that runs does to the stream. *)
RunPushes(q) ==
    \/ Push(Event("delta", q)) /\ Pushed(q)' = Pushed(q) + 1 /\ Running(q)'
    \/ UNCHANGED streams /\ Pushed(q)' = Pushed(q) /\ Running(q)'
    \/ Push(Event("final", q)) /\ Pushed(q)' = Pushed(q) /\ node'[q] = "done"
    \/ Push(Event("error", q)) /\ node'[q] = "failed"

LEMMA RunStreams ==
    ASSUME TypeInv, NEW q \in streamed, q \in Queries, AnswerInv(q), Run(q)
    PROVE  Running(q) /\ UNCHANGED response /\ RunPushes(q)
<1>0. /\ \A n : Goto(q, n) => node'[q] = n
      /\ FailRun(q) => node'[q] = "failed" /\ Push(Event("error", q)) /\ UNCHANGED response
      /\ UNCHANGED sessions => UNCHANGED <<streams, response>>
      /\ Stream(q)
  BY DEF Goto, FailRun, TypeInv, TypeOK, sessions, Stream
<1>a. ASSUME NEW x, answer' = [answer EXCEPT ![q].text = x] PROVE answer'[q].text = x
  BY <1>a DEF TypeInv, TypeOK
<1>b. ASSUME answer' = [answer EXCEPT ![q].cited = TRUE] PROVE answer'[q].text = answer[q].text
  BY <1>b DEF TypeInv, TypeOK
<1>c. ASSUME NEW x, answer' = [answer EXCEPT ![q] = x] PROVE answer'[q] = x
  BY <1>c DEF TypeInv, TypeOK
<1>d. parts[q] \in Nat /\ (node[q] \notin {"generate", "write_history", "persist", "final", "done",
                                           "failed"} => parts[q] = 0)
  BY DEF AnswerInv, TypeInv, TypeOK
<1>e. \A n : n \notin {"none", "done", "failed"} /\ node[q] = n => Running(q)
  BY DEF Running, Ended
<1>f. \A n : n \notin {"none", "done", "failed"} /\ node'[q] = n => Running(q)'
  BY DEF Running, Ended
<1> USE DEF AnswerInv, NoAnswer, Preset, Pushed
<1>1. CASE SaveQuestion(q)
  BY <1>0, <1>d, <1>e, <1>f, <1>1 DEF SaveQuestion, Write, RunPushes
<1>2. CASE AlignNames(q)
  <2>1. UNCHANGED parts /\ node[q] = "extract" /\ UNCHANGED response
    BY <1>0, <1>2 DEF AlignNames
  <2>2. \/ node'[q] = "update_question" /\ answer' = answer /\ UNCHANGED streams
        \/ node'[q] = "failed" /\ Push(Event("error", q))
        \/ node'[q] = "save_reply" /\ answer'[q].text = Preset /\ UNCHANGED streams
    BY <1>0, <1>a, <1>2 DEF AlignNames
  <2> QED
    BY <1>d, <1>e, <1>f, <2>1, <2>2 DEF RunPushes
<1>3. CASE SaveReply(q)
  BY <1>0, <1>d, <1>e, <1>f, <1>3 DEF SaveReply, Write, RunPushes
<1>4. CASE UpdateQuestion(q)
  <2>1. UNCHANGED <<parts, answer, response>> /\ node[q] = "update_question"
    BY <1>0, <1>4 DEF UpdateQuestion, Write
  <2>2. \/ node'[q] = "failed" /\ Push(Event("error", q))
        \/ node'[q] \in {"node_multi_search", "node_answer_output"} /\ UNCHANGED streams
    BY <1>0, <1>4 DEF UpdateQuestion, Write
  <2> QED
    BY <1>d, <1>e, <1>f, <2>1, <2>2 DEF RunPushes
<1>5. CASE MultiSearch(q)
  BY <1>0, <1>d, <1>e, <1>f, <1>5 DEF MultiSearch, RunPushes
<1>6. CASE PrepareEvidence(q)
  <2>1. UNCHANGED <<parts, response>> /\ node[q] = "node_answer_output"
    BY <1>6 DEF PrepareEvidence
  <2>2. \/ /\ node'[q] = "persist" /\ answer[q].text # "none" /\ answer' = answer
           /\ Push(Event("delta", q))
        \/ /\ node'[q] = "write_history" /\ answer[q].text = "none"
           /\ answer'[q].text = "no_evidence" /\ Push(Event("delta", q))
        \/ /\ node'[q] = "generate" /\ answer[q].text = "none"
           /\ answer'[q].text = "none" /\ UNCHANGED streams
    BY <1>0, <1>a, <1>b, <1>6 DEF PrepareEvidence, PublishExisting
  <2> QED
    BY <1>d, <1>e, <1>f, <2>1, <2>2 DEF RunPushes
<1>7. CASE Emit(q)
  <2>1. UNCHANGED <<answer, node, response>> /\ node[q] = "generate"
        /\ Push(Event("delta", q)) /\ parts'[q] = parts[q] + 1
    BY <1>7 DEF Emit, TypeInv, TypeOK
  <2> QED
    BY <1>d, <1>e, <1>f, <2>1 DEF RunPushes
<1>8. CASE Generate(q)
  <2>1. UNCHANGED <<parts, response>> /\ node[q] = "generate"
    BY <1>0, <1>8 DEF Generate
  <2>2. \/ node'[q] = "failed" /\ Push(Event("error", q))
        \/ /\ node'[q] = "write_history" /\ UNCHANGED streams
           /\ answer'[q].text \in {"generated", "withheld"}
    BY <1>0, <1>c, <1>8 DEF Generate, Secured
  <2> QED
    BY <1>d, <1>e, <1>f, <2>1, <2>2 DEF RunPushes
<1>9. CASE WriteHistory(q)
  BY <1>0, <1>d, <1>e, <1>f, <1>9 DEF WriteHistory, RunPushes
<1>10. CASE PersistResult(q)
  BY <1>0, <1>d, <1>e, <1>f, <1>10 DEF PersistResult, RunPushes
<1>11. CASE Finish(q)
  BY <1>0, <1>d, <1>e, <1>f, <1>11 DEF Finish, RunPushes
<1>12. CASE Answer(q)
  BY <1>0, <1>12 DEF Answer
<1> QED
  BY <1>1, <1>2, <1>3, <1>4, <1>5, <1>6, <1>7, <1>8, <1>9, <1>10, <1>11, <1>12 DEF Run

LEMMA RunKind ==
    ASSUME TypeInv, NEW q \in Queries, Run(q)
    PROVE  \/ Answer(q)
           \/ Running(q) /\ UNCHANGED response /\ node'[q] # "none"
<1>0. \A n : Goto(q, n) => node'[q] = n
  BY DEF Goto, TypeInv, TypeOK
<1> USE <1>0 DEF Running, Ended
<1>1. CASE SaveQuestion(q)
  BY <1>1 DEF SaveQuestion, Write, FailRun, sessions
<1>2. CASE AlignNames(q)
  BY <1>2 DEF AlignNames, FailRun, sessions
<1>3. CASE SaveReply(q)
  BY <1>3 DEF SaveReply, Write, FailRun, sessions
<1>4. CASE UpdateQuestion(q)
  BY <1>4 DEF UpdateQuestion, Write, FailRun, sessions
<1>5. CASE MultiSearch(q)
  BY <1>5 DEF MultiSearch, sessions
<1>6. CASE PrepareEvidence(q)
  BY <1>6 DEF PrepareEvidence
<1>7. CASE Emit(q)
  BY <1>7 DEF Emit
<1>8. CASE Generate(q)
  BY <1>8 DEF Generate, FailRun, sessions
<1>9. CASE WriteHistory(q)
  BY <1>9 DEF WriteHistory, sessions
<1>10. CASE PersistResult(q)
  BY <1>10 DEF PersistResult
<1>11. CASE Finish(q)
  BY <1>11 DEF Finish
<1> QED
  BY <1>1, <1>2, <1>3, <1>4, <1>5, <1>6, <1>7, <1>8, <1>9, <1>10, <1>11 DEF Run

LEMMA RunResult ==
    ASSUME TypeInv, NEW q \in Queries, Run(q), Running(q)
    PROVE  \/ /\ UNCHANGED result /\ node'[q] \notin {"failed", "final"}
              /\ node'[q] = "done" => node[q] = "final"
           \/ result' = [result EXCEPT !.error = q] /\ node'[q] = "failed"
           \/ result' = [result EXCEPT !.answer = q] /\ node'[q] = "final"
<1>0. /\ \A n : Goto(q, n) => node'[q] = n
      /\ FailRun(q) => result' = [result EXCEPT !.error = q] /\ node'[q] = "failed"
      /\ UNCHANGED sessions => UNCHANGED result
  BY DEF Goto, FailRun, TypeInv, TypeOK, sessions
<1> USE <1>0
<1>1. CASE SaveQuestion(q)
  BY <1>1 DEF SaveQuestion, Write
<1>2. CASE AlignNames(q)
  BY <1>2 DEF AlignNames
<1>3. CASE SaveReply(q)
  BY <1>3 DEF SaveReply, Write
<1>4. CASE UpdateQuestion(q)
  BY <1>4 DEF UpdateQuestion, Write
<1>5. CASE MultiSearch(q)
  BY <1>5 DEF MultiSearch
<1>6. CASE PrepareEvidence(q)
  BY <1>6 DEF PrepareEvidence
<1>7. CASE Emit(q)
  BY <1>7 DEF Emit
<1>8. CASE Generate(q)
  BY <1>8 DEF Generate
<1>9. CASE WriteHistory(q)
  BY <1>9 DEF WriteHistory
<1>10. CASE PersistResult(q)
  BY <1>10 DEF PersistResult
<1>11. CASE Finish(q)
  BY <1>11 DEF Finish
<1>12. CASE Answer(q)
  BY <1>12 DEF Answer, Running
<1> QED
  BY <1>1, <1>2, <1>3, <1>4, <1>5, <1>6, <1>7, <1>8, <1>9, <1>10, <1>11, <1>12 DEF Run

LEMMA ErrorStays ==
    ASSUME TypeInv, NEW q \in Queries, Run(q), Running(q)
    PROVE  result.error # NoQuery \/ node'[q] = "failed" => result'.error # NoQuery
<1>1. result \in [answer : Queries \cup {NoQuery}, error : Queries \cup {NoQuery}]
  BY DEF TypeInv, TypeOK
<1>2. q # NoQuery
  BY QueriesAssumption DEF NoQuery
<1>3. \/ UNCHANGED result /\ node'[q] # "failed"
      \/ result' = [result EXCEPT !.error = q]
      \/ result' = [result EXCEPT !.answer = q] /\ node'[q] # "failed"
  BY RunResult
<1> QED
  BY <1>1, <1>2, <1>3

(* A query that is not streamed is over for its client with the response,  *)
(* and one that is streamed is not read any more when it is over. *)
LEMMA UnstreamedIsActive ==
    ASSUME PatientInv, NEW q \in Queries, ~Stream(q), node[q] # "none", response[q] = "none"
    PROVE  Active(q)
BY DEF PatientInv, ResponseInv, Active, EndedForClient, NoReader

Idle(q) ==
    \/ node[q] = "none" /\ reader[q].state = "none"
    \/ reader[q].state \in {"closing", "ended"}

LEMMA OthersAreIdle ==
    ASSUME TypeInv, PatientInv, NEW q \in streamed, q \in Queries, ~Active(q) PROVE Idle(q)
<1>1. ResponseInv(q) /\ StreamInv(q)
  BY DEF PatientInv
<1>2. CASE node[q] = "none"
  BY <1>1, <1>2 DEF ResponseInv, NoReader, Idle
<1>3. CASE node[q] # "none"
  <2>1. EndedForClient(q)
    BY <1>3 DEF Active
  <2>2. response[q] = "accepted"
    BY <1>1, <1>3 DEF ResponseInv, Stream
  <2>3. reader[q].state \in {"none", "reading", "closing", "ended"} /\ received[q] \in Seq(Events)
    BY DEF TypeInv, TypeOK
  <2>4. CASE received[q] # <<>> /\ received[q][Len(received[q])].kind \in Terminal
    <3>1. reader[q].state # "none"
      BY <1>1, <2>4 DEF StreamInv
    <3>2. Len(received[q]) \in DOMAIN received[q]
      BY <2>3, <2>4
    <3>3. reader[q].state # "reading"
      BY <1>1, <2>4, <3>2 DEF StreamInv, Terminal
    <3> QED
      BY <2>3, <3>1, <3>3 DEF Idle
  <2>5. CASE reader[q].state = "ended"
    BY <2>5 DEF Idle
  <2> QED
    BY <2>1, <2>2, <2>4, <2>5 DEF EndedForClient
<1> QED
  BY <1>2, <1>3

LEMMA IdleStays ==
    ASSUME NEW q \in streamed, StreamInv(q), Idle(q),
           node'[q] = node[q], answer'[q] = answer[q], parts'[q] = parts[q],
           received'[q] = received[q], reader'[q] = reader[q]
    PROVE  StreamInv(q)'
<1>1. Fine(received[q], q)'
  BY DEF StreamInv, Fine, Pushed
<1> QED
  BY <1>1 DEF StreamInv, Idle

LEMMA StreamGrows ==
    ASSUME NEW q \in Queries, Running(q), RunPushes(q),
           NEW s \in Seq(Events), AllTold(s, q, node[q], Pushed(q))
    PROVE  \/ UNCHANGED streams /\ AllTold(s, q, node'[q], Pushed(q)')
           \/ \E e \in Events : Push(e) /\ AllTold(Append(s, e), q, node'[q], Pushed(q)')
<1> DEFINE n == node[q]
           k == Pushed(q)
<1>1. Told(s, q, n, k) /\ n \notin Ended /\ Len(s) = k
  BY DEF AllTold, Running
<1>2. /\ \A m, l : Told(s, q, m, l)
      /\ \A m, l : Told(Append(s, Event("delta", q)), q, m, l)
      /\ Told(Append(s, Event("final", q)), q, "done", k)
      /\ \A l : Told(Append(s, Event("error", q)), q, "failed", l)
      /\ \A e \in Events : Len(Append(s, e)) = k + 1
      /\ \A kind \in {"delta", "final", "error"} : Event(kind, q) \in Events
  <2> HIDE DEF n, k
  <2> QED
    BY <1>1, ToldOn, ToldOneMore, EventTypes
<1>3. CASE Push(Event("delta", q)) /\ Pushed(q)' = k + 1 /\ Running(q)'
  BY <1>2, <1>3 DEF AllTold
<1>4. CASE UNCHANGED streams /\ Pushed(q)' = k /\ Running(q)'
  BY <1>1, <1>2, <1>4 DEF AllTold
<1>5. CASE Push(Event("final", q)) /\ Pushed(q)' = k /\ node'[q] = "done"
  BY <1>2, <1>5 DEF AllTold, Ended
<1>6. CASE Push(Event("error", q)) /\ node'[q] = "failed"
  BY <1>2, <1>6 DEF AllTold, Ended
<1> QED
  BY <1>3, <1>4, <1>5, <1>6 DEF RunPushes

LEMMA RunKeepsStream ==
    ASSUME TypeInv, AnswersInv, PatientInv, NEW q \in streamed, q \in Queries, Run(q)
    PROVE  StreamInv(q)'
<1> DEFINE n == node'[q]
           k == Pushed(q)'
<1>0. Running(q) /\ RunPushes(q)
  BY RunStreams, AnswersParts DEF TypeInv
<1>1. UNCHANGED <<backend, current, reader, received>>
  BY RunKeepsFrame DEF RunFrame, TypeInv
<1>2. StreamInv(q) /\ node[q] \notin {"none"} \cup Ended
  BY <1>0 DEF PatientInv, Running
<1>3. /\ received[q] \in Seq(Events) /\ streams \in Seq(Seq(Events))
      /\ current \in 0 .. Len(streams) /\ Len(streams) \in Nat
      /\ backend \in {"memory", "redis"}
      /\ reader[q].stream \in 0 .. Len(streams) /\ reader[q].position \in Nat
  <2>1. TypeOK /\ q \in Queries
    BY DEF TypeInv
  <2>2. received[q] \in Seq(Events)
    BY <2>1 DEF TypeOK
  <2>3. /\ streams \in Seq(Seq(Events)) /\ current \in 0 .. Len(streams)
        /\ backend \in {"memory", "redis"}
    BY <2>1 DEF TypeOK
  <2>4. reader[q].stream \in 0 .. Len(streams) /\ reader[q].position \in Nat
    BY <2>1 DEF TypeOK
  <2> QED
    BY <2>2, <2>3, <2>4
<1>4. Told(received[q], q, n, k)
  <2>1. Told(received[q], q, node[q], Pushed(q))
    BY <1>2 DEF StreamInv, Fine
  <2> HIDE DEF n, k
  <2> QED
    BY <1>2, <1>3, <2>1, ToldOn
<1>5. ASSUME NEW e \in Events, Push(e)
      PROVE  /\ current = 0 => streams' = streams
             /\ current # 0 => streams'[current] = Append(streams[current], e)
  BY <1>5, PushEffect, Types DEF Push, TypeInv
<1>6. ASSUME current # 0
      PROVE  streams[current] \in Seq(Events)
  BY <1>3, <1>6
<1>7. CASE reader[q].state = "none"
  <2>1. received[q] = <<>> /\ (current = 0 => backend = "memory")
    BY <1>2, <1>7 DEF StreamInv
  <2>2. ASSUME current # 0 PROVE AllTold(streams'[current], q, n, k)
    <3>1. AllTold(streams[current], q, node[q], Pushed(q))
      BY <1>2, <1>7, <2>2 DEF StreamInv, Complete
    <3>2. \/ UNCHANGED streams /\ AllTold(streams[current], q, n, k)
          \/ \E e \in Events : Push(e) /\ AllTold(Append(streams[current], e), q, n, k)
      BY <1>0, <1>6, <2>2, <3>1, StreamGrows
    <3> QED
      BY <1>5, <2>2, <3>2
  <2> QED
    BY <1>1, <1>4, <1>7, <2>1, <2>2 DEF StreamInv, Fine, Complete
<1>8. CASE reader[q].state = "reading" /\ backend = "memory"
  <2>1. /\ \A i \in DOMAIN received[q] : received[q][i].kind = "delta"
        /\ reader[q].stream # 0 /\ current \in {0, reader[q].stream}
        /\ reader[q].position = 0
        /\ Told(received[q] \o streams[reader[q].stream], q, node[q], Pushed(q))
        /\ current # 0 => AllTold(received[q] \o streams[current], q, node[q], Pushed(q))
    BY <1>2, <1>8 DEF StreamInv, Fine, Complete
  <2>2. CASE current = 0
    <3>1. streams' = streams
      BY <1>0, <1>5, <2>2, EventTypes DEF RunPushes
    <3>2. received[q] \o streams[reader[q].stream] \in Seq(Events)
      BY <1>3, <2>1
    <3>3. Told(received[q] \o streams[reader[q].stream], q, n, k)
      <4> DEFINE s == received[q] \o streams[reader[q].stream]
      <4>1. s \in Seq(Events) /\ Told(s, q, node[q], Pushed(q))
        BY <2>1, <3>2
      <4> HIDE DEF s, n, k
      <4>2. Told(s, q, n, k)
        BY <1>2, <4>1, ToldOn
      <4> QED
        BY <4>2 DEF s
    <3> QED
      BY <1>1, <1>4, <1>8, <2>1, <2>2, <3>1, <3>3 DEF StreamInv, Fine
  <2>3. CASE current # 0
    <3> DEFINE s == received[q] \o streams[current]
    <3>1. s \in Seq(Events)
      BY <1>3, <1>6, <2>3
    <3>2. \/ UNCHANGED streams /\ AllTold(s, q, n, k)
          \/ \E e \in Events : Push(e) /\ AllTold(Append(s, e), q, n, k)
      <4>1. AllTold(s, q, node[q], Pushed(q))
        BY <2>1, <2>3
      <4> HIDE DEF s
      <4> QED
        BY <1>0, <3>1, <4>1, StreamGrows
    <3>3. AllTold(received[q] \o streams'[current], q, n, k)
      <4>1. CASE UNCHANGED streams /\ AllTold(s, q, n, k)
        BY <4>1
      <4>2. ASSUME NEW e \in Events, Push(e), AllTold(Append(s, e), q, n, k)
            PROVE  AllTold(received[q] \o streams'[current], q, n, k)
        <5>1. received[q] \o Append(streams[current], e) = Append(s, e)
          <6>1. received[q] \in Seq(Events) /\ streams[current] \in Seq(Events)
            BY <1>3, <1>6, <2>3
          <6> QED
            BY <6>1, AppendBehind
        <5> QED
          BY <1>5, <2>3, <4>2, <5>1
      <4> QED
        BY <3>2, <4>1, <4>2
    <3>4. Told(received[q] \o streams'[current], q, n, k)
      BY <3>3 DEF AllTold
    <3> QED
      BY <1>1, <1>4, <1>8, <2>1, <2>3, <3>3, <3>4 DEF StreamInv, Fine, Complete
  <2> QED
    BY <2>2, <2>3
<1>9. CASE reader[q].state = "reading" /\ backend = "redis"
  <2> DEFINE m == reader[q].position
  <2>1. /\ \A i \in DOMAIN received[q] : received[q][i].kind = "delta"
        /\ reader[q].stream # 0 /\ current \in {0, reader[q].stream}
        /\ current # 0 /\ m <= Len(streams[current])
        /\ received[q] = SubSeq(streams[current], 1, m)
        /\ AllTold(streams[current], q, node[q], Pushed(q))
    BY <1>2, <1>9 DEF StreamInv, Complete
  <2>2. \/ UNCHANGED streams /\ AllTold(streams[current], q, n, k)
        \/ \E e \in Events : Push(e) /\ AllTold(Append(streams[current], e), q, n, k)
    BY <1>0, <1>6, <2>1, StreamGrows
  <2>3. /\ AllTold(streams'[current], q, n, k)
        /\ m <= Len(streams'[current])
        /\ received[q] = SubSeq(streams'[current], 1, m)
    <3>1. CASE UNCHANGED streams /\ AllTold(streams[current], q, n, k)
      BY <2>1, <3>1
    <3>2. ASSUME NEW e \in Events, Push(e), AllTold(Append(streams[current], e), q, n, k)
          PROVE  /\ AllTold(streams'[current], q, n, k)
                 /\ m <= Len(streams'[current])
                 /\ received[q] = SubSeq(streams'[current], 1, m)
      <4>1. SubSeq(Append(streams[current], e), 1, m) = SubSeq(streams[current], 1, m)
        BY <1>3, <1>6, <2>1, PrefixStays
      <4>2. Len(Append(streams[current], e)) = Len(streams[current]) + 1
            /\ Len(streams[current]) \in Nat
        BY <1>6, <2>1
      <4> QED
        <5>1. streams'[current] = Append(streams[current], e)
          BY <1>5, <2>1, <3>2
        <5>2. m <= Len(streams[current]) + 1
          BY <1>3, <2>1, <4>2
        <5> QED
          BY <2>1, <3>2, <4>1, <4>2, <5>1, <5>2
    <3> QED
      BY <2>2, <3>1, <3>2
  <2> QED
    BY <1>1, <1>4, <1>9, <2>1, <2>3 DEF StreamInv, Fine, Complete
<1>10. CASE reader[q].state \notin {"none", "reading"}
  BY <1>1, <1>4, <1>10 DEF StreamInv, Fine
<1> QED
  BY <1>3, <1>7, <1>8, <1>9, <1>10

(* A step of a run is one of the query that is active. *)
LEMMA RunIsActive ==
    ASSUME TypeInv, PatientInv, NEW q \in Queries, Run(q) PROVE Active(q)
<1>1. CASE Answer(q)
  BY <1>1, UnstreamedIsActive DEF Answer, Ended
<1>2. CASE Running(q)
  BY <1>2 DEF Running, Active, PatientInv, EndsOnce
<1> QED
  BY <1>1, <1>2, RunKind

LEMMA RunKeepsOthers ==
    ASSUME TypeInv, PatientInv, streamed' = streamed, NEW q \in Queries, Run(q),
           NEW p \in Queries \ {q}
    PROVE  /\ ResponseInv(p)' /\ (p \in streamed => StreamInv(p)')
           /\ EndedForClient(p)' <=> EndedForClient(p)
           /\ node'[p] = node[p]
<1>1. /\ UNCHANGED <<reader, received>> /\ node'[p] = node[p] /\ answer'[p] = answer[p]
      /\ parts'[p] = parts[p] /\ response'[p] = response[p]
  BY RunKeepsFrame DEF RunFrame, TypeInv, Others
<1>2. ~Active(p)
  BY RunIsActive DEF PatientInv, OneActive
<1>3. p \in streamed => StreamInv(p)'
  BY <1>1, <1>2, OthersAreIdle, IdleStays DEF PatientInv
<1>4. result.error # NoQuery => result'.error # NoQuery
  <2>1. CASE Answer(q)
    BY <2>1 DEF Answer
  <2>2. CASE Running(q)
    BY <2>2, ErrorStays
  <2> QED
    BY <2>1, <2>2, RunKind
<1>5. ~(~Stream(p) /\ response[p] = "none" /\ node[p] \in {"final", "done"})
  BY <1>2, UnstreamedIsActive
<1>6. ResponseInv(p)'
  <2>1. ResponseInv(p)
    BY DEF PatientInv
  <2> QED
    BY <1>1, <1>4, <1>5, <2>1 DEF ResponseInv, Stream
<1>7. EndedForClient(p)' <=> EndedForClient(p)
  BY <1>1 DEF EndedForClient
<1> QED
  BY <1>1, <1>3, <1>6, <1>7

LEMMA RunKeepsResponse ==
    ASSUME TypeInv, PatientInv, streamed' = streamed, NEW q \in Queries, Run(q)
    PROVE  ResponseInv(q)'
<1>1. ResponseInv(q) /\ UNCHANGED <<reader, received>>
  BY RunKeepsFrame DEF RunFrame, TypeInv, PatientInv
<1>2. CASE Answer(q)
  <2>1. /\ UNCHANGED <<node, result>> /\ ~Stream(q) /\ node[q] \in Ended /\ response[q] = "none"
        /\ response'[q] = IF result.error # NoQuery THEN "error" ELSE result.answer
    BY <1>2 DEF Answer, Respond, graph, TypeInv, TypeOK
  <2>2. CASE result.error # NoQuery
    BY <1>1, <2>1, <2>2, QueriesAssumption DEF ResponseInv, Stream, Ended
  <2>3. CASE result.error = NoQuery
    <3>1. node[q] = "done" /\ result.answer = q
      BY <1>1, <2>1, <2>3 DEF ResponseInv, Ended
    <3> QED
      BY <1>1, <2>1, <2>3, <3>1, QueriesAssumption DEF ResponseInv, Stream, Ended
  <2> QED
    BY <2>2, <2>3
<1>3. CASE Running(q) /\ UNCHANGED response /\ node'[q] # "none"
  <2>1. result.error # NoQuery \/ node'[q] = "failed" => result'.error # NoQuery
    BY <1>3, ErrorStays
  <2>2. ~Stream(q) /\ response[q] = "none" /\ node'[q] \in {"final", "done"} => result'.answer = q
    BY <1>1, <1>3, RunResult DEF ResponseInv, TypeInv, TypeOK
  <2>3. response[q] \in {"none", "accepted"} /\ node[q] # "none"
    BY <1>1, <1>3 DEF ResponseInv, Running
  <2> QED
    BY <1>1, <1>3, <2>1, <2>2, <2>3, QueriesAssumption DEF ResponseInv, Stream
<1> QED
  BY <1>2, <1>3, RunKind

LEMMA RunKeepsPatient ==
    ASSUME TypeInv, AnswersInv, PatientInv, streamed' = streamed, NEW q \in Queries, Run(q)
    PROVE  PatientInv'
<1>1. \A p \in Queries \ {q} : /\ ResponseInv(p)' /\ (p \in streamed => StreamInv(p)')
                               /\ EndedForClient(p)' <=> EndedForClient(p)
                               /\ node'[p] = node[p]
  BY RunKeepsOthers
<1>2. streamed \subseteq Queries
  BY DEF TypeInv, TypeOK
<1>3. \A p \in streamed : StreamInv(p)'
  BY <1>1, <1>2, RunKeepsStream
<1>4. \A p \in Queries : ResponseInv(p)'
  BY <1>1, RunKeepsResponse
<1>5. ErrorInv'
  <2>1. CASE Answer(q)
    BY <2>1 DEF Answer, graph, PatientInv, ErrorInv
  <2>2. CASE Running(q)
    <3>1. result.error = NoQuery \/ (result.error \in Queries /\ node[result.error] = "failed")
      BY DEF PatientInv, ErrorInv, TypeInv, TypeOK
    <3>2. result.error # q
      BY <2>2, <3>1, QueriesAssumption DEF Running, Ended, NoQuery
    <3>3. result'.error \in {result.error, q} /\ (result'.error = q => node'[q] = "failed")
      BY <2>2, <3>2, RunResult DEF TypeInv, TypeOK
    <3> QED
      BY <1>1, <3>1, <3>3 DEF ErrorInv
  <2> QED
    BY <2>1, <2>2, RunKind
<1>6. node[q] # "none" /\ node'[q] # "none"
      /\ (node[q] \in Ended => node'[q] \in Ended)
  <2>1. CASE Answer(q)
    BY <2>1 DEF Answer, graph, Ended
  <2>2. CASE Running(q) /\ node'[q] # "none"
    BY <2>2 DEF Running
  <2> QED
    BY <2>1, <2>2, RunKind
<1>7. EndedForClient(q)' => node'[q] \in Ended
  <2>1. UNCHANGED <<reader, received>>
    BY RunKeepsFrame DEF RunFrame, TypeInv
  <2>2. CASE Answer(q)
    BY <2>2 DEF Answer, graph
  <2>3. CASE Running(q) /\ UNCHANGED response
    <3>1. ~EndedForClient(q)
      BY <2>3 DEF Running, PatientInv, EndsOnce
    <3> QED
      BY <2>1, <2>3, <3>1 DEF EndedForClient
  <2> QED
    BY <2>2, <2>3, RunKind
<1>8. EndsOnce'
  <2>1. EndsOnce
    BY DEF PatientInv
  <2> QED
    BY <1>1, <1>7, <2>1 DEF EndsOnce
<1>9. OneActive'
  <2>1. \A p \in Queries \ {q} : ~Active(p)
    BY RunIsActive DEF PatientInv, OneActive
  <2>2. \A p \in Queries \ {q} : ~Active(p)'
    BY <1>1, <2>1 DEF Active
  <2> QED
    BY <2>2 DEF OneActive
<1> QED
  BY <1>3, <1>4, <1>5, <1>8, <1>9 DEF PatientInv

(* The clients.  One that does something reads, or may read, a stream. *)
LEMMA ClientStreams ==
    ASSUME TypeInv, PatientInv, NEW q \in Queries,
           response[q] = "accepted" \/ reader[q].state # "none"
    PROVE  Stream(q) /\ q \in streamed /\ node[q] # "none" /\ response[q] = "accepted"
<1>1. response[q] = "accepted"
  BY DEF TypeInv, ReaderInv
<1> QED
  BY <1>1 DEF PatientInv, ResponseInv, Stream

LEMMA ReadingIsActive ==
    ASSUME TypeInv, PatientInv, NEW q \in Queries,
           response[q] = "accepted", reader[q].state \in {"none", "reading"}
    PROVE  Active(q)
<1>1. q \in streamed /\ node[q] # "none"
  BY ClientStreams
<1>2. StreamInv(q) /\ received[q] \in Seq(Events)
  BY <1>1 DEF PatientInv, TypeInv, TypeOK
<1>3. CASE received[q] = <<>>
  BY <1>1, <1>3 DEF Active, EndedForClient
<1>4. CASE received[q] # <<>>
  <2>1. Len(received[q]) \in DOMAIN received[q]
    BY <1>2, <1>4
  <2>2. received[q][Len(received[q])].kind = "delta"
    BY <1>2, <1>4, <2>1 DEF StreamInv
  <2> QED
    BY <1>1, <2>2 DEF Active, EndedForClient, Terminal
<1> QED
  BY <1>3, <1>4

(* The steps of the client of q leave the other queries as they are. *)
ClientFrame(q) ==
    /\ UNCHANGED <<streamed, node, answer, parts, result, response, backend>>
    /\ \A p \in Queries \ {q} : reader'[p] = reader[p] /\ received'[p] = received[p]

LEMMA ClientKeepsPatient ==
    ASSUME TypeInv, PatientInv, NEW q \in streamed, q \in Queries, ClientFrame(q),
           node[q] # "none", \A p \in streamed : StreamInv(p)',
           EndedForClient(q) => EndedForClient(q)', EndedForClient(q)' => node[q] \in Ended
    PROVE  PatientInv'
<1> USE DEF ClientFrame
<1>1. ErrorInv'
  BY DEF PatientInv, ErrorInv
<1>2. \A p \in Queries \ {q} : EndedForClient(p)' <=> EndedForClient(p)
  BY DEF EndedForClient
<1>3. OneActive'
  <2>1. OneActive
    BY DEF PatientInv
  <2>2. \A p \in Queries : Active(p)' => Active(p)
    BY <1>2 DEF Active
  <2> QED
    BY <2>1, <2>2 DEF OneActive
<1>4. EndsOnce'
  <2>1. EndsOnce
    BY DEF PatientInv
  <2> QED
    BY <1>2, <2>1 DEF EndsOnce
<1>5. \A p \in Queries : ResponseInv(p)'
  <2>1. \A p \in Queries : ResponseInv(p)
    BY DEF PatientInv
  <2> QED
    BY <2>1 DEF ResponseInv, Stream
<1> QED
  BY <1>1, <1>3, <1>4, <1>5 DEF PatientInv

LEMMA OpenKeepsPatient ==
    ASSUME TypeInv, PatientInv, streamed' = streamed, NEW q \in Queries, OpenStream(q)
    PROVE  PatientInv'
<1>1. response[q] = "accepted" /\ reader[q].state = "none"
  BY DEF OpenStream, Connect
<1>2. q \in streamed /\ node[q] # "none" /\ Active(q)
  BY <1>1, ClientStreams, ReadingIsActive
<1>3. UNCHANGED <<streams, current, received>> /\ ClientFrame(q)
  BY DEF OpenStream, Connect, ClientFrame, graph, TypeInv, TypeOK
<1>4. \/ /\ reader'[q] = [state |-> "reading", stream |-> current, position |-> 0]
         /\ ~(backend = "memory" /\ current = 0)
      \/ reader'[q].state \in {"closing", "ended"}
  BY DEF OpenStream, Connect, TypeInv, TypeOK
<1>5. /\ received[q] = <<>> /\ Fine(received[q], q)
      /\ IF current = 0 THEN backend = "memory" ELSE Complete(streams[current], q)
  BY <1>1, <1>2 DEF PatientInv, StreamInv
<1>6. Fine(received[q], q)' /\ received'[q] = <<>>
  BY <1>3, <1>5 DEF Fine, Pushed, ClientFrame
<1>7. StreamInv(q)'
  <2>1. CASE reader'[q].state \in {"closing", "ended"}
    BY <1>6, <2>1 DEF StreamInv
  <2>2. CASE /\ reader'[q] = [state |-> "reading", stream |-> current, position |-> 0]
             /\ ~(backend = "memory" /\ current = 0)
    <3>1. current # 0 /\ Complete(streams[current], q)
      BY <1>5, <2>2
    <3>2. streams[current] \in Seq(Events)
      BY <3>1 DEF TypeInv, TypeOK
    <3>3. /\ <<>> \o streams[current] = streams[current]
          /\ SubSeq(streams[current], 1, 0) = <<>>
          /\ 0 <= Len(streams[current])
      BY <3>2
    <3>4. Complete(streams[current], q)' /\ Fine(streams[current], q)'
      BY <1>3, <3>1 DEF Complete, AllTold, Fine, Pushed, ClientFrame
    <3>5. UNCHANGED <<streams, current, backend>>
      BY <1>3 DEF ClientFrame
    <3>6. /\ reader'[q].state = "reading" /\ reader'[q].stream = current
          /\ reader'[q].position = 0
      BY <2>2
    <3> QED
      BY <1>6, <3>1, <3>3, <3>4, <3>5, <3>6 DEF StreamInv
  <2> QED
    BY <1>4, <2>1, <2>2
<1>8. ASSUME NEW p \in streamed \ {q} PROVE StreamInv(p)'
  <2>1. p \in Queries /\ ~Active(p)
    BY <1>2 DEF PatientInv, OneActive, TypeInv, TypeOK
  <2> QED
    BY <1>3, <2>1, OthersAreIdle, IdleStays DEF ClientFrame, PatientInv
<1>9. ~EndedForClient(q) /\ (EndedForClient(q)' => node[q] \in Ended)
  BY <1>1, <1>2, <1>3, <1>6 DEF Active, EndedForClient, ClientFrame
<1> QED
  BY <1>2, <1>3, <1>7, <1>8, <1>9, ClientKeepsPatient

LEMMA LeaveKeepsPatient ==
    ASSUME TypeInv, PatientInv, streamed' = streamed, NEW q \in Queries, LeaveStream(q)
    PROVE  PatientInv'
<1>1. reader[q].state = "reading" /\ response[q] = "accepted"
  BY DEF LeaveStream, Disconnect, TypeInv, ReaderInv
<1>2. q \in streamed /\ node[q] # "none" /\ Active(q)
  BY <1>1, ClientStreams, ReadingIsActive
<1>3. /\ UNCHANGED <<streams, current, received>> /\ ClientFrame(q)
      /\ reader'[q].state = "closing"
  BY DEF LeaveStream, Disconnect, ClientFrame, graph, TypeInv, TypeOK
<1>4. StreamInv(q)'
  <2>1. Fine(received[q], q)
    BY <1>2 DEF PatientInv, StreamInv
  <2> QED
    BY <1>3, <2>1 DEF StreamInv, Fine, Pushed, ClientFrame
<1>5. ASSUME NEW p \in streamed \ {q} PROVE StreamInv(p)'
  <2>1. p \in Queries /\ ~Active(p)
    BY <1>2 DEF PatientInv, OneActive, TypeInv, TypeOK
  <2> QED
    BY <1>3, <2>1, OthersAreIdle, IdleStays DEF ClientFrame, PatientInv
<1>6. ~EndedForClient(q) /\ ~EndedForClient(q)'
  BY <1>1, <1>2, <1>3 DEF Active, EndedForClient, ClientFrame
<1> QED
  BY <1>2, <1>4, <1>5, <1>6, ClientKeepsPatient, <1>3

(* The generator of an earlier query may take the stream of the one that   *)
(* runs, in memory; its client is not there yet, or it holds on to it. *)
LEMMA CloseKeepsPatient ==
    ASSUME TypeInv, PatientInv, streamed' = streamed, NEW q \in Queries, Close(q),
           UNCHANGED graph
    PROVE  PatientInv'
<1>1. reader[q].state = "closing" /\ q \in streamed /\ node[q] # "none"
  BY ClientStreams DEF Close
<1>2. /\ UNCHANGED <<streams, received>> /\ ClientFrame(q)
      /\ reader'[q].state = "ended"
      /\ current' = IF backend = "memory" THEN 0 ELSE current
  BY DEF Close, ClientFrame, graph, TypeInv, TypeOK
<1>3. ASSUME NEW p \in streamed PROVE StreamInv(p)'
  <2>1. StreamInv(p)
    BY DEF PatientInv
  <2>2. \A s : (Fine(s, p) => Told(s, p, node'[p], Pushed(p)'))
               /\ (Complete(s, p) => AllTold(s, p, node'[p], Pushed(p)'))
    BY <1>2 DEF Fine, Complete, Pushed, ClientFrame
  <2>3. CASE p = q
    BY <1>2, <2>1, <2>2, <2>3 DEF StreamInv, Fine
  <2>4. CASE p # q
    <3>1. reader'[p] = reader[p] /\ received'[p] = received[p] /\ node'[p] = node[p]
          /\ backend' = backend /\ streams' = streams
      BY <1>2, <2>4 DEF ClientFrame, TypeInv, TypeOK
    <3>2. CASE backend = "memory"
      <4>1. current' = 0
        BY <1>2, <3>2
      <4> QED
        BY <2>1, <2>2, <3>1, <3>2, <4>1 DEF StreamInv, Fine, Complete
    <3>3. CASE backend # "memory"
      <4>1. current' = current
        BY <1>2, <3>3
      <4> QED
        BY <2>1, <2>2, <3>1, <3>3, <4>1 DEF StreamInv, Fine, Complete
    <3> QED
      BY <3>2, <3>3
  <2> QED
    BY <2>3, <2>4
<1>4. EndedForClient(q) => EndedForClient(q)' /\ node[q] \in Ended
  BY <1>1, <1>2 DEF EndedForClient, ClientFrame, PatientInv, EndsOnce
<1>5. EndedForClient(q)' => node[q] \in Ended
  BY <1>1, <1>2, <1>4 DEF EndedForClient, ClientFrame
<1> QED
  BY <1>1, <1>2, <1>3, <1>4, <1>5, ClientKeepsPatient

LEMMA ReadKeepsPatient ==
    ASSUME TypeInv, PatientInv, streamed' = streamed, NEW q \in Queries, Read(q),
           UNCHANGED graph
    PROVE  PatientInv'
<1> DEFINE k == Reads(q)
           m == Position(q)
           e == streams[k][m + 1]
           n == node[q]
           l == Pushed(q)
<1>1. reader[q].state = "reading" /\ response[q] = "accepted"
  BY DEF Read, TypeInv, ReaderInv
<1>2. q \in streamed /\ node[q] # "none" /\ Active(q)
  BY <1>1, ClientStreams, ReadingIsActive
<1>3. /\ k \in 1 .. Len(streams) /\ m \in 0 .. Len(streams[k]) - 1
      /\ streams[k] \in Seq(Events) /\ e \in Events
  BY ReadEffect, Types DEF TypeInv
<1>4. /\ UNCHANGED current /\ ClientFrame(q)
      /\ received'[q] = Append(received[q], e)
      /\ reader'[q].state = IF e.kind \in Terminal THEN "closing" ELSE "reading"
      /\ reader'[q].stream = k
      /\ reader'[q].position = IF backend = "memory" THEN 0 ELSE m + 1
      /\ backend = "memory" => streams'[k] = Tail(streams[k])
      /\ backend # "memory" => streams' = streams
  BY <1>3 DEF Read, ClientFrame, graph, TypeInv, TypeOK
<1>5. node'[q] = n /\ Pushed(q)' = l
  BY <1>4 DEF ClientFrame, Pushed
<1>6. /\ \A i \in DOMAIN received[q] : received[q][i].kind = "delta"
      /\ reader[q].stream # 0 /\ current \in {0, reader[q].stream}
      /\ backend = "memory" =>
            /\ reader[q].position = 0
            /\ Told(received[q] \o streams[reader[q].stream], q, n, l)
            /\ current # 0 => AllTold(received[q] \o streams[current], q, n, l)
      /\ backend = "redis" =>
            /\ current # 0
            /\ reader[q].position <= Len(streams[current])
            /\ received[q] = SubSeq(streams[current], 1, reader[q].position)
            /\ AllTold(streams[current], q, n, l)
  BY <1>1, <1>2 DEF PatientInv, StreamInv, Fine, Complete
<1>7. received[q] \in Seq(Events) /\ backend \in {"memory", "redis"}
  BY DEF TypeInv, TypeOK
<1> HIDE DEF e, n, l
<1>8. ASSUME backend = "memory"
      PROVE  /\ Told(received'[q], q, n, l) /\ current \in {0, k}
             /\ Told(received'[q] \o streams'[k], q, n, l)
             /\ current # 0 => AllTold(received'[q] \o streams'[current], q, n, l)
  <2>1. k = reader[q].stream /\ m = 0 /\ e = streams[k][1]
    BY <1>6, <1>8 DEF Reads, Position, e
  <2>2. /\ Append(received[q], e) \o Tail(streams[k]) = received[q] \o streams[k]
        /\ Tail(streams[k]) \in Seq(Events) /\ Append(received[q], e) \in Seq(Events)
    <3> DEFINE s == streams[k]
    <3>1. s \in Seq(Events) /\ Len(s) > 0 /\ e = s[1]
      BY <1>3, <2>1
    <3> HIDE DEF s
    <3>2. /\ Append(received[q], s[1]) \o Tail(s) = received[q] \o s
          /\ Tail(s) \in Seq(Events)
      BY <1>7, <3>1, HeadOver
    <3>3. Append(received[q], e) \in Seq(Events)
      BY <1>3, <1>7
    <3> QED
      BY <3>1, <3>2, <3>3 DEF s
  <2>3. Told(received'[q] \o streams'[k], q, n, l)
    BY <1>4, <1>6, <1>8, <2>1, <2>2
  <2>4. Told(received'[q], q, n, l)
    <3>1. Told(Append(received[q], e) \o Tail(streams[k]), q, n, l)
      BY <1>6, <1>8, <2>1, <2>2
    <3>2. Told(Append(received[q], e), q, n, l)
      BY <2>2, <3>1, ToldBeginning
    <3> QED
      BY <1>4, <3>2
  <2>5. current # 0 => AllTold(received'[q] \o streams'[current], q, n, l)
    BY <1>4, <1>6, <1>8, <2>1, <2>2
  <2> QED
    BY <1>6, <1>8, <2>1, <2>3, <2>4, <2>5
<1>9. ASSUME backend = "redis"
      PROVE  /\ Told(received'[q], q, n, l) /\ current = k /\ m + 1 <= Len(streams[k])
             /\ received'[q] = SubSeq(streams[k], 1, m + 1)
             /\ AllTold(streams[k], q, n, l)
  <2>1. k = current /\ current = reader[q].stream /\ m = reader[q].position
    BY <1>6, <1>9 DEF Reads, Position
  <2>2. received[q] = SubSeq(streams[k], 1, m) /\ AllTold(streams[k], q, n, l)
    BY <1>6, <1>9, <2>1
  <2>3. m \in Nat /\ m < Len(streams[k]) /\ m + 1 \in 0 .. Len(streams[k])
    BY <1>3
  <2>4. received'[q] = SubSeq(streams[k], 1, m + 1)
    <3>1. Append(SubSeq(streams[k], 1, m), streams[k][m + 1]) = SubSeq(streams[k], 1, m + 1)
      BY <1>3, <2>3, OneMoreRead
    <3> QED
      BY <1>4, <2>2, <3>1 DEF e
  <2>5. Told(received'[q], q, n, l)
    BY <1>3, <2>2, <2>3, <2>4, ToldPrefix DEF AllTold
  <2> QED
    BY <1>9, <2>1, <2>2, <2>3, <2>4, <2>5
<1>10. /\ Told(received'[q], q, n, l) /\ current \in {0, k}
       /\ backend = "memory" => /\ Told(received'[q] \o streams'[k], q, n, l)
                                /\ current # 0 =>
                                    AllTold(received'[q] \o streams'[current], q, n, l)
       /\ backend = "redis" => /\ current = k /\ m + 1 <= Len(streams[k])
                               /\ received'[q] = SubSeq(streams[k], 1, m + 1)
                               /\ AllTold(streams[k], q, n, l)
  BY <1>7, <1>8, <1>9
<1>11. StreamInv(q)'
  <2>1. Fine(received[q], q)'
    BY <1>5, <1>10 DEF Fine
  <2>2. CASE e.kind \in Terminal
    BY <1>4, <2>1, <2>2 DEF StreamInv
  <2>3. CASE e.kind \notin Terminal
    <3>1. e.kind = "delta"
      BY <1>3, <2>3 DEF Events, Terminal
    <3>2. \A i \in DOMAIN received'[q] : received'[q][i].kind = "delta"
      <4>1. /\ DOMAIN received'[q] = 1 .. Len(received[q]) + 1
            /\ DOMAIN received[q] = 1 .. Len(received[q])
            /\ received'[q][Len(received[q]) + 1] = e
            /\ \A i \in 1 .. Len(received[q]) : received'[q][i] = received[q][i]
            /\ Len(received[q]) \in Nat
        BY <1>3, <1>4, <1>7, AppendOne
      <4> QED
        BY <1>6, <3>1, <4>1
    <3>3. /\ reader'[q].state = "reading" /\ reader'[q].stream = k /\ k # 0
          /\ current' = current /\ backend' = backend
      BY <1>3, <1>4, <2>3 DEF ClientFrame
    <3>4. CASE backend = "memory"
      <4>1. reader'[q].position = 0
        BY <1>4, <3>4
      <4>2. Fine(received[q] \o streams[reader[q].stream], q)'
        BY <1>5, <1>10, <3>3, <3>4 DEF Fine
      <4>3. current # 0 => Complete(received[q] \o streams[current], q)'
        BY <1>5, <1>10, <3>3, <3>4 DEF Complete
      <4> QED
        BY <1>10, <2>1, <3>2, <3>3, <3>4, <4>1, <4>2, <4>3 DEF StreamInv
    <3>5. CASE backend = "redis"
      <4>1. reader'[q].position = m + 1 /\ streams' = streams
        BY <1>4, <3>5
      <4>2. Complete(streams[current], q)'
        BY <1>5, <1>10, <3>3, <3>5, <4>1 DEF Complete
      <4> QED
        BY <1>10, <2>1, <3>2, <3>3, <3>5, <4>1, <4>2 DEF StreamInv
    <3> QED
      BY <1>7, <3>4, <3>5
  <2> QED
    BY <2>2, <2>3
<1>12. ASSUME NEW p \in streamed \ {q} PROVE StreamInv(p)'
  <2>1. p \in Queries /\ ~Active(p)
    BY <1>2 DEF PatientInv, OneActive, TypeInv, TypeOK
  <2> QED
    BY <1>4, <2>1, OthersAreIdle, IdleStays DEF ClientFrame, PatientInv
<1>13. ~EndedForClient(q)
  BY <1>2 DEF Active
<1>14. EndedForClient(q)' => node[q] \in Ended
  <2>1. CASE received'[q] # <<>> /\ received'[q][Len(received'[q])].kind \in Terminal
    <3>1. Len(received'[q]) \in DOMAIN received'[q]
      BY <1>3, <1>4, <1>7
    <3> QED
      BY <1>10, <2>1, <3>1 DEF Told, Terminal, Ended, n
  <2>2. CASE ~(received'[q] # <<>> /\ received'[q][Len(received'[q])].kind \in Terminal)
    BY <1>1, <1>4, <2>2 DEF EndedForClient, ClientFrame
  <2> QED
    BY <2>1, <2>2
<1> QED
  BY <1>2, <1>4, <1>11, <1>12, <1>13, <1>14, ClientKeepsPatient

(* The client posts when every query before is over for it. *)
LEMMA PostKeepsPatient ==
    ASSUME Patient, TypeInv, AnswersInv, PatientInv, streamed' = streamed,
           NEW q \in Queries, Post(q)
    PROVE  PatientInv'
<1>1. /\ node[q] = "none" /\ node'[q] = "node_item_name_confirm"
      /\ \A p \in Queries \ {q} : node'[p] = node[p] /\ response'[p] = response[p]
      /\ UNCHANGED <<backend, result, reader, received, parts, found, answer>>
      /\ \A p \in Queries : ~Active(p)
  BY DEF Post, Goto, Active, TypeInv, TypeOK
<1>2. reader[q] = NoReader /\ response[q] = "none" /\ ResponseInv(q)
  BY <1>1 DEF PatientInv, ResponseInv
<1>3. /\ Stream(q) => /\ streams' = Append(streams, <<>>) /\ current' = Len(streams) + 1
                      /\ response'[q] = "accepted"
      /\ ~Stream(q) => UNCHANGED <<streams, current, response>>
  BY DEF Post, CreateStream, TypeInv, TypeOK
<1>4. \A p \in Queries \ {q} : EndedForClient(p)' <=> EndedForClient(p)
  BY <1>1 DEF EndedForClient
<1>5. ErrorInv'
  <2>1. result.error = NoQuery \/ (result.error \in Queries /\ node[result.error] = "failed")
    BY DEF PatientInv, ErrorInv, TypeInv, TypeOK
  <2> QED
    BY <1>1, <2>1 DEF ErrorInv
<1>6. OneActive'
  BY <1>1, <1>4 DEF OneActive, Active
<1>7. ~EndedForClient(q)'
  <2>1. Stream(q) => received[q] = <<>>
    BY <1>2 DEF PatientInv, StreamInv, NoReader, Stream
  <2>2. ~Stream(q) => received[q] = <<>>
    BY <1>2 DEF ResponseInv
  <2>3. response'[q] \in {"none", "accepted"}
    BY <1>2, <1>3
  <2> QED
    BY <1>1, <1>2, <2>1, <2>2, <2>3 DEF EndedForClient, NoReader
<1>8. EndsOnce'
  BY <1>1, <1>4, <1>7 DEF EndsOnce, PatientInv
<1>9. ASSUME NEW p \in Queries PROVE ResponseInv(p)'
  <2>1. ResponseInv(p)
    BY DEF PatientInv
  <2>2. CASE p = q
    BY <1>1, <1>2, <1>3, <2>1, <2>2, QueriesAssumption DEF ResponseInv, Stream
  <2>3. CASE p # q
    BY <1>1, <2>1, <2>3 DEF ResponseInv, Stream
  <2> QED
    BY <2>2, <2>3
<1>10. ASSUME NEW p \in streamed, p # q PROVE StreamInv(p)'
  <2>1. Idle(p) /\ p \in Queries
    BY <1>1, OthersAreIdle DEF TypeInv, TypeOK
  <2> QED
    BY <1>1, <1>10, <2>1, IdleStays DEF PatientInv
<1>11. ASSUME q \in streamed PROVE StreamInv(q)'
  <2>1. received[q] = <<>>
    BY <1>2, <1>11 DEF PatientInv, StreamInv, NoReader
  <2>2. Pushed(q)' = 0
    <3>1. AnswerInv(q)
      BY AnswersParts DEF TypeInv
    <3>2. answer[q].text = "none" /\ parts[q] = 0
      BY <1>1, <3>1 DEF AnswerInv, NoAnswer, TypeInv, TypeOK
    <3> QED
      BY <1>1, <3>2 DEF Pushed, Preset
  <2>3. current' # 0 /\ streams'[current'] = <<>>
    BY <1>3, <1>11 DEF Stream, TypeInv, TypeOK
  <2>4. \A n : Told(<<>>, q, n, 0) /\ AllTold(<<>>, q, n, 0)
    BY ToldNothing DEF AllTold
  <2> QED
    BY <1>1, <1>2, <2>1, <2>2, <2>3, <2>4 DEF StreamInv, Fine, Complete, NoReader
<1> QED
  BY <1>5, <1>6, <1>8, <1>9, <1>10, <1>11 DEF PatientInv

LEMMA PatientStays ==
    ASSUME UNCHANGED <<sessions, streamed, graph>>, PatientInv PROVE PatientInv'
<1>1. UNCHANGED <<backend, result, streams, current, reader, received, response,
                  streamed, node, parts, found, answer>>
  BY DEF sessions, graph
<1>2. ErrorInv' /\ OneActive' /\ EndsOnce'
  BY <1>1 DEF PatientInv, ErrorInv, OneActive, EndsOnce, Active, EndedForClient
<1>3. \A q \in Queries : ResponseInv(q)'
  BY <1>1 DEF PatientInv, ResponseInv, Stream
<1>4. ASSUME NEW q \in streamed PROVE StreamInv(q)'
  <2>1. StreamInv(q)
    BY DEF PatientInv
  <2> QED
    BY <1>1, <2>1 DEF StreamInv, Fine, Complete, Pushed
<1> QED
  BY <1>1, <1>2, <1>3, <1>4 DEF PatientInv

LEMMA PatientStep ==
    ASSUME Patient, TypeInv, AnswersInv, PatientInv, [Next]_vars PROVE PatientInv'
<1>1. CASE Next
  <2>1. streamed' = streamed
    BY <1>1 DEF Next
  <2>2. ASSUME NEW q \in Queries, ByClient(q) PROVE PatientInv'
    <3>1. Serve(q) => (Read(q) \/ Close(q)) /\ UNCHANGED graph
      BY DEF Serve
    <3> QED
      BY <2>1, <2>2, <3>1, PostKeepsPatient, OpenKeepsPatient, ReadKeepsPatient,
         CloseKeepsPatient, LeaveKeepsPatient DEF ByClient
  <2>3. ASSUME NEW q \in Queries, Run(q) PROVE PatientInv'
    BY <2>1, <2>3, RunKeepsPatient
  <2>4. ASSUME ClearHistory PROVE PatientInv'
    BY <2>1, <2>4, PatientStays DEF ClearHistory
  <2> QED
    BY <1>1, <2>2, <2>3, <2>4, Steps
<1>2. CASE UNCHANGED vars
  BY <1>2, PatientStays DEF vars
<1> QED
  BY <1>1, <1>2

(* A client that waits for the end of each answer before it asks again     *)
(* gets its own answer, whole, as a stream or in the response: whichever   *)
(* task store is used, wherever a run fails, and though the session is the *)
(* key of the results and of the stream. *)
THEOREM AnswersAreOwn == Spec => []OwnAnswer
<1> DEFINE Inv == Patient => PatientInv
<1>1. Init => Inv
  <2> SUFFICES ASSUME Init PROVE PatientInv
    OBVIOUS
  <2>1. /\ result.error = NoQuery
        /\ \A q \in Queries : /\ node[q] = "none" /\ reader[q] = NoReader
                              /\ received[q] = <<>> /\ response[q] = "none"
    BY DEF Init, SessionsInit
  <2>2. ErrorInv /\ OneActive
    BY <2>1 DEF ErrorInv, OneActive, Active
  <2>3. EndsOnce
    BY <2>1 DEF EndsOnce, EndedForClient
  <2>4. \A q \in Queries : ResponseInv(q)
    BY <2>1, QueriesAssumption DEF ResponseInv, Ended
  <2>5. streamed \subseteq Queries
    BY DEF Init
  <2>6. \A q \in streamed : StreamInv(q)
    <3>1. ASSUME NEW q \in streamed PROVE StreamInv(q)
      <4>1. reader[q].state = "none" /\ received[q] = <<>> /\ node[q] = "none"
        BY <2>1, <2>5 DEF NoReader
      <4>2. Fine(received[q], q)
        BY <4>1, ToldNothing DEF Fine
      <4> QED
        BY <4>1, <4>2 DEF StreamInv
    <3> QED
      BY <3>1
  <2> QED
    BY <2>2, <2>3, <2>4, <2>6 DEF PatientInv
<1>2. TypeInv /\ AnswersInv /\ Inv /\ [Next]_vars => Inv'
  BY PatientStep
<1>3. TypeInv /\ Inv => OwnAnswer
  <2> SUFFICES ASSUME Patient, TypeInv, PatientInv PROVE OwnAnswer
    BY DEF OwnAnswer, WholeStream, OwnResponse
  <2>1. ASSUME NEW q \in streamed, received[q] # <<>>
        PROVE  LET last == received[q][Len(received[q])]
               IN  /\ \A i \in DOMAIN received[q] :
                       /\ received[q][i].of = q
                       /\ i < Len(received[q]) => received[q][i].kind = "delta"
                   /\ last.kind = "final" =>
                       Len(received[q]) - 1 =
                           IF answer[q].text \in {Preset, "no_evidence"} THEN 1 ELSE parts[q]
    <3>1. Told(received[q], q, node[q], Pushed(q))
      BY DEF PatientInv, StreamInv, Fine
    <3>2. q \in Queries /\ received[q] \in Seq(Events) /\ parts[q] \in Nat
      BY DEF TypeInv, TypeOK
    <3>3. Len(received[q]) \in DOMAIN received[q] /\ Len(received[q]) \in Nat
      BY <2>1, <3>2
    <3>4. received[q][Len(received[q])].kind = "final" =>
            node[q] = "done" /\ Len(received[q]) = Pushed(q) + 1
      BY <3>1, <3>3 DEF Told
    <3>5. node[q] = "done" =>
            Pushed(q) = IF answer[q].text \in {Preset, "no_evidence"} THEN 1 ELSE parts[q]
      BY DEF Pushed
    <3>6. \A i \in DOMAIN received[q] :
            /\ received[q][i].of = q
            /\ i < Len(received[q]) => received[q][i].kind = "delta"
      BY <3>1 DEF Told
    <3> DEFINE x == IF answer[q].text \in {Preset, "no_evidence"} THEN 1 ELSE parts[q]
    <3>7. x \in Nat
      BY <3>2
    <3> HIDE DEF x
    <3>8. received[q][Len(received[q])].kind = "final" => Len(received[q]) - 1 = x
      BY <3>3, <3>4, <3>5, <3>7 DEF x
    <3> QED
      BY <3>6, <3>8 DEF x
  <2>2. WholeStream
    BY <2>1 DEF WholeStream
  <2>3. OwnResponse
    <3>1. ASSUME NEW q \in Queries, response[q] = "error"
          PROVE  \E p \in Queries : node[p] = "failed"
      <4>1. result.error # NoQuery
        BY <3>1 DEF PatientInv, ResponseInv
      <4>2. result.error \in Queries
        BY <4>1 DEF TypeInv, TypeOK
      <4> QED
        BY <4>1, <4>2 DEF PatientInv, ErrorInv
    <3> QED
      BY <3>1 DEF OwnResponse, PatientInv, ResponseInv
  <2> QED
    BY <2>2, <2>3 DEF OwnAnswer
<1> HIDE DEF Inv
<1> QED
  BY <1>1, <1>2, <1>3, AnswersHold, PTL DEF Spec

(***************************************************************************)
(* The gateway to the language models, for any callers, any models and     *)
(* fallbacks, and any number of failures that opens a circuit.             *)
(***************************************************************************)
CircuitStates == {"closed", "open", "due"}
Outcomes == {"none", "trying", "answer", "error"}

Circuit == [failures : 0 .. CircuitFailures, state : CircuitStates]
CallState == [stream : BOOLEAN, left : Seq(ModelSet), model : ModelSet \cup {NoModel},
              chunks : 0 .. MaxParts, writer : ModelSet \cup {NoModel}, outcome : Outcomes]

GatewayTypes ==
    /\ circuits \in [ModelSet -> Circuit]
    /\ calls \in [Callers -> CallState]
    /\ streak \in [ModelSet -> 0 .. CircuitFailures]

(* The count of a circuit is never behind the failures it stands for: an   *)
(* outcome that comes late, after others opened the circuit or it was due, *)
(* does not close it again.                                                *)
Counted(m) ==
    /\ streak[m] <= circuits[m].failures
    /\ circuits[m].state = "closed" => circuits[m].failures < CircuitFailures
    /\ circuits[m].state = "open" => circuits[m].failures = CircuitFailures
    /\ circuits[m].state = "due" => streak[m] = 0 /\ circuits[m].failures = CircuitFailures

CircuitInv == \A m \in ModelSet : Counted(m)

(* Once a part of the answer is out, only the model that wrote it is tried.*)
WriterInv == \A c \in Callers :
    /\ calls[c].chunks = 0 => calls[c].writer = NoModel
    /\ Calling(c) /\ calls[c].chunks > 0 => /\ calls[c].model = calls[c].writer
                                            /\ Trying(c)

GatewayInv == GatewayTypes /\ CircuitInv /\ WriterInv

----------------------------------------------------------------------------
LEMMA ModelsAreModels == NoModel \notin ModelSet /\ Models \in Seq(ModelSet)
BY GatewayAssumption DEF ModelSet, NoModel

LEMMA GatewayInvInit == GatewayInit => GatewayInv
BY ModelsAreModels, GatewayAssumption
DEF GatewayInit, GatewayInv, GatewayTypes, Circuit, CallState, CircuitInv, Counted, WriterInv,
    NoCall, CircuitStates, Outcomes, Calling

LEMMA CappedType == \A n \in 0 .. CircuitFailures :
    Capped(n + 1) \in 0 .. CircuitFailures /\ Capped(n + 1) \in {n, n + 1}
BY GatewayAssumption DEF Capped

(* What the steps of a call make of it. *)
LEMMA CallStates ==
    ASSUME NEW r \in CallState
    PROVE  /\ \A o \in Outcomes : [r EXCEPT !.outcome = o] \in CallState
           /\ \A m \in ModelSet \cup {NoModel} : [r EXCEPT !.model = m] \in CallState
           /\ \A m \in ModelSet \cup {NoModel}, s \in Seq(ModelSet) :
                [r EXCEPT !.left = s, !.model = m] \in CallState
           /\ \A m \in ModelSet, n \in 0 .. MaxParts :
                [r EXCEPT !.chunks = n, !.writer = m] \in CallState
BY DEF CallState

LEMMA GatewayTypesKept == GatewayTypes /\ GatewayNext => GatewayTypes'
<1> SUFFICES ASSUME GatewayTypes, GatewayNext PROVE GatewayTypes'
  OBVIOUS
<1> USE DEF GatewayTypes
<1>1. ASSUME NEW c \in Callers, StartCall(c) PROVE GatewayTypes'
  <2>1. \A stream \in BOOLEAN :
            [NoCall EXCEPT !.stream = stream, !.left = Models, !.outcome = "trying"] \in CallState
    <3>1. NoCall \in CallState
      BY GatewayAssumption DEF NoCall, CallState, Outcomes
    <3> QED
      BY <3>1, ModelsAreModels DEF CallState, Outcomes
  <2> QED
    BY <1>1, <2>1 DEF StartCall
<1>2. ASSUME NEW c \in Callers, TryModel(c) PROVE GatewayTypes'
  <2>1. calls[c].left \in Seq(ModelSet) /\ calls[c].left # <<>>
    BY <1>2 DEF TryModel, CallState
  <2>2. Head(calls[c].left) \in ModelSet /\ Tail(calls[c].left) \in Seq(ModelSet)
    BY <2>1
  <2>3. [failures |-> 0, state |-> "closed"] \in Circuit
    BY GatewayAssumption DEF Circuit, CircuitStates
  <2> QED
    BY <1>2, <2>2, <2>3, CallStates DEF TryModel
<1>3. ASSUME NEW c \in Callers, NoneLeft(c) PROVE GatewayTypes'
  BY <1>3, CallStates DEF NoneLeft, Outcomes
<1>4. ASSUME NEW c \in Callers, ModelEmits(c) PROVE GatewayTypes'
  <2>1. calls[c].chunks + 1 \in 0 .. MaxParts /\ calls[c].model \in ModelSet
    BY <1>4, GatewayAssumption DEF ModelEmits, Trying, CallState
  <2> QED
    BY <1>4, <2>1, CallStates DEF ModelEmits
<1>5. ASSUME NEW c \in Callers, ModelAnswers(c) PROVE GatewayTypes'
  <2>1. [failures |-> 0, state |-> "closed"] \in Circuit /\ 0 \in 0 .. CircuitFailures
    BY GatewayAssumption DEF Circuit, CircuitStates
  <2> QED
    BY <1>5, <2>1, CallStates DEF ModelAnswers, RecordSuccess, Outcomes
<1>6. ASSUME NEW c \in Callers, ModelFails(c) PROVE GatewayTypes'
  <2>1. calls[c].model \in ModelSet
    BY <1>6 DEF ModelFails, Trying, CallState
  <2>2. AfterFailure(c) \in CallState
    BY CallStates DEF AfterFailure, Outcomes
  <2>3. \A x \in Circuit : [failures |-> Capped(x.failures + 1),
            state |-> IF x.failures + 1 >= CircuitFailures THEN "open" ELSE x.state] \in Circuit
    BY CappedType DEF Circuit, CircuitStates
  <2> QED
    BY <1>6, <2>1, <2>2, <2>3, CappedType DEF ModelFails, RecordFailure
<1>7. ASSUME NEW m \in ModelSet, ResetDue(m) PROVE GatewayTypes'
  <2>1. \A x \in Circuit : [x EXCEPT !.state = "due"] \in Circuit
    BY DEF Circuit, CircuitStates
  <2> QED
    BY <1>7, <2>1, GatewayAssumption DEF ResetDue
<1> QED
  BY <1>1, <1>2, <1>3, <1>4, <1>5, <1>6, <1>7 DEF GatewayNext

(* What each step does to the call it is of, field by field. *)
OtherCalls(c) == \A b \in Callers \ {c} : calls'[b] = calls[b]
SameParts(c) == calls'[c].chunks = calls[c].chunks /\ calls'[c].writer = calls[c].writer

LEMMA StartEffect ==
    ASSUME GatewayTypes, NEW c \in Callers, StartCall(c)
    PROVE  /\ OtherCalls(c) /\ UNCHANGED <<circuits, streak>>
           /\ calls[c].outcome # "trying" /\ calls'[c].outcome = "trying"
           /\ calls'[c].chunks = 0 /\ calls'[c].writer = NoModel /\ calls'[c].model = NoModel
<1>1. PICK stream \in BOOLEAN : calls' = [calls EXCEPT ![c] =
          [NoCall EXCEPT !.stream = stream, !.left = Models, !.outcome = "trying"]]
  BY DEF StartCall
<1>2. calls'[c] = [NoCall EXCEPT !.stream = stream, !.left = Models, !.outcome = "trying"]
  BY <1>1 DEF GatewayTypes
<1>3. OtherCalls(c)
  BY <1>1 DEF GatewayTypes, OtherCalls
<1> QED
  BY <1>2, <1>3 DEF StartCall, NoCall, Calling

LEMMA TryEffect ==
    ASSUME GatewayTypes, NEW c \in Callers, TryModel(c)
    PROVE  /\ OtherCalls(c) /\ SameParts(c) /\ streak' = streak
           /\ calls[c].outcome = "trying" /\ calls'[c].outcome = "trying"
           /\ calls[c].model = NoModel
           /\ calls'[c].model # NoModel =>
                calls'[c].model = Head(calls[c].left) /\ Allows(calls'[c].model)
<1>1. calls'[c] = [calls[c] EXCEPT !.left = Tail(calls[c].left),
          !.model = IF Allows(Head(calls[c].left)) THEN Head(calls[c].left) ELSE NoModel]
  BY DEF TryModel, GatewayTypes, CallState
<1>2. OtherCalls(c)
  BY DEF TryModel, GatewayTypes, OtherCalls
<1> QED
  BY <1>1, <1>2 DEF TryModel, GatewayTypes, CallState, SameParts, Calling, Trying

LEMMA NoneLeftEffect ==
    ASSUME GatewayTypes, NEW c \in Callers, NoneLeft(c)
    PROVE  /\ OtherCalls(c) /\ SameParts(c) /\ UNCHANGED <<circuits, streak>>
           /\ calls[c].outcome = "trying" /\ calls'[c].outcome = "error"
           /\ calls'[c].model = calls[c].model
<1>1. calls'[c] = [calls[c] EXCEPT !.outcome = "error"]
  BY DEF NoneLeft, GatewayTypes
<1>2. OtherCalls(c)
  BY DEF NoneLeft, GatewayTypes, OtherCalls
<1> QED
  BY <1>1, <1>2 DEF NoneLeft, GatewayTypes, CallState, SameParts, Calling

LEMMA EmitEffect ==
    ASSUME GatewayTypes, NEW c \in Callers, ModelEmits(c)
    PROVE  /\ OtherCalls(c) /\ UNCHANGED <<circuits, streak>>
           /\ calls[c].outcome = "trying" /\ calls'[c].outcome = "trying"
           /\ calls[c].model \in ModelSet /\ calls'[c].model = calls[c].model
           /\ calls[c].chunks < MaxParts
           /\ calls'[c].chunks = calls[c].chunks + 1
           /\ calls'[c].writer = calls[c].model
<1>1. calls'[c] = [calls[c] EXCEPT !.chunks = calls[c].chunks + 1, !.writer = calls[c].model]
  BY DEF ModelEmits, GatewayTypes, CallState
<1>2. OtherCalls(c)
  BY DEF ModelEmits, GatewayTypes, OtherCalls
<1> QED
  BY <1>1, <1>2 DEF ModelEmits, GatewayTypes, CallState, Calling, Trying

LEMMA AnswerEffect ==
    ASSUME GatewayTypes, NEW c \in Callers, ModelAnswers(c)
    PROVE  /\ OtherCalls(c) /\ SameParts(c)
           /\ calls[c].outcome = "trying" /\ calls'[c].outcome = "answer"
           /\ calls'[c].model = calls[c].model
<1>1. calls'[c] = [calls[c] EXCEPT !.outcome = "answer"]
  BY DEF ModelAnswers, GatewayTypes
<1>2. OtherCalls(c)
  BY DEF ModelAnswers, GatewayTypes, OtherCalls
<1> QED
  BY <1>1, <1>2 DEF ModelAnswers, GatewayTypes, CallState, SameParts, Calling, Trying

LEMMA ModelFailEffect ==
    ASSUME GatewayTypes, NEW c \in Callers, ModelFails(c)
    PROVE  /\ OtherCalls(c) /\ SameParts(c) /\ calls[c].outcome = "trying"
           /\ \/ calls'[c].outcome = "error" /\ calls'[c].model = calls[c].model
              \/ /\ calls[c].chunks = 0
                 /\ calls'[c].outcome = "trying" /\ calls'[c].model = NoModel
<1>1. calls'[c] = AfterFailure(c)
  BY DEF ModelFails, GatewayTypes
<1>2. OtherCalls(c)
  BY DEF ModelFails, GatewayTypes, OtherCalls
<1>3. calls[c].outcome = "trying"
  BY DEF ModelFails, Trying, Calling
<1>4. calls[c] \in CallState
  BY DEF GatewayTypes
<1>5. CASE calls[c].chunks > 0
  BY <1>1, <1>2, <1>3, <1>4, <1>5 DEF AfterFailure, CallState, SameParts
<1>6. CASE ~(calls[c].chunks > 0)
  <2>1. calls[c].chunks = 0
    BY <1>4, <1>6, GatewayAssumption DEF CallState
  <2> QED
    BY <1>1, <1>2, <1>3, <1>4, <1>6, <2>1 DEF AfterFailure, CallState, SameParts
<1> QED
  BY <1>5, <1>6

LEMMA CircuitKept == GatewayTypes /\ CircuitInv /\ GatewayNext => CircuitInv'
<1> SUFFICES ASSUME GatewayTypes, CircuitInv, GatewayNext PROVE CircuitInv'
  OBVIOUS
<1> USE GatewayAssumption
<1>0. \A m \in ModelSet : circuits[m] \in Circuit /\ streak[m] \in 0 .. CircuitFailures
  BY DEF GatewayTypes
<1>1. CASE UNCHANGED <<circuits, streak>>
  BY <1>1 DEF CircuitInv, Counted
<1>2. ASSUME NEW m \in ModelSet,
             circuits' = [circuits EXCEPT ![m] = [failures |-> 0, state |-> "closed"]],
             streak' \in {streak, [streak EXCEPT ![m] = 0]}, streak'[m] = 0
      PROVE  CircuitInv'
  BY <1>2 DEF CircuitInv, Counted, GatewayTypes
<1>3. ASSUME NEW c \in Callers, TryModel(c) PROVE CircuitInv'
  <2> DEFINE m == Head(calls[c].left)
  <2>1. m \in ModelSet
    <3>1. calls[c].left \in Seq(ModelSet) /\ calls[c].left # <<>>
      BY <1>3 DEF TryModel, CallState, GatewayTypes
    <3> QED
      BY <3>1
  <2>2. CASE circuits[m].state = "due"
    BY <1>2, <1>3, <2>1, <2>2 DEF TryModel, CircuitInv, Counted
  <2>3. CASE circuits[m].state # "due"
    BY <1>1, <1>3, <2>3 DEF TryModel
  <2> QED
    BY <2>2, <2>3
<1>4. ASSUME NEW c \in Callers, ModelAnswers(c) PROVE CircuitInv'
  <2>1. calls[c].model \in ModelSet
    BY <1>4 DEF ModelAnswers, Trying, GatewayTypes, CallState
  <2>2. streak' = [streak EXCEPT ![calls[c].model] = 0]
    BY <1>4 DEF ModelAnswers
  <2>3. streak'[calls[c].model] = 0
    BY <2>1, <2>2 DEF GatewayTypes
  <2> QED
    BY <1>2, <1>4, <2>1, <2>2, <2>3 DEF ModelAnswers, RecordSuccess
<1>5. ASSUME NEW c \in Callers, ModelFails(c) PROVE CircuitInv'
  <2>1. PICK m \in ModelSet : m = calls[c].model
    BY <1>5 DEF ModelFails, Trying, GatewayTypes, CallState
  <2>2. /\ circuits'[m] = [failures |-> Capped(circuits[m].failures + 1),
            state |-> IF circuits[m].failures + 1 >= CircuitFailures
                      THEN "open" ELSE circuits[m].state]
        /\ streak'[m] = Capped(streak[m] + 1)
        /\ \A n \in ModelSet \ {m} : circuits'[n] = circuits[n] /\ streak'[n] = streak[n]
    BY <1>5, <2>1 DEF ModelFails, RecordFailure, GatewayTypes
  <2>3. streak[m] <= circuits[m].failures /\ streak[m] \in Nat /\ circuits[m].failures \in Nat
    BY <1>0 DEF CircuitInv, Counted, Circuit
  <2>4. Capped(streak[m] + 1) <= Capped(circuits[m].failures + 1)
    BY <2>3 DEF Capped
  <2>5. /\ circuits'[m].failures = Capped(circuits[m].failures + 1)
        /\ circuits'[m].state = IF circuits[m].failures + 1 >= CircuitFailures
                               THEN "open" ELSE circuits[m].state
    BY <2>2
  <2>6. Counted(m) /\ circuits[m].state \in CircuitStates /\ circuits[m].failures <= CircuitFailures
    BY <1>0, <2>1 DEF CircuitInv, Circuit
  <2>7. Counted(m)'
    <3>1. CASE circuits[m].failures + 1 >= CircuitFailures
      <4>1. circuits'[m].state = "open" /\ circuits'[m].failures = CircuitFailures
        BY <2>3, <2>5, <2>6, <3>1 DEF Capped
      <4> QED
        BY <2>2, <2>3, <2>4, <2>5, <4>1 DEF Counted
    <3>2. CASE ~(circuits[m].failures + 1 >= CircuitFailures)
      <4>1. circuits[m].state = "closed" /\ circuits'[m].state = "closed"
        BY <2>3, <2>5, <2>6, <3>2 DEF Counted, CircuitStates
      <4>2. circuits'[m].failures = circuits[m].failures + 1
        BY <2>3, <2>5, <3>2 DEF Capped
      <4> QED
        BY <2>2, <2>3, <2>4, <2>5, <3>2, <4>1, <4>2 DEF Counted
    <3> QED
      BY <3>1, <3>2
  <2>8. \A n \in ModelSet \ {m} : Counted(n)'
    BY <2>2 DEF CircuitInv, Counted
  <2> QED
    BY <2>7, <2>8 DEF CircuitInv
<1>6. ASSUME NEW n \in ModelSet, ResetDue(n) PROVE CircuitInv'
  <2>1. circuits'[n] = [circuits[n] EXCEPT !.state = "due"] /\ streak'[n] = 0
    BY <1>6 DEF ResetDue, GatewayTypes
  <2>2. \A m \in ModelSet \ {n} : circuits'[m] = circuits[m] /\ streak'[m] = streak[m]
    BY <1>6 DEF ResetDue, GatewayTypes
  <2>3. circuits'[n].state = "due" /\ circuits'[n].failures = circuits[n].failures
    BY <1>0, <2>1 DEF Circuit
  <2>4. circuits[n].failures = CircuitFailures
    BY <1>6 DEF ResetDue, CircuitInv, Counted
  <2>5. Counted(n)'
    BY <2>1, <2>3, <2>4 DEF Counted
  <2>6. \A m \in ModelSet \ {n} : Counted(m)'
    BY <2>2 DEF CircuitInv, Counted
  <2> QED
    BY <2>5, <2>6 DEF CircuitInv
<1> QED
  BY <1>1, <1>3, <1>4, <1>5, <1>6 DEF GatewayNext, StartCall, NoneLeft, ModelEmits

LEMMA WriterKept == GatewayTypes /\ WriterInv /\ GatewayNext => WriterInv'
<1> SUFFICES ASSUME GatewayTypes, WriterInv, GatewayNext PROVE WriterInv'
  OBVIOUS
<1>0. \A c \in Callers : calls[c].chunks \in Nat
  BY GatewayAssumption DEF GatewayTypes, CallState
<1> USE ModelsAreModels, <1>0 DEF WriterInv, Calling, Trying, OtherCalls, SameParts
<1>1. ASSUME NEW c \in Callers, StartCall(c) PROVE WriterInv'
  BY <1>1, StartEffect
<1>2. ASSUME NEW c \in Callers, TryModel(c) PROVE WriterInv'
  BY <1>2, TryEffect
<1>3. ASSUME NEW c \in Callers, NoneLeft(c) PROVE WriterInv'
  BY <1>3, NoneLeftEffect
<1>4. ASSUME NEW c \in Callers, ModelEmits(c) PROVE WriterInv'
  BY <1>4, EmitEffect
<1>5. ASSUME NEW c \in Callers, ModelAnswers(c) PROVE WriterInv'
  BY <1>5, AnswerEffect
<1>6. ASSUME NEW c \in Callers, ModelFails(c) PROVE WriterInv'
  BY <1>6, ModelFailEffect
<1>7. ASSUME NEW m \in ModelSet, ResetDue(m) PROVE WriterInv'
  BY <1>7 DEF ResetDue
<1> QED
  BY <1>1, <1>2, <1>3, <1>4, <1>5, <1>6, <1>7 DEF GatewayNext

THEOREM GatewayCorrect == GatewaySpec => []GatewayInv
<1>1. GatewayInv /\ [GatewayNext]_gateway => GatewayInv'
  <2>1. CASE GatewayNext
    BY <2>1, GatewayTypesKept, CircuitKept, WriterKept DEF GatewayInv
  <2>2. CASE UNCHANGED gateway
    BY <2>2 DEF gateway, GatewayInv, GatewayTypes, CircuitInv, Counted, WriterInv, Calling,
                Trying
  <2> QED
    BY <2>1, <2>2
<1> QED
  BY <1>1, GatewayInvInit, PTL DEF GatewaySpec

----------------------------------------------------------------------------
(* A model that failed CircuitFailures times, with neither a success nor   *)
(* the time to reset between, is not called, whichever callers called it   *)
(* and however late their outcomes were recorded.                          *)
THEOREM OpenCircuitsProtect == GatewaySpec => BreakerProtects
<1> DEFINE Protects == \A m \in ModelSet :
        (\E c \in Callers : calls'[c].model = m /\ calls[c].model # m) =>
            streak[m] < CircuitFailures
<1>1. GatewayInv /\ [GatewayNext]_gateway => [Protects]_gateway
  <2> SUFFICES ASSUME GatewayInv, GatewayNext, NEW m \in ModelSet, NEW c \in Callers,
                      calls'[c].model = m, calls[c].model # m
               PROVE  streak[m] < CircuitFailures
    OBVIOUS
  <2>1. TryModel(c)
    <3> USE ModelsAreModels DEF GatewayInv, OtherCalls
    <3>1. ASSUME NEW b \in Callers, ~TryModel(b),
                 StartCall(b) \/ NoneLeft(b) \/ ModelEmits(b) \/ ModelAnswers(b) \/ ModelFails(b)
          PROVE  FALSE
      BY <3>1, StartEffect, NoneLeftEffect, EmitEffect, AnswerEffect, ModelFailEffect
    <3>2. ASSUME NEW n \in ModelSet, ResetDue(n) PROVE FALSE
      BY <3>2 DEF ResetDue
    <3>3. ASSUME NEW b \in Callers, TryModel(b), b # c PROVE FALSE
      BY <3>3, TryEffect
    <3> QED
      BY <3>1, <3>2, <3>3 DEF GatewayNext
  <2>2. Allows(m)
    BY <2>1, TryEffect, ModelsAreModels DEF GatewayInv
  <2>3. circuits[m].failures \in Nat /\ streak[m] \in Nat /\ circuits[m].state \in CircuitStates
    BY GatewayAssumption DEF GatewayInv, GatewayTypes, Circuit
  <2> QED
    BY <2>2, <2>3, GatewayAssumption DEF Allows, GatewayInv, CircuitInv, Counted, CircuitStates
<1> QED
  BY <1>1, GatewayCorrect, PTL DEF GatewaySpec, BreakerProtects

(* The gateway implements the abstract call: it ends once, and the parts   *)
(* of an answer are one model's.                                           *)
THEOREM GatewayImplementsCall == GatewaySpec => ImplementsCall
<1>1. GatewayInit => Call!Init
  BY DEF GatewayInit, Call!Init, NoCall
<1>2. GatewayInv /\ [GatewayNext]_gateway => [Call!Next]_(Call!vars)
  <2> SUFFICES ASSUME GatewayInv, [GatewayNext]_gateway PROVE [Call!Next]_(Call!vars)
    OBVIOUS
  <2> USE DEF OtherCalls, SameParts
  <2>0. GatewayTypes /\ WriterInv
    BY DEF GatewayInv
  <2>1. ASSUME NEW c \in Callers, StartCall(c) PROVE Call!Start(c)
    BY <2>0, <2>1, StartEffect DEF Call!Start
  <2>2. ASSUME NEW c \in Callers, TryModel(c) PROVE UNCHANGED Call!vars
    BY <2>0, <2>2, TryEffect DEF Call!vars
  <2>3. ASSUME NEW c \in Callers, NoneLeft(c) PROVE Call!End(c, "error")
    BY <2>0, <2>3, NoneLeftEffect DEF Call!End
  <2>4. ASSUME NEW c \in Callers, ModelEmits(c) PROVE \E m \in ModelSet : Call!Part(c, m)
    <3>1. calls[c].writer \in {NoModel, calls[c].model}
      <4>1. calls[c].chunks \in Nat /\ calls[c].outcome = "trying"
        BY <2>0, <2>4, EmitEffect, GatewayAssumption DEF GatewayTypes, CallState
      <4> QED
        BY <2>0, <4>1 DEF WriterInv, Calling
    <3>2. /\ OtherCalls(c) /\ calls[c].model \in ModelSet
          /\ calls[c].outcome = "trying" /\ calls'[c].outcome = "trying"
          /\ calls[c].chunks < MaxParts /\ calls'[c].chunks = calls[c].chunks + 1
          /\ calls'[c].writer = calls[c].model
      BY <2>0, <2>4, EmitEffect
    <3>3. /\ [b \in Callers |-> calls'[b].outcome] = [b \in Callers |-> calls[b].outcome]
          /\ [b \in Callers |-> calls'[b].chunks] =
                [[b \in Callers |-> calls[b].chunks] EXCEPT ![c] = @ + 1]
          /\ [b \in Callers |-> calls'[b].writer] =
                [[b \in Callers |-> calls[b].writer] EXCEPT ![c] = calls[c].model]
      BY <3>2
    <3>4. Call!Part(c, calls[c].model)
      <4>1. /\ calls[c].outcome = "trying" /\ calls[c].chunks < MaxParts
            /\ calls[c].writer \in {NoModel, calls[c].model}
        BY <3>1, <3>2
      <4>2. /\ [b \in Callers |-> calls[b].outcome][c] = "trying"
            /\ [b \in Callers |-> calls[b].chunks][c] < MaxParts
            /\ [b \in Callers |-> calls[b].writer][c] \in {NoModel, calls[c].model}
        BY <4>1
      <4> QED
        BY <3>3, <4>2, Zenon DEF Call!Part
    <3>5. calls[c].model \in ModelSet
      BY <3>2
    <3> QED
      BY <3>4, <3>5, Zenon DEF Call!Part
  <2>5. ASSUME NEW c \in Callers, ModelAnswers(c) PROVE Call!End(c, "answer")
    BY <2>0, <2>5, AnswerEffect DEF Call!End
  <2>6. ASSUME NEW c \in Callers, ModelFails(c)
        PROVE  Call!End(c, "error") \/ UNCHANGED Call!vars
    <3>1. /\ OtherCalls(c) /\ SameParts(c) /\ calls[c].outcome = "trying"
          /\ calls'[c].outcome \in {"trying", "error"}
      BY <2>0, <2>6, ModelFailEffect
    <3>2. CASE calls'[c].outcome = "trying"
      BY <3>1, <3>2 DEF Call!vars
    <3>3. CASE calls'[c].outcome = "error"
      BY <3>1, <3>3 DEF Call!End
    <3> QED
      BY <3>1, <3>2, <3>3
  <2>7. ASSUME NEW m \in ModelSet, ResetDue(m) PROVE UNCHANGED Call!vars
    BY <2>7 DEF ResetDue, Call!vars
  <2>8. CASE UNCHANGED gateway
    BY <2>8 DEF gateway, Call!vars
  <2> QED
    BY <2>1, <2>2, <2>3, <2>4, <2>5, <2>6, <2>7, <2>8 DEF GatewayNext, Call!Next
<1> QED
  BY <1>1, <1>2, GatewayCorrect, PTL DEF GatewaySpec, ImplementsCall, Call!Spec
=============================================================================
