--------------------------- MODULE RequestLimits ---------------------------
(***************************************************************************)
(* The three limiters of calls over time, as functions of the times at     *)
(* which a caller arrives: the limiter of model calls, which waits, and    *)
(* the limiter of API requests, which refuses, with its window in memory   *)
(* or its counter in Redis.  Arrivals are given by the gaps between them.  *)
(***************************************************************************)
EXTENDS Integers, Sequences, FiniteSets, SequencesExt

CONSTANTS
    MaxCalls,   \* max_requests, rate_limit_requests
    Window      \* window_seconds, rate_limit_window_seconds

ASSUME LimitsAssumption == MaxCalls \in Nat \ {0} /\ Window \in Nat \ {0}

Times(gaps) == FoldLeft(LAMBDA times, gap :
                            Append(times, gap + (IF times = <<>> THEN 0 ELSE Last(times))),
                        <<>>, gaps)

(* The queue from its first time that is still in the window. *)
Recent(queue, now) ==
    LET kept == {i \in DOMAIN queue : now - queue[i] < Window}
    IN  IF kept = {} THEN <<>>
        ELSE SubSeq(queue, CHOOSE i \in kept : \A j \in kept : i <= j, Len(queue))

\* mutant: the time is not read again after the sleep
PacedStale(state, gap) ==
    LET now == state.clock + gap
        queue == Recent(state.queue, now)
        start == IF Len(queue) >= MaxCalls THEN Head(queue) + Window ELSE now
    IN  [clock |-> start, queue |-> Append(Recent(queue, start), now),
         calls |-> Append(state.calls, start)]

(* apply_api_rate_limit: with a full window the caller sleeps until the    *)
(* oldest call leaves it.  A call follows the return of the one before.    *)
Paced(state, gap) ==
    LET now == state.clock + gap
        queue == Recent(state.queue, now)
        start == IF Len(queue) >= MaxCalls THEN Head(queue) + Window ELSE now
    IN  [clock |-> start, queue |-> Append(Recent(queue, start), start),
         calls |-> Append(state.calls, start)]

PacedCalls(gaps) ==
    FoldLeft(Paced, [clock |-> 0, queue |-> <<>>, calls |-> <<>>], gaps).calls

(* _memory_limited: a request that finds the window full is refused, and   *)
(* leaves no trace.                                                        *)
Admit(state, now) ==
    LET queue == Recent(state.queue, now)
    IN  IF Len(queue) >= MaxCalls THEN [state EXCEPT !.queue = queue]
        ELSE [queue |-> Append(queue, now), admitted |-> Append(state.admitted, now)]

MemoryAdmitted(gaps) ==
    FoldLeft(Admit, [queue |-> <<>>, admitted |-> <<>>], Times(gaps)).admitted

(* dispatch with Redis: a counter for each window of the clock, refused    *)
(* requests counted too.                                                   *)
Counter(times, i) ==
    Cardinality({j \in 1 .. i : times[j] \div Window = times[i] \div Window})

RedisAdmitted(gaps) ==
    LET times == Times(gaps)
    IN  FoldLeft(LAMBDA kept, i :
                    IF Counter(times, i) <= MaxCalls THEN Append(kept, times[i]) ELSE kept,
                 <<>>, [i \in DOMAIN times |-> i])

----------------------------------------------------------------------------
(* Of the calls that went through at most n lie in any span of one window. *)
AtMostIn(calls, n) ==
    \A i \in DOMAIN calls : i + n \in DOMAIN calls => calls[i + n] - calls[i] >= Window

(* The waiting and the refusing limiter keep their promise at every moment.*)
WindowsRespected(gaps) ==
    /\ AtMostIn(PacedCalls(gaps), MaxCalls)
    /\ AtMostIn(MemoryAdmitted(gaps), MaxCalls)

(* The waiting limiter serves every call, in order, and delays none while  *)
(* its window has room.                                                    *)
NothingDropped(gaps) ==
    LET calls == PacedCalls(gaps)
    IN  /\ Len(calls) = Len(gaps)
        /\ \A i \in 2 .. Len(gaps) :
            /\ calls[i] >= calls[i - 1] + gaps[i]
            /\ calls[i] > calls[i - 1] + gaps[i] =>
                i > MaxCalls /\ calls[i] = calls[i - MaxCalls] + Window

(* The counter in Redis is of windows of the clock: at the border of two   *)
(* of them it lets twice the limit through, and never more.                *)
TwiceAtTheBorder(gaps) == AtMostIn(RedisAdmitted(gaps), 2 * MaxCalls)
============================================================================
