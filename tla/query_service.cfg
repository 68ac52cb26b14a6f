\* Two queries of a session, one write of the history or one embedding call fails;
\* two callers of a model and its fallback.  The system stops once both queries have ended.
SPECIFICATION MCSpec
CONSTANTS
    Queries = {a, b}
    Patient = TRUE
    MaxChunks = 1
    MaxParts = 2
    Faults = {"history", "embedding"}
    MaxFaults = 1
    Callers = {c, d}
    primary = primary
    fallback = fallback
    Models <- TwoModels
    CircuitFailures = 2
 
INVARIANT HistoryKept
INVARIANT Grounded
 
PROPERTY BreakerProtects
PROPERTY ImplementsCall
CHECK_DEADLOCK FALSE
