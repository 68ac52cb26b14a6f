\* Two Celery workers, two handlers, every kind of fault.
\* The system stops once nobody asks for anything.
SPECIFICATION Spec
CONSTANTS
    Workers = {w1, w2}
    Handlers = {h1, h2}
    MaxAttempts = 2
    CeleryRetries = 1
    TaskQueue = TRUE
    Serializable = TRUE
    Faults = {"audit", "database", "crash", "api", "redelivery"}
    MaxFaults = 2
    MaxRequests = 1
INVARIANT TypeOK
INVARIANT DeletedMeansClean
INVARIANT RowsAgree
INVARIANT SingleOwner
INVARIANT NoStageRepeated
SYMMETRY Symmetry
CHECK_DEADLOCK FALSE
