\* The worker is lost once, while it holds the event.
\* The system stops once nobody asks for anything.
SPECIFICATION OperatedSpec
CONSTANTS
    Workers = {w1}
    Handlers = {h1}
    MaxAttempts = 2
    CeleryRetries = 1
    TaskQueue = TRUE
    Serializable = TRUE
    Faults = {"crash"}
    MaxFaults = 1
    MaxRequests = 1
PROPERTY ProcessingEnds
CHECK_DEADLOCK FALSE
