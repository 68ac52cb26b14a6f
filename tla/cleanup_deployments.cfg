\* Celery with the default five attempts and four retries; background threads.
\* The system stops once nobody asks for anything.
SPECIFICATION MCSpec
CONSTANTS
    Workers = {w1}
    Handlers = {h1, h2}
    MaxAttempts = 5
    CeleryRetries = 4
    TaskQueue = TRUE
    Serializable = TRUE
    Faults = {"database", "crash", "api", "redelivery"}
    MaxFaults = 2
    MaxRequests = 2
    Threads = {b1, b2}
    ThreadFaults = {"database", "crash", "api", "audit"}
INVARIANT DeletedMeansClean
 
 
CHECK_DEADLOCK FALSE
