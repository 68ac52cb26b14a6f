\* A cancellation, then a retryable error of the same run.
\* The system stops once nobody asks for anything.
SPECIFICATION FairSpec
CONSTANTS
    Workers = {w1}
    Nodes = 2
    MaxRetries = 1
    TaskQueue = TRUE
    Requests = {"cancel"}
    Faults = {}
    MaxFaults = 0
    MaxRequests = 1
    MaxErrors = 1
PROPERTY PendingEnds
CHECK_DEADLOCK FALSE
