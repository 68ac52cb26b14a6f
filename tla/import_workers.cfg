\* One worker with every request and fault; two workers that are lost up to twice.
\* The system stops once nobody asks for anything.
SPECIFICATION MCSpec
CONSTANTS
    Workers = {p1, p2}
    Nodes = 2
    MaxRetries = 2
    TaskQueue = TRUE
    Requests = {}
    Faults = {"crash"}
    MaxFaults = 2
    MaxRequests = 0
    MaxErrors = 4
    StagingWorkers = {w1}
    StagingRetries = 1
    StagingRequests = 2
INVARIANT CompletedIsIndexed
 
 
PROPERTY PairTasksEnd
CHECK_DEADLOCK FALSE
