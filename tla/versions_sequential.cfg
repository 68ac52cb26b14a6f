\* One import at a time: uploads and activations; a deletion among all requests.
\* The system stops once nobody asks for anything.
SPECIFICATION MCSpec
CONSTANTS
    Tasks = {t1, t2, t3}
    Contents = {c1, c2}
    None = None
    Parallel = 1
    MinIO = TRUE
    Requests = {"activate"}
    Faults = {"upload"}
    MaxFailures = 1
    DeletedTasks = {t1, t2}
INVARIANT SequentialServesCurrent
INVARIANT SequentialServesRegistered
 
CHECK_DEADLOCK FALSE
