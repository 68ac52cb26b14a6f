\* Two documents that may be about the same item, with retries and faults;
\* two imports in threads of one worker that upgrade the collection, and the script; the same in two processes.
SPECIFICATION MCSpec
CONSTANTS
    Docs = {d1, d2}
    Items = {i1}
    Images = {m1}
    Batches = 2
    MaxPolls = 1
    MaxRuns = 2
    Faults = {"mineru", "model", "minio", "milvus", "database"}
    MaxFaults = 2
    Imports = {p1, p2}
    Legacy = {r1, r2}
    OneProcess = TRUE
    Outages = {"milvus", "crash", "stop"}
    MaxOutages = 2
INVARIANT NameFound
INVARIANT LinksResolve
 
INVARIANT AliasVerified
PROPERTY ServedUntilReplaced
CHECK_DEADLOCK FALSE
