\* An older version is activated, and a new one is uploaded.
\* The system stops once nobody asks for anything.
SPECIFICATION Spec
CONSTANTS
    Tasks = {t1, t2, t3}
    Contents = {c1, c2}
    None = None
    Parallel = 1
    MinIO = FALSE
    Requests = {"activate"}
    Faults = {}
    MaxFailures = 0
INVARIANT NextVersionIsFree
SYMMETRY Symmetry
CHECK_DEADLOCK FALSE
