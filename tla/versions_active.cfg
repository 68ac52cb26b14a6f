\* Two runners: every request of an administrator; fewer tasks with every fault.
\* The system stops once nobody asks for anything.
SPECIFICATION MCSpec
CONSTANTS
    Tasks = {t1, t2, t3}
    Contents = {c1, c2}
    None = None
    Parallel = 2
    MinIO = FALSE
    Requests = {"rebuild", "activate", "delete"}
    Faults = {}
    MaxFailures = 0
    FewTasks = {u1, u2}
    FewFaults = {"upload", "disk"}
    FewFailures = 1
INVARIANT ActiveIsCurrent
SYMMETRY Symmetry
CHECK_DEADLOCK FALSE
