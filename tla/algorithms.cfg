\* Every algorithm over every bounded input.
\* Each behaviour ends with its output.
SPECIFICATION Spec
CONSTANTS
    MaxLength = 4
    MinLength = 3
    Inside = {}
    FusionK = 60
    MaxFused = 3
    TopN = 5
    MaxTop = 4
    MinTop = 2
    GapAbsolute = 5
    MaxCitations = 2
    MinScore = 20
    Budget = 12
    High = 85
    Mid = 60
    MaxOptions = 5
    MaxCalls = 2
    Window = 3
    MinApproved <- ApprovedMinimum
    TextLength = 5
    ListLength = 3
    ArrivalCount = 5
INVARIANT ChunksSound
 
INVARIANT RankingSound
INVARIANT EvidenceSound
INVARIANT ItemsAligned
INVARIANT LimitsKept
 
CHECK_DEADLOCK FALSE
