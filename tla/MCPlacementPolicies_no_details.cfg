CONSTANTS
    None = None
    Nodes <- PNodes
    PowerManaged <- PNodes
    NodesetOf <- PNodesetOf
    PlacementEnabled = {"a", "b"}
    InvalidFamily = {}
    PartitionNodesets <- PPartitions
    JobIds = {1, 2}
    PLACEMENT_MAX_CNT = 2
    BULK_INSERT_LIMIT = 2
    Procs = {p1}
    Invocations <- WholeJob1
    CreateFailures = {"noDetails"}
    OpMayFail = FALSE
SPECIFICATION Spec
CHECK_DEADLOCK FALSE
PROPERTY RedundantMeansExists
