\* Grouping of every node list and every resume file over 7 nodes.
CONSTANTS
    None = None
    Nodes <- GNodes
    PowerManaged <- GNodes
    NodesetOf <- GNodesetOf
    TpuNodesets = {"t"}
    PlacementEnabled = {"a", "b"}
    InvalidFamily = {"b"}
    VmCount <- GVmCount
    PreserveTpu = {"t"}
    PartitionNodesets <- GPartitions
    TpuPartitions = {"pt"}
    JobIds = {1, 2}
    ResumeDataChoices <- ResumeFiles
    DispatchOutcomes = {"started"}
    ErrorCodes = {}
    PlacementRequestFails = FALSE
    TpuPodsBefore = {{}}
    PLACEMENT_MAX_CNT = 1
    BULK_INSERT_LIMIT = 2
SPECIFICATION Spec
ACTION_CONSTRAINT GroupingOnly
INVARIANT NoNodeLost
