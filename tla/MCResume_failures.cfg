\* One invocation under every provider failure: failed dispatches, failed
\* and partial bulkInsert operations, failed policy creation, TPU errors.
CONSTANTS
    None = None
    Nodes <- FNodes
    PowerManaged = {1, 2, 3}
    NodesetOf <- FNodesetOf
    TpuNodesets = {"t"}
    PlacementEnabled = {"a"}
    InvalidFamily = {}
    VmCount <- FVmCount
    PreserveTpu = {"t"}
    PartitionNodesets <- FPartitions
    TpuPartitions = {"pt"}
    JobIds = {1, 2}
    ResumeDataChoices <- ResumeFiles
    DispatchOutcomes = {"started", "httpError", "otherError"}
    ErrorCodes = {"QUOTA_EXCEEDED", "RESOURCE_ALREADY_EXISTS"}
    PlacementRequestFails = TRUE
    TpuPodsBefore = {{}, {3}}
    PLACEMENT_MAX_CNT = 2
    BULK_INSERT_LIMIT = 2
SPECIFICATION Spec
PROPERTY ImplementsAbstract
