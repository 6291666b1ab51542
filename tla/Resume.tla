------------------------------- MODULE Resume -------------------------------
(***************************************************************************)
(* One invocation of resume.py (the Slurm ResumeProgram of slurm-gcp v6):  *)
(* main() filters the node list, group_nodes_bulk() partitions it into     *)
(* bulk chunks (creating placement policies on the way), resume_nodes()    *)
(* dispatches one bulkInsert per conventional chunk concurrently,          *)
(* quarantines the chunks whose dispatch raised, waits for every started   *)
(* operation, then starts the TPU chunks, then reconciles the per-instance *)
(* insert operations of every started chunk.                               *)
(*                                                                         *)
(* Nodes are integers (hostnames sort as their indices); the prefix of a   *)
(* node is its nodeset (node names are <cluster>-<nodeset>-<index>).       *)
(* The provider (GCE, TPU API) is the environment: its answers are chosen  *)
(* with \E from the sets the cfg allows.                                   *)
(***************************************************************************)
EXTENDS Integers, FiniteSets, Sequences, SequencesExt, Functions

CONSTANTS
    None,               \* Python None (model value)
    Nodes,              \* all node names of the cluster (integers)
    PowerManaged,       \* lookup().is_power_managed_node
    NodesetOf,          \* lookup().node_nodeset_name, Nodes -> nodeset
    TpuNodesets,        \* nodesets whose nodes are TPU (lookup().node_is_tpu)
    PlacementEnabled,   \* nodesets with enable_placement
    InvalidFamily,      \* nodesets whose machine type is in invalid_types
    VmCount,            \* util.TPU(nodeset).vmcount, TpuNodesets -> Nat
    PreserveTpu,        \* TPU nodesets with preserve_tpu
    PartitionNodesets,  \* partition -> the nodesets it contains
    TpuPartitions,      \* lookup().partition_is_tpu
    JobIds,
    ResumeDataChoices,  \* the contents SLURM_RESUME_FILE may have, or None
    DispatchOutcomes,   \* what ensure_execute(bulkInsert) may return
    ErrorCodes,         \* error codes an insert operation may report
    PlacementRequestFails, \* may a resourcePolicies.insert fail (not alreadyExists)
    TpuPodsBefore,      \* the sets of TPU pods earlier runs may have left
    PLACEMENT_MAX_CNT,
    BULK_INSERT_LIMIT

ASSUME /\ PowerManaged \subseteq Nodes
       /\ NodesetOf \in [Nodes -> Range(NodesetOf)]
       /\ VmCount \in [TpuNodesets -> Nat \ {0}]
       /\ PLACEMENT_MAX_CNT \in Nat \ {0}
       /\ BULK_INSERT_LIMIT >= PLACEMENT_MAX_CNT
       /\ DispatchOutcomes \subseteq {"started", "httpError", "otherError"}
       /\ PlacementRequestFails \in BOOLEAN
       /\ TpuPodsBefore \subseteq SUBSET {n \in Nodes : NodesetOf[n] \in TpuNodesets}

ALREADY_EXISTS == "RESOURCE_ALREADY_EXISTS"

Nodesets == Range(NodesetOf)
IsTpu(n) == NodesetOf[n] \in TpuNodesets
NodesIn(nss) == {n \in Nodes : NodesetOf[n] \in nss}

(* A ResumeJobData record of get_resume_file_data(). *)
JobRecords == [job_id : JobIds, partition : DOMAIN PartitionNodesets,
               nodes_alloc : SUBSET Nodes]

(* What get_insert_operations reports for a node: no operation at all,   *)
(* or an operation carrying the set of its error codes (joined with "+"   *)
(* by the code); an operation without errors created the instance.        *)
NoOp == [op |-> FALSE, errors |-> {}]
Created == [op |-> TRUE, errors |-> {}]
ErrorSets == SUBSET ErrorCodes \ {{}}
Failures == [op : {TRUE}, errors : ErrorSets]
InsertResults == {NoOp, Created} \cup Failures

VARIABLES
    pc,          \* where the invocation is
    nodes,       \* the power-managed nodes being resumed
    resumeData,  \* the parsed resume file, or None
    chunks,      \* the BulkChunks of group_nodes_bulk
    dispatch,    \* bulk chunk -> "pending" | result of ensure_execute
    opResult,    \* started chunk -> "pending" | "ok" | "error"
    insert,      \* started chunk -> node -> its per-instance insert operation
    tpuHandled,  \* TPU chunks start_tpu has run for
    tpuNodes,    \* TPU nodes that exist at the provider
    reconciled,  \* started chunks whose insert operations were reconciled
    down,        \* nodes scontrol has marked down
    notified     \* jobs scontrol has commented and notified

vars == <<pc, nodes, resumeData, chunks, dispatch, opResult, insert,
          tpuHandled, tpuNodes, reconciled, down, notified>>

-----------------------------------------------------------------------------
(* util.chunked over a sorted list: slice k (from 0) of size n. *)
Rank(x, S) == Cardinality({y \in S : y <= x})
ChunkAt(S, n, k) == {x \in S : (Rank(x, S) - 1) \div n = k}
ChunkIndices(S, n) == 0 .. ((Cardinality(S) + n - 1) \div n - 1)

(* The deterministic placement policy name                                 *)
(* <cluster>-slurmgcp-managed-<nodeset>-<job_id>-<i>.                      *)
PgName(ns, jobId, i) == [nodeset |-> ns, job |-> jobId, idx |-> i]

(* Mutant: the machine family is not checked. *)
valid_placement_nodes_unchecked(S) == TRUE

valid_placement_nodes(S) == \A n \in S : NodesetOf[n] \notin InvalidFamily

(* Mutant: placement groups sliced by the bulk limit. *)
PgSliceSize_bulk == BULK_INSERT_LIMIT

(* chunked(node_list, n=PLACEMENT_MAX_CNT) *)
PgSliceSize == PLACEMENT_MAX_CNT

(* create_nodeset_placement_groups: the nodes of one nodeset, sliced into *)
(* groups of PLACEMENT_MAX_CNT, or the single no-policy bucket.            *)
create_nodeset_placement_groups(S, jobId) ==
    LET ns == NodesetOf[CHOOSE n \in S : TRUE]
    IN  IF Cardinality(S) < 2
           \/ ~(ns \in PlacementEnabled /\ valid_placement_nodes(S))
        THEN None :> S
        ELSE [pg \in {PgName(ns, jobId, i) : i \in ChunkIndices(S, PgSliceSize)}
                |-> ChunkAt(S, PgSliceSize, pg.idx)]

(* lookup().nodeset_map: the node list split by nodeset, in the order the *)
(* nodesets first appear in the sorted list.                               *)
NodesetMap(S) ==
    LET first(ns) == CHOOSE n \in S : NodesetOf[n] = ns
                                      /\ \A m \in S : NodesetOf[m] = ns => n <= m
    IN  [i \in 1..Cardinality({NodesetOf[n] : n \in S}) |->
            LET ns == CHOOSE x \in {NodesetOf[n] : n \in S} :
                        Cardinality({y \in {NodesetOf[n] : n \in S} :
                                       first(y) < first(x)}) = i - 1
            IN  {n \in S : NodesetOf[n] = ns}]

(* create_placement_groups: pgs.update(...) for each nodeset in turn; a   *)
(* key already present (None in particular) is overwritten.               *)
RECURSIVE UpdateEach(_, _, _)
UpdateEach(pgs, parts, jobId) ==
    IF parts = <<>> THEN pgs
    ELSE UpdateEach(create_nodeset_placement_groups(Head(parts), jobId) @@ pgs,
                    Tail(parts), jobId)

create_placement_groups(S, jobId) == UpdateEach(<<>>, NodesetMap(S), jobId)

(* The placement policies the grouping asks the provider to create. *)
RequestedPgs(S, jobId) ==
    UNION {DOMAIN create_nodeset_placement_groups(NodesetMap(S)[i], jobId) :
             i \in DOMAIN NodesetMap(S)} \ {None}

-----------------------------------------------------------------------------
(* group_nodes_bulk                                                         *)
Jobs(data) == IF data = None THEN {} ELSE data

(* Mutant: the job's groups are sliced from the nodes resumed now. *)
PgBase_resumed(j, S) == S \cap j.nodes_alloc

(* Placement groups are assigned over the job's whole allocation. *)
PgBase(j, S) == j.nodes_alloc

(* Mutant: the job's groups are not restricted to the nodes resumed now. *)
InResume_all(pgNodes, nodes_resume) == pgNodes

(* ... and each is cut down to the nodes resumed in this run. *)
InResume(pgNodes, nodes_resume) == pgNodes \cap nodes_resume

JobPgs(j, S) ==
    LET nodes_resume == S \cap j.nodes_alloc
        pgs == create_placement_groups(PgBase(j, S), j.job_id)
    IN  IF j.partition \in TpuPartitions
        THEN None :> nodes_resume
        ELSE [pg \in DOMAIN pgs |-> InResume(pgs[pg], nodes_resume)]

(* Mutant: job nodes are not removed from the jobless bucket. *)
JoblessNodes_all(S, data) == S

JoblessNodes(S, data) == S \ UNION {j.nodes_alloc : j \in Jobs(data)}

JobGroups(S, data) ==
    LET jobless == JoblessNodes(S, data)
    IN  {[job_id |-> j.job_id, partition |-> j.partition, pgs |-> JobPgs(j, S)] :
           j \in Jobs(data)}
        \cup {[job_id |-> None, partition |-> None,
               pgs |-> create_placement_groups({n \in jobless : ~IsTpu(n)}, 0)],
              [job_id |-> None, partition |-> None,
               pgs |-> None :> {n \in jobless : IsTpu(n)}]}

(* chunk_nodes: TPU nodes are chunked by their pod's vmcount. *)
ChunkSize(S) ==
    LET n == CHOOSE x \in S : \A y \in S : x <= y
    IN  IF IsTpu(n) THEN VmCount[NodesetOf[n]] ELSE BULK_INSERT_LIMIT

group_nodes_bulk(S, data) ==
    UNION {
      UNION {
        UNION {
          LET P == {n \in g.pgs[pg] : NodesetOf[n] = prefix}
          IN  {[nodes |-> ChunkAt(P, ChunkSize(P), i), prefix |-> prefix,
                chunk_idx |-> i, job_id |-> g.job_id, partition |-> g.partition,
                placement_group |-> pg] : i \in ChunkIndices(P, ChunkSize(P))}
          : prefix \in {NodesetOf[n] : n \in g.pgs[pg]}}
        : pg \in DOMAIN g.pgs}
      : g \in JobGroups(S, data)}

(* Mutant: the placement group is left out of the group name. *)
group_name_without_pg(c) ==
    IF c.job_id # None THEN <<c.prefix, c.job_id, c.chunk_idx>>
    ELSE <<c.prefix, c.chunk_idx>>

group_name(c) ==
    IF c.placement_group # None
    THEN <<c.prefix, c.job_id, c.placement_group, c.chunk_idx>>
    ELSE IF c.job_id # None THEN <<c.prefix, c.job_id, c.chunk_idx>>
    ELSE <<c.prefix, c.chunk_idx>>

(* resume_nodes sends a chunk to start_tpu only when it has a TPU partition. *)
IsTpuChunk(c) == c.partition # None /\ c.partition \in TpuPartitions
BulkChunks == {c \in chunks : ~IsTpuChunk(c)}
TpuChunks == {c \in chunks : IsTpuChunk(c)}
Started == {c \in BulkChunks : dispatch[c] = "started"}

(* down_nodes_notify_jobs: scontrol marks S down, then every job of the    *)
(* resume file whose allocation meets S is commented and notified.         *)
down_nodes_notify_jobs(S) ==
    /\ down' = down \cup S
    /\ notified' = notified \cup {j.job_id : j \in {j \in Jobs(resumeData) :
                                                    j.nodes_alloc \cap S # {}}}

-----------------------------------------------------------------------------
Init ==
    /\ pc = "idle"
    /\ nodes = {}
    /\ resumeData = None
    /\ chunks = {}
    /\ dispatch = <<>>
    /\ opResult = <<>>
    /\ insert = <<>>
    /\ tpuHandled = {}
    /\ tpuNodes \in TpuPodsBefore
    /\ reconciled = {}
    /\ down = {}
    /\ notified = {}

(* main() and the synchronous part of resume_nodes(): filter, read the     *)
(* resume file, group (creating placement policies), build the requests.   *)
(* A failed policy creation makes log.fatal(... for _, e in failed.values()) *)
(* unpack an exception: TypeError, the invocation dies.                    *)
main(nodelist, data) ==
    LET managed == nodelist \cap PowerManaged
        grouped == group_nodes_bulk(managed, data)
        pgs == RequestedPgs({n \in JoblessNodes(managed, data) : ~IsTpu(n)}, 0)
               \cup UNION {RequestedPgs(j.nodes_alloc, j.job_id) :
                             j \in {j \in Jobs(data) : j.partition \notin TpuPartitions}}
    IN
    /\ pc = "idle"
    /\ nodes' = managed
    /\ resumeData' = data
    /\ IF managed = {}
       THEN /\ pc' = "done"
            /\ UNCHANGED <<chunks, dispatch>>
       ELSE \E pgFailed \in IF PlacementRequestFails /\ pgs # {}
                            THEN BOOLEAN ELSE {FALSE} :
              IF pgFailed
              THEN /\ pc' = "crashed"
                   /\ UNCHANGED <<chunks, dispatch>>
              ELSE /\ pc' = "dispatch"
                   /\ chunks' = grouped
                   /\ dispatch' = [c \in {c \in chunks' : ~IsTpuChunk(c)} |-> "pending"]
    /\ UNCHANGED <<opResult, insert, tpuHandled, tpuNodes, reconciled, down, notified>>

(* map_with_futures(ensure_execute, ...): one bulkInsert per chunk. *)
Dispatch(c) ==
    /\ pc = "dispatch"
    /\ c \in DOMAIN dispatch
    /\ dispatch[c] = "pending"
    /\ \E r \in DispatchOutcomes : dispatch' = [dispatch EXCEPT ![c] = r]
    /\ UNCHANGED <<pc, nodes, resumeData, chunks, opResult, insert, tpuHandled,
                   tpuNodes, reconciled, down, notified>>

(* bulk_operations: only the started operations are waited for. *)
AwaitedChunks == Started

(* Every failed dispatch is quarantined with exc._get_reason(); an         *)
(* exception that is not an HttpError has no _get_reason, so the loop      *)
(* raises at it, after the failures before it (in dict order) were handled. *)
QuarantineFailedDispatches ==
    LET failed == {c \in BulkChunks : dispatch[c] \in {"httpError", "otherError"}}
        http == {c \in failed : dispatch[c] = "httpError"}
    IN
    /\ pc = "dispatch"
    /\ \A c \in BulkChunks : dispatch[c] # "pending"
    /\ \/ /\ failed = http
          /\ down_nodes_notify_jobs(UNION {c.nodes : c \in failed})
          /\ pc' = "wait"
          /\ opResult' = [c \in AwaitedChunks |-> "pending"]
       \/ /\ failed # http
          /\ \E before \in SUBSET http :
                down_nodes_notify_jobs(UNION {c.nodes : c \in before})
          /\ pc' = "crashed"
          /\ UNCHANGED opResult
    /\ UNCHANGED <<nodes, resumeData, chunks, dispatch, insert, tpuHandled,
                   tpuNodes, reconciled>>

(* The per-instance results a bulkInsert may leave. Without a placement   *)
(* group minCount = 1: the operation succeeds when one instance is        *)
(* created. With one minCount is unset: all or nothing.                   *)
InsertOutcomes(c, r) ==
    IF r = "error"
    THEN [c.nodes -> {NoOp} \cup Failures]
    ELSE IF c.placement_group # None
    THEN {[n \in c.nodes |-> Created]}
    ELSE {f \in [c.nodes -> {Created} \cup Failures] : \E n \in c.nodes : f[n] = Created}

(* wait_for_operation on a started bulkInsert. *)
WaitForOperation(c) ==
    /\ pc = "wait"
    /\ c \in DOMAIN opResult
    /\ opResult[c] = "pending"
    /\ \E r \in {"ok", "error"} : \E f \in InsertOutcomes(c, r) :
          /\ opResult' = [opResult EXCEPT ![c] = r]
          /\ insert' = (c :> f) @@ insert
    /\ UNCHANGED <<pc, nodes, resumeData, chunks, dispatch, tpuHandled, tpuNodes,
                   reconciled, down, notified>>

AllWaited ==
    /\ pc = "wait"
    /\ \A c \in Started : opResult[c] # "pending"
    /\ pc' = "tpu"
    /\ UNCHANGED <<nodes, resumeData, chunks, dispatch, opResult, insert,
                   tpuHandled, tpuNodes, reconciled, down, notified>>

(* execute_with_futures(start_tpu, ...) runs after every wait returned. *)
TpuPhase == pc = "tpu"

(* start_tpu, run by execute_with_futures after every bulkInsert finished. *)
(* A single-node pod is created when absent and started when present only *)
(* if its nodeset preserves TPUs; a multi-node pod is always created.      *)
(* Errors are only logged.                                                 *)
start_tpu(c) ==
    /\ TpuPhase
    /\ c \in TpuChunks \ tpuHandled
    /\ tpuHandled' = tpuHandled \cup {c}
    /\ IF Cardinality(c.nodes) = 1 /\ c.nodes \subseteq tpuNodes
       THEN UNCHANGED tpuNodes      \* start_node, or left as is
       ELSE \E created \in BOOLEAN :
              tpuNodes' = IF created THEN tpuNodes \cup c.nodes ELSE tpuNodes
    /\ UNCHANGED <<pc, nodes, resumeData, chunks, dispatch, opResult, insert,
                   reconciled, down, notified>>

AllTpuStarted ==
    /\ pc = "tpu"
    /\ TpuChunks \subseteq tpuHandled
    /\ pc' = "reconcile"
    /\ UNCHANGED <<nodes, resumeData, chunks, dispatch, opResult, insert,
                   tpuHandled, tpuNodes, reconciled, down, notified>>

(* Mutant: RESOURCE_ALREADY_EXISTS failures are quarantined too. *)
Quarantined_existing(c) == {n \in c.nodes : insert[c][n] \in Failures}

(* The failed inserts of a completed operation, bucketed by their joined  *)
(* error codes; every bucket but exactly RESOURCE_ALREADY_EXISTS is       *)
(* quarantined.                                                           *)
Quarantined(c) ==
    {n \in c.nodes : insert[c][n] \in Failures /\ insert[c][n].errors # {ALREADY_EXISTS}}

(* The loop body of resume_nodes for one completed bulk operation. *)
ReconcileInserts(c) ==
    /\ pc = "reconcile"
    /\ c \in Started \ reconciled
    /\ reconciled' = reconciled \cup {c}
    /\ down_nodes_notify_jobs(Quarantined(c))
    /\ UNCHANGED <<pc, nodes, resumeData, chunks, dispatch, opResult, insert,
                   tpuHandled, tpuNodes>>

AllReconciled ==
    /\ pc = "reconcile"
    /\ Started \subseteq reconciled
    /\ pc' = "done"
    /\ UNCHANGED <<nodes, resumeData, chunks, dispatch, opResult, insert,
                   tpuHandled, tpuNodes, reconciled, down, notified>>

(* The process has exited. *)
Exited ==
    /\ pc \in {"done", "crashed"}
    /\ UNCHANGED vars

Next ==
    \/ \E nodelist \in SUBSET Nodes \ {{}}, data \in ResumeDataChoices :
          main(nodelist, data)
    \/ \E c \in chunks : Dispatch(c) \/ WaitForOperation(c) \/ start_tpu(c)
                         \/ ReconcileInserts(c)
    \/ QuarantineFailedDispatches
    \/ AllWaited
    \/ AllTpuStarted
    \/ AllReconciled
    \/ Exited

Spec == Init /\ [][Next]_vars

-----------------------------------------------------------------------------
TypeOK ==
    /\ pc \in {"idle", "dispatch", "wait", "tpu", "reconcile", "done", "crashed"}
    /\ nodes \subseteq PowerManaged
    /\ resumeData = None \/ resumeData \subseteq JobRecords
    /\ \A c \in chunks : c.nodes \subseteq nodes /\ c.prefix \in Nodesets
    /\ DOMAIN dispatch = BulkChunks
    /\ \A c \in DOMAIN dispatch : dispatch[c] \in {"pending"} \cup DispatchOutcomes
    /\ DOMAIN opResult \subseteq Started
    /\ \A c \in DOMAIN opResult : opResult[c] \in {"pending", "ok", "error"}
    /\ DOMAIN insert \subseteq Started
    /\ \A c \in DOMAIN insert : insert[c] \in [c.nodes -> InsertResults]
    /\ tpuHandled \subseteq TpuChunks
    /\ reconciled \subseteq Started
    /\ down \subseteq nodes
    /\ notified \subseteq JobIds

(* group_nodes_bulk gives every resumed node to at most one chunk: the     *)
(* chunks of different jobs, of the jobless buckets and of different       *)
(* placement groups never share a node (spec 3: a node belongs to exactly  *)
(* one chunk), so no instance is inserted twice.                           *)
ChunksDisjoint ==
    \A c, d \in chunks : c # d => c.nodes \cap d.nodes = {}

(* The assertions of create_instances_request hold for every bulk chunk:   *)
(* 0 < count <= BULK_INSERT_LIMIT, and <= PLACEMENT_MAX_CNT with a         *)
(* placement group; a TPU chunk never exceeds its pod's vmcount.           *)
RequestWithinLimits ==
    /\ \A c \in BulkChunks :
          /\ 0 < Cardinality(c.nodes)
          /\ Cardinality(c.nodes) <= BULK_INSERT_LIMIT
          /\ c.placement_group # None => Cardinality(c.nodes) <= PLACEMENT_MAX_CNT
    /\ \A c \in chunks : c.prefix \in TpuNodesets =>
          Cardinality(c.nodes) <= VmCount[c.prefix]

(* group_name is injective on the chunks, so the dict comprehension that  *)
(* closes group_nodes_bulk drops no chunk.                                 *)
GroupNamesUnique ==
    \A c, d \in chunks : c # d => group_name(c) # group_name(d)

(* A chunk carries a placement group only when its nodeset enables        *)
(* placement with a supported machine family and is not TPU, and the      *)
(* policy is the one named for that nodeset and that job (0 if jobless).  *)
PlacementOnlyWherePermitted ==
    \A c \in chunks : c.placement_group # None =>
        /\ c.prefix \in PlacementEnabled \ (InvalidFamily \cup TpuNodesets)
        /\ c.placement_group.nodeset = c.prefix
        /\ c.placement_group.job = IF c.job_id = None THEN 0 ELSE c.job_id

(* The refinement mapping to ResumeAbstract: a resumed node has come up   *)
(* when its insert created it, its insert found it already existing, or    *)
(* start_tpu handled its pod and the pod exists.                          *)
Exists(n) ==
    \/ \E c \in DOMAIN insert :
          n \in c.nodes /\ insert[c][n] \in {Created, [op |-> TRUE, errors |-> {ALREADY_EXISTS}]}
    \/ n \in tpuNodes /\ \E c \in tpuHandled : n \in c.nodes
Abs == INSTANCE ResumeAbstract WITH
          status <- [n \in Nodes |->
                       IF pc = "idle" \/ n \notin nodes THEN "off"
                       ELSE IF n \in down THEN "down"
                       ELSE IF Exists(n) THEN "created" ELSE "resuming"],
          running <- IF pc = "idle" THEN "idle"
                     ELSE IF pc \in {"done", "crashed"} THEN "ended" ELSE "running"

(* resume.py implements ResumeAbstract: it marks down only nodes it was    *)
(* given and that have not come up, never a node whose instance it (or an  *)
(* earlier run) created, and changes nothing once it has exited.           *)
ImplementsAbstract == Abs!ASpec

(* Every resumed node is in some chunk (spec 8: the union of the chunks   *)
(* equals the input).                                                     *)
NoNodeLost ==
    pc \notin {"idle", "crashed"} => UNION {c.nodes : c \in chunks} = nodes

(* TPU nodes never go through bulkInsert (spec 3: accelerator nodes are   *)
(* always provisioned apart from conventional ones).                       *)
TpuNodesNeverBulkInserted ==
    \A c \in BulkChunks : \A n \in c.nodes : ~IsTpu(n)

(* The invocation never dies on an unhandled exception (spec 7: nothing   *)
(* in this subsystem terminates the process on failure).                  *)
NeverCrashes == pc # "crashed"

=============================================================================
