# TLA+ models of the slurm-gcp v6 ResumeProgram (`resume.py`)

Source: `src/community/modules/scheduler/schedmd-slurm-gcp-v6-controller/modules/slurm_files/scripts/resume.py`
(one file, 615 lines). Slurm runs it when it powers nodes up. It turns a
host list and the job-allocation file into GCE bulkInsert requests and TPU pod
starts. Then it marks down the nodes that failed.

## 1. Inventory

### Components and their state

| Component | Code | State | Operations |
|---|---|---|---|
| AllocationReader | `get_resume_file_data` 67-84 | none (returns `ResumeData` or None) | read `SLURM_RESUME_FILE` |
| NodeClassifier | `main` 591-609, `resume_nodes` 369-379 | none | drop nodes that are not power managed; send TPU-partition chunks to `start_tpu`, all others to bulkInsert |
| PlacementGroupManager | `create_placement_groups` 502-507, `create_nodeset_placement_groups` 510-575, `valid_placement_nodes` 578-588, `create_placement_request` 483-499 | provider: resource policies | slice each nodeset's nodes into groups of `PLACEMENT_MAX_CNT`; create the policies concurrently; classify the results as submitted, redundant or failed; wait |
| GroupingEngine | `group_nodes_bulk` 239-317 | none (pure apart from the policy requests) | job groups, jobless and jobless-TPU buckets, prefix grouping, chunking, group names |
| InstanceRequestBuilder | `create_instances_request` 160-226, `instance_properties` 86-136, `update_props_dws` 138-142, `dws_flex_duration` 144-151 | none | request body: count, minCount, labels, placement, reservation, DWS flex, overrides, zonal or regional |
| ProvisioningExecutor | `resume_nodes` 348-455 | provider: instances and operations | dispatch every bulkInsert concurrently, quarantine dispatch failures, wait for each operation, start TPUs, reconcile the per-instance operations |
| QuarantineNotifier | `down_nodes_notify_jobs` 457-474, `hold_job` 477-480 | Slurm: node state, job comments | `scontrol update state=down`; comment and notify each job holding a failed node |
| AcceleratorProvisioner | `start_tpu` 320-345 | provider: TPU pods | create an absent pod; start a present one only with `preserve_tpu`; always create multi-VM pods |
| CLI, logging, plugins | 611-615, 212-218, 491-494 | none | argument parsing, logs, `slurm_gcp_plugins` hooks |

### Interactions
`main` → `group_nodes_bulk` → `create_placement_groups`. Placement-policy
requests are sent and awaited inside the grouping. Then `resume_nodes` uses
futures to send every bulkInsert request at once (`map_with_futures`). Next it
quarantines the requests that raised. Then it waits for each started operation
in turn. Then it runs `start_tpu` for all TPU chunks at once
(`execute_with_futures`). Finally it reconciles each operation's per-instance
inserts. Concurrent branches share no mutable state. Each branch's result is a
value keyed by its group, and the main thread merges them one after another. The
hard parts are:
- partial failure of one request among many;
- exceptions raised in places the error handling does not expect;
- the phase barrier between bulkInserts and TPUs;
- provider state left behind by earlier invocations: policies, instances and pods.

### What makes each component correct
- Grouping: every resumed node is in exactly one chunk. Chunks respect the
  bulkInsert and placement limits. Group names are unique. A chunk carries a
  placement group only where placement is allowed. TPU nodes never go to
  bulkInsert.
- Placement: a failed policy creation does not abort the run. "redundant" means
  the policy really exists. A policy never holds more than `PLACEMENT_MAX_CNT`
  instances.
- Executor and quarantine: the down nodes are exactly the failed ones, excluding
  RESOURCE_ALREADY_EXISTS. Every failure surfaces as a down node. The notified
  jobs are exactly those holding a down node. TPUs start after every bulkInsert.
- Request builder: fields are applied in the precedence the code states.
  Placement implies TERMINATE on host maintenance. The DWS duration is bounded.

## 2. Modules

| Module | Models |
|---|---|
| `Resume` (+ `MCResume`) | one invocation end to end: grouping as operators named after the Python functions, each step of `resume_nodes` as an action, provider answers chosen with `\E` |
| `ResumeAbstract` | what an invocation promises Slurm, with no chunks or operations; `Resume` implements it (refinement) |
| `PlacementPolicies` (+ `MCPlacementPolicies`) | the provider's placement policies shared by several concurrent invocations, with the policy requests, their classification and the waits of `create_nodeset_placement_groups`; it composes `Resume`'s grouping via `INSTANCE` |
| `InstanceProperties` (+ `MCInstanceProperties`) | the request body from `create_instances_request`, `instance_properties`, `update_props_dws` and `dws_flex_duration`, checked against a reference precedence written from spec 4.4 |

## 3. Module `Resume` and how it maps to the code

Nodes are integers, so a sorted host list is a sorted integer set. Where a mutant
changes one expression of a function, that expression is its own small
definition, named after its line:
- `PgSliceSize` is `chunked(..., n=PLACEMENT_MAX_CNT)`;
- `PgBase` and `InResume` are the allocation a job's placement groups are cut
  from, and the restriction to the nodes resumed now;
- `AwaitedChunks`, `TpuPhase` and `Quarantined` name the same kind of
  expression in `resume_nodes`;
- in `InstanceProperties`, `ZonalCall` and `LocationPolicy` do. A node's
prefix is its nodeset. `util.chunked` over a sorted list becomes
`ChunkAt(S, n, k)`: the k-th slice by rank. `dict.update` becomes `new @@ old`.

| Variable | Code |
|---|---|
| `pc` | position in `main`/`resume_nodes`; `"crashed"` = an uncaught exception |
| `nodes`, `resumeData` | `nodes`, `resume_data` |
| `chunks` | values of `grouped_nodes` (the dict is exact when `GroupNamesUnique` holds) |
| `dispatch` | `bulk_ops` (started / HttpError / other exception) |
| `opResult`, `insert` | `bulk_operations`, and `get_insert_operations` per node |
| `tpuHandled`, `tpuNodes` | `start_tpu` calls made, TPU pods at the provider |
| `reconciled` | groups of the reconciliation loop already processed |
| `down`, `notified` | effects of `scontrol update ... state=down` and `scontrol notify` |

| Action | Code |
|---|---|
| `main(nodelist, data)` | `main` + `group_nodes_bulk` + request building. Placement failure leads to `"crashed"`, because line 559 raises TypeError |
| `Dispatch(c)` | one future of `map_with_futures(ensure_execute, ...)` |
| `QuarantineFailedDispatches` | lines 386-407 (`AwaitedChunks`: only the started operations are waited for). A non-HttpError raises at `_get_reason` after the failures before it (any subset of them, since dict order is abstracted) |
| `WaitForOperation(c)` | `wait_for_operation(op)` and the per-instance results (`InsertOutcomes`: minCount=1 without placement, all-or-nothing with it) |
| `AllWaited`, `AllTpuStarted`, `AllReconciled` | the phase barriers of `resume_nodes` |
| `start_tpu(c)` | `start_tpu`, enabled in `TpuPhase` (after every wait, line 411) |
| `ReconcileInserts(c)` | loop body 415-454; `Quarantined(c)` is the failed inserts whose joined codes are not exactly RESOURCE_ALREADY_EXISTS |
| `Exited` | the process has ended |

### Refinement of `ResumeAbstract`
`ResumeAbstract` tracks each node as off, resuming, created or down, and the
invocation as idle, running or ended. A created node is never marked down, and
nothing changes after the end. The mapping, `Resume!Abs`, sends:
- a node not in the node list to off;
- a node in `down` to down;
- a node to created when an insert made or found its instance, or when it is in a TPU chunk that `start_tpu` handled;
- any other node of the list to resuming.

The failures run checks `ImplementsAbstract == Abs!ASpec` as a property. So
reconciliation never quarantines a node whose instance exists (its insert
created it or answered `RESOURCE_ALREADY_EXISTS`, line 444), a node only moves
from resuming to created or down, and nothing happens after `done`.

## 4. Modules `PlacementPolicies` and `InstanceProperties`

`PlacementPolicies` runs `Procs` invocations concurrently. Each one takes a
node list and resume file from `Invocations`, and computes its placement
groups with `Resume`'s `JobGroups` (an `INSTANCE` of `Resume`).

| Variable | Code |
|---|---|
| `ipc` | position of an invocation: in `create_nodeset_placement_groups`, inserting, done or crashed |
| `todo` | the remaining `create_nodeset_placement_groups` calls (one per nodeset and job) |
| `resp` | `results` of `ensure_execute` for the current call, per policy name: pending, `"op"`, `"alreadyExists"`, `"quota"`, `"noDetails"` |
| `waiting` | the submitted operations not yet awaited |
| `assign` | `grouped_nodes`' placement groups: the nodes each policy gets |
| `policies` | the provider: policy name to `"creating"` / `"ready"` |
| `placed` | the provider: instances in each policy |
| `inserted` | the policies whose bulkInsert was sent |

| Action | Code |
|---|---|
| `Start(p, inv)` | `main` → `group_nodes_bulk` |
| `BeginCall`, `create_placement_request`, `Classify`, `wait_for_operation`, `EndCall` | lines 532-577 |
| `CompleteCreation(g)` | the provider finishing a policy operation, or failing it (`OpMayFail`) |
| `InsertWithPolicy`, `Finish` | the bulkInserts of the placement chunks (376-384) and the rest of `resume_nodes` |

`InstanceProperties` chooses the chunk and its nodeset's configuration in
`Init`, from every combination of the input sets, and builds the body in one
step. An `NSDict` is a function. An absent key reads as an empty `NSDict`, and
`update` is a shallow `dict.update`. `util.NSDict` is not in the repository,
so these three helpers are `spec_modelled`.

## 5. Runs

| Run | cfg | Result | Shows |
|---|---|---|---|
| grouping | `MCResume_grouping.cfg` | pass, 27,941 states | `TypeOK`, `ChunksDisjoint`, `RequestWithinLimits`, `GroupNamesUnique`, `PlacementOnlyWherePermitted` hold for every node list and every exclusive resume file over 7 nodes |
| failures | `MCResume_failures.cfg` | pass, 60,952 states | `ImplementsAbstract` holds under every provider failure |
| node_lost | `MCResume_NoNodeLost.cfg` | violation | `NoNodeLost`: `pgs.update` drops a nodeset's nodes (code bug, line 506) |
| tpu_bulk_inserted | `MCResume_TpuNodesNeverBulkInserted.cfg` | violation | jobless TPU nodes go to bulkInsert (line 370) |
| placement_failure | `MCResume_placement_failure.cfg` | violation | `NeverCrashes`: a failed policy creation raises TypeError (line 559) |
| dispatch_exception | `MCResume_dispatch_exception.cfg` | violation | `NeverCrashes`: a non-HttpError dispatch failure raises at `_get_reason` (line 396) |
| placement | `MCPlacementPolicies.cfg` | pass, 237,292 states | two concurrent invocations over two jobs, with quota failures and failing policy operations: `TypeOK`, `PolicyWithinCapacity`, `Termination` |
| placement_jobless | `MCPlacementPolicies_jobless.cfg` | violation | `PolicyWithinCapacity`: jobless policies are named with job id 0 and reused by the next invocation (line 524) |
| placement_no_details | `MCPlacementPolicies_no_details.cfg` | violation | `RedundantMeansExists`: an HttpError without details is classified redundant, i.e. as an existing policy (line 546); with line 546 corrected the property holds, even with quota failures and failing operations |
| placement_race | `MCPlacementPolicies_race.cfg` | violation | `InsertsIntoReadyPolicy`: a policy another invocation is still creating is not awaited (line 561) |
| request_body | `MCInstanceProperties.cfg` | pass, 30,240 states | `TypeOK`, `ComputedFieldsPerSpec`: field precedence of spec 4.4 for every input combination |
| overrides | `MCInstanceProperties_OverridesKeepComputedFields.cfg` | violation | `OverridesKeepComputedFields`: a shallow `props.update` drops computed scheduling fields (line 134) |

The grouping cfg uses `ACTION_CONSTRAINT GroupingOnly`, which allows only
`main` steps. No later step changes `chunks`, so the states `main` reaches are
enough for the grouping properties. The failures cfg explores the provisioning
steps.

### Bounds
- **Grouping:** nodeset `a` has 2 nodes, placement and a supported family.
  Nodeset `b` has 3 nodes, placement and an unsupported family. Nodeset `t` is
  TPU with 2-VM pods. `PLACEMENT_MAX_CNT = 1` and `BULK_INSERT_LIMIT = 2` stand
  for 150 and 5000. With these sizes:
  - `a` splits into two placement groups;
  - `b` splits into two bulk chunks;
  - `t` is chunked by vmcount.

  There are two job ids and two partitions (`pn` = {a, b}, `pt` = {t}). Every
  node list is tried, and so is every resume file with at most two jobs on
  disjoint nodes, or no file. Files are enumerated up to renaming of job ids,
  because the code uses ids only as keys and in names.
- **Failures:** nodeset `a` has 2 nodes. A one-VM TPU pod either exists or does
  not. One node is not power managed. Everything can fail: dispatch (HttpError
  or another exception), the operation, and each instance (QUOTA_EXCEEDED,
  RESOURCE_ALREADY_EXISTS, both, or no operation).

  Limit: nodeset `a` is the only multi-node bulk nodeset, and it has placement
  enabled. So the case of a multi-node chunk without a placement policy
  (`minCount = 1`, partial success) is never reached. Adding two non-placement
  nodes made the state space grow to 2 million states (about 10 min). That is
  too large for this run, which every mutant repeats. Restricting the resume
  files to one job did not reduce it, and neither did making the dispatch of
  all chunks one step. The growth comes from the product of the per-chunk
  provider outcomes, not from interleavings.
- **Placement:** nodeset `a` has 4 nodes and `b` has 2, and `PLACEMENT_MAX_CNT = 2`.
  Job 1 holds all of `a`, and job 2 holds `b`. Each of the two invocations
  resumes half of job 1, the other half, or both jobs. So:
  - a job is resumed in parts;
  - the same policy names are met by two invocations, concurrently or in turn;
  - a policy fills to capacity.
- **Request body:**
  - every combination of placement group, job (none, unknown, or a time limit
    of 0, 29, 30, 2 weeks or 2 weeks + 1 s), exclusivity, reservation (with or
    without policies, dense or not), maintenance interval and DWS;
  - three override sets;
  - zone allow lists of 0, 1 and 2 zones, with and without a deny list.

### Fairness
`Resume` has no fairness and no liveness property. Its only wait that could
last forever is `wait_for_operation` on a bulkInsert (line 407). That call has
no timeout, so an invocation ends only if the provider answers. Assuming that
answer as fairness would be an assumption about the provider, not something the
code ensures.

`PlacementPolicies` checks `Termination`: every invocation that starts ends,
done or crashed. It assumes weak fairness of two things:
- each invocation's steps, because each is a running Python process;
- the provider completing a policy operation (`CompleteCreation`), because
  GCE operations end in DONE, with or without an error.

The property shows that an invocation only waits for operations it submitted
itself. So a failed or foreign policy creation never blocks it.

## 6. Not modelled

Nothing more of `resume.py` can be modelled faithfully within these bounds:
- every line outside the licence, imports, dataclass declarations,
  `per_instance_properties` (a constant) and `hold_job` (never called) is
  mapped;
- the rest of the behaviour lives in `util` (`run`, `wait_for_operation`,
  `TPU`, `NSDict`), which is not in this repository.

In detail:
- Reason strings, label and disk contents, template lookups, and logging.
- The plugin hooks (`slurm_gcp_plugins`) and argument parsing.
- `hold_job`, which is defined but never called in this file.
- Whether a TPU pod runs, as opposed to merely existing. Without
  `preserve_tpu`, a pod left by an earlier run is neither started nor marked
  down (hazard at line 333). `util.TPU` is outside the repository.
- Concurrent `start_tpu` calls through a shared `util.TPU` client (line 374).
  Each call is treated as atomic.
- The lines the map does not cover: licence, imports, the `BulkChunk`
  dataclass declaration, the constant `per_instance_properties`, and `hold_job`.
- Shared (OverSubscribe) allocations. The resume files are exclusive, per spec 3.
  A node in two jobs is inserted twice and can be marked down although it
  exists (hazard at line 256).
- With DWS and a reservation, the body keeps the reservation key and values
  (hazard at line 141). The spec does not say what should happen, so no property
  states it.
- A failed bulk operation without per-instance operations marks no node down
  (hazard at line 418). The failures run explores this path, but no property
  states it.
