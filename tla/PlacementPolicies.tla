-------------------------- MODULE PlacementPolicies --------------------------
(***************************************************************************)
(* The placement (resource) policies of the provider, shared by several    *)
(* ResumeProgram invocations that slurmctld may run one after another or   *)
(* at the same time. Each invocation computes its placement groups with    *)
(* the grouping of Resume (INSTANCE R), creates them one                   *)
(* create_nodeset_placement_groups call at a time (the requests of one     *)
(* call concurrently), classifies the answers, waits for the submitted     *)
(* creations, and finally sends its bulkInserts naming those policies.     *)
(*                                                                         *)
(* The provider holds each policy name as "creating" or "ready"; an        *)
(* insert with a name that is held (in either state) answers               *)
(* alreadyExists. Policies are removed only by other programs (suspend),   *)
(* which are not modelled, so the policies here never disappear except by  *)
(* a failed creation.                                                      *)
(***************************************************************************)
EXTENDS Integers, FiniteSets, Functions, TLC

CONSTANTS
    None, Nodes, PowerManaged, NodesetOf, PlacementEnabled, InvalidFamily,
    PartitionNodesets, JobIds, PLACEMENT_MAX_CNT, BULK_INSERT_LIMIT,
    Procs,           \* ResumeProgram invocations (model values)
    Invocations,     \* the <<nodelist, resume data>> an invocation may get
    CreateFailures,  \* how resourcePolicies.insert may fail: "quota", "noDetails"
    OpMayFail        \* may a submitted creation operation end in error

ASSUME /\ CreateFailures \subseteq {"quota", "noDetails"}
       /\ OpMayFail \in BOOLEAN

(* The grouping of group_nodes_bulk, for conventional (non-TPU) nodes. *)
R == INSTANCE Resume WITH
        TpuNodesets <- {}, VmCount <- <<>>, PreserveTpu <- {},
        TpuPartitions <- {}, ResumeDataChoices <- {None},
        DispatchOutcomes <- {"started"}, ErrorCodes <- {},
        PlacementRequestFails <- FALSE, TpuPodsBefore <- {{}},
        pc <- "idle", nodes <- {}, resumeData <- None, chunks <- {},
        dispatch <- <<>>, opResult <- <<>>, insert <- <<>>, tpuHandled <- {},
        tpuNodes <- {}, reconciled <- {}, down <- {}, notified <- {}

PgNames == {R!PgName(ns, j, i) : ns \in Range(NodesetOf), j \in JobIds \cup {0},
                                 i \in 0 .. Cardinality(Nodes)}

(* What ensure_execute returns for one resourcePolicies.insert: the       *)
(* operation, or an HttpError whose error_details carry the reasons.       *)
Responses == {"op", "alreadyExists", "quota", "noDetails"}

VARIABLES
    ipc,       \* invocation -> where it is
    todo,      \* invocation -> create_nodeset_placement_groups calls left (sets of names)
    resp,      \* invocation -> name of the current call -> "pending" | response
    waiting,   \* invocation -> submitted names not yet awaited
    assign,    \* invocation -> name -> the nodes its bulkInserts put in that policy
    inserted,  \* invocation -> names whose bulkInsert was sent
    policies,  \* the provider: name -> "creating" | "ready"
    placed     \* name -> every node some invocation asked to place in it

vars == <<ipc, todo, resp, waiting, assign, inserted, policies, placed>>

-----------------------------------------------------------------------------
(* The create_nodeset_placement_groups calls that issue requests, one per *)
(* nodeset of each non-TPU job's full allocation and of the jobless       *)
(* nodes (job id 0); create_placement_groups / group_nodes_bulk.           *)
Calls(S, data) ==
    LET parts(A) == {R!NodesetMap(A)[i] : i \in DOMAIN R!NodesetMap(A)}
        names(A, j) == {DOMAIN R!create_nodeset_placement_groups(P, j) \ {None} :
                          P \in parts(A)}
    IN  (UNION {names(j.nodes_alloc, j.job_id) : j \in R!Jobs(data)}
         \cup names(R!JoblessNodes(S, data), 0)) \ {{}}

(* The nodes each chunk carrying a placement group holds: the groups of   *)
(* every job group restricted to the nodes resumed now.                    *)
Placement(S, data) ==
    LET gs == R!JobGroups(S, data)
        names == UNION {DOMAIN g.pgs : g \in gs} \ {None}
    IN  [pg \in names |-> UNION {g.pgs[pg] : g \in {g \in gs : pg \in DOMAIN g.pgs}}]

(* Mutant: an alreadyExists answer is waited for like a new operation. *)
classify_result_existing_submitted(r) ==
    CASE r \in {"op", "alreadyExists"} -> "submitted"
      [] r = "noDetails" -> "redundant"
      [] OTHER -> "failed"

(* classify_result: an exception whose error_details all say alreadyExists *)
(* (vacuously so when there are none) is "redundant".                       *)
classify_result(r) ==
    CASE r = "op" -> "submitted"
      [] r \in {"alreadyExists", "noDetails"} -> "redundant"
      [] OTHER -> "failed"

Init ==
    /\ ipc = [p \in Procs |-> "idle"]
    /\ todo = [p \in Procs |-> {}]
    /\ resp = [p \in Procs |-> <<>>]
    /\ waiting = [p \in Procs |-> {}]
    /\ assign = [p \in Procs |-> <<>>]
    /\ inserted = [p \in Procs |-> {}]
    /\ policies = <<>>
    /\ placed = <<>>

(* slurmctld runs the ResumeProgram; main() and group_nodes_bulk up to the *)
(* first policy creation.                                                  *)
Start(p, inv) ==
    LET S == inv[1] \cap PowerManaged
    IN
    /\ ipc[p] = "idle"
    /\ S # {}
    /\ ipc' = [ipc EXCEPT ![p] = "grouping"]
    /\ todo' = [todo EXCEPT ![p] = Calls(S, inv[2])]
    /\ assign' = [assign EXCEPT ![p] = Placement(S, inv[2])]
    /\ UNCHANGED <<resp, waiting, inserted, policies, placed>>

(* create_nodeset_placement_groups builds one create_placement_request per *)
(* group and sends them all with map_with_futures(ensure_execute, ...).    *)
BeginCall(p, call) ==
    /\ ipc[p] = "grouping"
    /\ call \in todo[p]
    /\ ipc' = [ipc EXCEPT ![p] = "creating"]
    /\ todo' = [todo EXCEPT ![p] = @ \ {call}]
    /\ resp' = [resp EXCEPT ![p] = [g \in call |-> "pending"]]
    /\ UNCHANGED <<waiting, assign, inserted, policies, placed>>

(* One resourcePolicies.insert reaching the provider. *)
create_placement_request(p, g) ==
    /\ ipc[p] = "creating"
    /\ g \in DOMAIN resp[p]
    /\ resp[p][g] = "pending"
    /\ IF g \in DOMAIN policies
       THEN /\ resp' = [resp EXCEPT ![p][g] = "alreadyExists"]
            /\ UNCHANGED policies
       ELSE \/ /\ resp' = [resp EXCEPT ![p][g] = "op"]
               /\ policies' = (g :> "creating") @@ policies
            \/ \E f \in CreateFailures :
                  /\ resp' = [resp EXCEPT ![p][g] = f]
                  /\ UNCHANGED policies
    /\ UNCHANGED <<ipc, todo, waiting, assign, inserted, placed>>

(* The results grouped by classify_result; a failed one makes the fatal   *)
(* log line unpack an exception (TypeError) and the invocation dies.       *)
Classify(p) ==
    LET kind(g) == classify_result(resp[p][g])
    IN
    /\ ipc[p] = "creating"
    /\ \A g \in DOMAIN resp[p] : resp[p][g] # "pending"
    /\ IF \E g \in DOMAIN resp[p] : kind(g) = "failed"
       THEN /\ ipc' = [ipc EXCEPT ![p] = "crashed"]
            /\ UNCHANGED waiting
       ELSE /\ ipc' = [ipc EXCEPT ![p] = "waiting"]
            /\ waiting' = [waiting EXCEPT ![p] = {g \in DOMAIN resp[p] : kind(g) = "submitted"}]
    /\ UNCHANGED <<todo, resp, assign, inserted, policies, placed>>

(* The provider finishes a creation operation, possibly with an error. *)
CompleteCreation(g) ==
    /\ g \in DOMAIN policies
    /\ policies[g] = "creating"
    /\ \/ policies' = [policies EXCEPT ![g] = "ready"]
       \/ OpMayFail /\ policies' = [h \in DOMAIN policies \ {g} |-> policies[h]]
    /\ UNCHANGED <<ipc, todo, resp, waiting, assign, inserted, placed>>

(* Mutant: the wait lasts until the policy is ready. *)
wait_for_operation_until_ready(p, g) ==
    /\ ipc[p] = "waiting"
    /\ g \in waiting[p]
    /\ g \in DOMAIN policies /\ policies[g] = "ready"
    /\ waiting' = [waiting EXCEPT ![p] = @ \ {g}]
    /\ UNCHANGED <<ipc, todo, resp, assign, inserted, policies, placed>>

(* wait_for_operation on one submitted creation; an error is only logged. *)
wait_for_operation(p, g) ==
    /\ ipc[p] = "waiting"
    /\ g \in waiting[p]
    /\ ~(g \in DOMAIN policies /\ policies[g] = "creating")
    /\ waiting' = [waiting EXCEPT ![p] = @ \ {g}]
    /\ UNCHANGED <<ipc, todo, resp, assign, inserted, policies, placed>>

(* create_nodeset_placement_groups returns its groups; the next call of   *)
(* the grouping begins, or group_nodes_bulk returns.                      *)
EndCall(p) ==
    /\ ipc[p] = "waiting"
    /\ waiting[p] = {}
    /\ ipc' = [ipc EXCEPT ![p] = IF todo[p] = {} THEN "inserting" ELSE "grouping"]
    /\ UNCHANGED <<todo, resp, waiting, assign, inserted, policies, placed>>

(* The bulkInsert of the chunk carrying placement group g: its            *)
(* instanceProperties name g in resourcePolicies.                         *)
InsertWithPolicy(p, g) ==
    /\ ipc[p] = "inserting"
    /\ g \in DOMAIN assign[p] \ inserted[p]
    /\ assign[p][g] # {}
    /\ inserted' = [inserted EXCEPT ![p] = @ \cup {g}]
    /\ placed' = IF g \in DOMAIN placed
                 THEN [placed EXCEPT ![g] = @ \cup assign[p][g]]
                 ELSE (g :> assign[p][g]) @@ placed
    /\ UNCHANGED <<ipc, todo, resp, waiting, assign, policies>>

(* resume_nodes goes on to the waits and reconciliation (Resume) and the  *)
(* invocation ends.                                                        *)
Finish(p) ==
    /\ ipc[p] \in {"grouping", "inserting"}
    /\ todo[p] = {}
    /\ \A g \in DOMAIN assign[p] : assign[p][g] # {} => g \in inserted[p]
    /\ ipc' = [ipc EXCEPT ![p] = "done"]
    /\ UNCHANGED <<todo, resp, waiting, assign, inserted, policies, placed>>

(* The steps an invocation takes by itself once it runs. *)
Step(p) ==
    \/ \E call \in todo[p] : BeginCall(p, call)
    \/ \E g \in DOMAIN resp[p] : create_placement_request(p, g)
    \/ \E g \in waiting[p] : wait_for_operation(p, g)
    \/ \E g \in DOMAIN assign[p] : InsertWithPolicy(p, g)
    \/ Classify(p)
    \/ EndCall(p)
    \/ Finish(p)

Next ==
    \/ \E p \in Procs, inv \in Invocations : Start(p, inv)
    \/ \E p \in Procs : Step(p)
    \/ \E g \in DOMAIN policies : CompleteCreation(g)

(* A running Python process keeps executing; the provider finishes every  *)
(* operation it accepted (wait_for_operation has no timeout).             *)
Fairness ==
    /\ \A p \in Procs : WF_vars(Step(p))
    /\ \A g \in PgNames : WF_vars(CompleteCreation(g))

Spec == Init /\ [][Next]_vars /\ Fairness

-----------------------------------------------------------------------------
TypeOK ==
    /\ ipc \in [Procs -> {"idle", "grouping", "creating", "waiting", "inserting",
                          "done", "crashed"}]
    /\ \A p \in Procs :
          /\ todo[p] \subseteq SUBSET PgNames
          /\ DOMAIN resp[p] \subseteq PgNames
          /\ \A g \in DOMAIN resp[p] : resp[p][g] \in {"pending"} \cup Responses
          /\ waiting[p] \subseteq {g \in DOMAIN resp[p] : resp[p][g] = "op"}
          /\ inserted[p] \subseteq DOMAIN assign[p]
    /\ DOMAIN policies \subseteq PgNames
    /\ \A g \in DOMAIN policies : policies[g] \in {"creating", "ready"}
    /\ \A g \in DOMAIN placed : placed[g] \subseteq Nodes

(* However the invocations interleave and repeat, the instances they ask  *)
(* to place in one placement policy never exceed PLACEMENT_MAX_CNT (spec   *)
(* 2: a placement group holds at most 150 nodes). Holding it takes the     *)
(* names of group_nodes_bulk to depend on the job and on its whole         *)
(* allocation, not on the nodes one invocation happens to resume.          *)
PolicyWithinCapacity ==
    \A g \in DOMAIN placed : Cardinality(placed[g]) <= PLACEMENT_MAX_CNT

(* A bulkInsert names a placement policy only once the provider has        *)
(* finished creating it: a "redundant" answer means the policy exists, and *)
(* create_nodeset_placement_groups returns only after its creations ended. *)
InsertsIntoReadyPolicy ==
    [][\A p \in Procs : \A g \in inserted'[p] \ inserted[p] :
          g \in DOMAIN policies /\ policies[g] = "ready"]_vars

(* Spec 4.3: a group classify_result calls "redundant" is one whose       *)
(* policy already exists. When create_nodeset_placement_groups passes its *)
(* classification, every group it does not wait for names a policy the    *)
(* provider has (being created or ready).                                  *)
RedundantMeansExists ==
    [][\A p \in Procs :
          ipc[p] = "creating" /\ ipc'[p] = "waiting" =>
             \A g \in DOMAIN resp[p] \ waiting'[p] : g \in DOMAIN policies]_vars

(* Every ResumeProgram invocation that started ends, normally or by an     *)
(* exception: no invocation waits forever on another's policy.             *)
Termination ==
    \A p \in Procs : ipc[p] # "idle" ~> ipc[p] \in {"done", "crashed"}
=============================================================================
