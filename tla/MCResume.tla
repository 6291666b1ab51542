------------------------------ MODULE MCResume ------------------------------
(***************************************************************************)
(* Model-checking instances of Resume.                                     *)
(*                                                                         *)
(* Grouping model (MCResume_grouping.cfg): nodesets a (placement enabled,  *)
(* supported family, 2 nodes), b (placement enabled, unsupported family,   *)
(* 3 nodes) and t (TPU, 2-VM pods, 2 nodes); PLACEMENT_MAX_CNT = 1 and    *)
(* BULK_INSERT_LIMIT = 2 stand for 150 and 5000, so a job of a is split    *)
(* into two placement groups and a bucket of b into two bulk chunks.       *)
(*                                                                         *)
(* Failure model (MCResume_failures.cfg): nodeset a (placement, 2 nodes),  *)
(* a one-VM TPU nodeset t, and a node of nodeset b that is not power       *)
(* managed; every provider failure is allowed.                             *)
(***************************************************************************)
EXTENDS Resume, FiniteSetsExt

GNodes == 1..7
GNodesetOf == [n \in GNodes |-> IF n <= 2 THEN "a" ELSE IF n <= 5 THEN "b" ELSE "t"]
GPartitions == ("pn" :> {"a", "b"}) @@ ("pt" :> {"t"})
GVmCount == "t" :> 2

FNodes == 1..4
FNodesetOf == [n \in FNodes |-> IF n <= 2 THEN "a" ELSE IF n = 3 THEN "t" ELSE "b"]
FPartitions == ("pn" :> {"a", "b"}) @@ ("pt" :> {"t"})
FVmCount == "t" :> 1

(* The grouping model checks the chunks main() computes, which no later  *)
(* step changes, and does not explore the provisioning steps.             *)
GroupingOnly == pc = "idle"

(* Every resume file slurmctld may write for these nodes, up to renaming  *)
(* of job ids (the code uses ids only as dict keys and in names): no file, *)
(* no job, one job, or two jobs with distinct ids on disjoint nodes        *)
(* (exclusive allocation), the job with the smaller id holding the         *)
(* smallest node. Each allocation is non-empty and within the nodesets of  *)
(* its partition.                                                          *)
ResumeFiles ==
    LET recs(id) == UNION {[job_id : {id}, partition : {p},
                            nodes_alloc : SUBSET NodesIn(PartitionNodesets[p]) \ {{}}] :
                             p \in DOMAIN PartitionNodesets}
    IN  {None, {}} \cup {{r} : r \in recs(Min(JobIds))}
        \cup {{x, y} : <<x, y>> \in
                 {p \in recs(Min(JobIds)) \X recs(Max(JobIds)) :
                    /\ p[1].nodes_alloc \cap p[2].nodes_alloc = {}
                    /\ Min(p[1].nodes_alloc) < Min(p[2].nodes_alloc)}}

=============================================================================
