------------------------- MODULE MCPlacementPolicies -------------------------
(***************************************************************************)
(* Model-checking instances of PlacementPolicies: nodesets a (4 nodes) and *)
(* b (2 nodes), both with placement and a supported machine family;        *)
(* PLACEMENT_MAX_CNT = 2 stands for 150, so job 1 (all of a) needs two    *)
(* policies. Two invocations.                                              *)
(***************************************************************************)
EXTENDS PlacementPolicies

PNodes == 1..6
PNodesetOf == [n \in PNodes |-> IF n <= 4 THEN "a" ELSE "b"]
PPartitions == "pn" :> {"a", "b"}

Job1 == [job_id |-> 1, partition |-> "pn", nodes_alloc |-> {1, 2, 3, 4}]
Job2 == [job_id |-> 2, partition |-> "pn", nodes_alloc |-> {5, 6}]

(* Resumes of jobs 1 and 2, whole or in part (as when slurmctld resumes   *)
(* the nodes of a job that failed to come up again), alone or together.   *)
JobInvocations ==
    {<<{1, 2}, {Job1}>>, <<{3, 4}, {Job1}>>,
     <<{1, 2, 3, 4, 5, 6}, {Job1, Job2}>>}

(* Resumes of nodes without a job (scontrol power_up, or no resume file). *)
JoblessInvocations == {<<{1, 2}, None>>, <<{3, 4}, None>>}

(* A resume of nodes of one job, for the single-invocation runs. *)
WholeJob1 == {<<{1, 2, 3, 4}, {Job1}>>}
=============================================================================
