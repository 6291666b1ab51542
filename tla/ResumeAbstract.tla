--------------------------- MODULE ResumeAbstract ---------------------------
(***************************************************************************)
(* What one ResumeProgram invocation promises Slurm, without chunks,       *)
(* requests or provider operations: the nodes it is given start resuming   *)
(* (or already exist); while it runs, resuming nodes come up or are        *)
(* marked down; a node that came up is never marked down; the nodes it was *)
(* not given are left alone; after it ends nothing changes.                *)
(***************************************************************************)
CONSTANT Nodes

VARIABLES
    status,   \* node -> "off" | "resuming" | "created" | "down"
    running   \* "idle" | "running" | "ended"

avars == <<status, running>>

AInit ==
    /\ status = [n \in Nodes |-> "off"]
    /\ running = "idle"

(* The invocation takes the nodes S; some may already exist. It may end at *)
(* once, before provisioning anything.                                     *)
Begin(S, existing) ==
    /\ running = "idle"
    /\ existing \subseteq S
    /\ status' = [n \in Nodes |-> IF n \in existing THEN "created"
                                  ELSE IF n \in S THEN "resuming" ELSE "off"]
    /\ running' \in {"running", "ended"}

(* Instances of resuming nodes come up. *)
Create(T) ==
    /\ running = "running"
    /\ \A n \in T : status[n] = "resuming"
    /\ status' = [n \in Nodes |-> IF n \in T THEN "created" ELSE status[n]]
    /\ UNCHANGED running

(* Resuming nodes are marked down; an error may end the invocation as it  *)
(* does so.                                                               *)
Quarantine(T) ==
    /\ running = "running"
    /\ \A n \in T : status[n] \in {"resuming", "down"}
    /\ status' = [n \in Nodes |-> IF n \in T THEN "down" ELSE status[n]]
    /\ running' \in {"running", "ended"}

End ==
    /\ running = "running"
    /\ running' = "ended"
    /\ UNCHANGED status

ANext ==
    \/ \E S, existing \in SUBSET Nodes : Begin(S, existing)
    \/ \E T \in SUBSET Nodes : Create(T) \/ Quarantine(T)
    \/ End

ASpec == AInit /\ [][ANext]_avars
=============================================================================
