------------------------- MODULE InstanceProperties -------------------------
(***************************************************************************)
(* The request body create_instances_request builds for one bulk chunk,   *)
(* with instance_properties, update_props_dws and dws_flex_duration.       *)
(*                                                                         *)
(* An NSDict is a function from keys to values; an absent key reads as an  *)
(* empty NSDict (util.NSDict creates it on first use), and NSDict.update   *)
(* is dict.update: it replaces whole top-level values. The nodeset         *)
(* configuration and the chunk are the input, chosen in Init from every    *)
(* combination of the small sets below; one step builds the body.          *)
(***************************************************************************)
EXTENDS Integers, Sequences, FiniteSets, TLC

CONSTANTS
    None,
    Gone,             \* lookup().job(job_id) found no job (model value)
    Zones,            \* zone names
    JobDurations,     \* job.duration in seconds (0 = no time limit set)
    MAX_RUN_DURATION, \* dws_flex.max_run_duration of the nodeset
    Overrides,        \* nodeset.instance_properties the nodeset may have
    ZoneAllow,        \* the zone_policy_allow lists a nodeset may have
    ZoneDeny          \* the zone_policy_deny lists

-----------------------------------------------------------------------------
(* NSDict helpers. *)
Get(d, k) == IF k \in DOMAIN d THEN d[k] ELSE <<>>
Put(d, k, v) == (k :> v) @@ d
PutIn(d, k, k2, v) == Put(d, k, Put(Get(d, k), k2, v))

TWO_WEEKS == 14 * 24 * 3600

(* The chunk and the configuration of its nodeset. job is None when the   *)
(* chunk has no job id, Gone when lookup().job finds no such job.          *)
Reservations == [policies : {<<>>, <<"rp">>}, dense : BOOLEAN]
DwsFlex == [use_job_duration : BOOLEAN]
Inputs ==
    [placement_group : {None, "pg"}, job : {None, Gone} \cup JobDurations,
     exclusive : BOOLEAN, reservation : {None} \cup Reservations,
     maintenance_interval : {None, "PERIODIC"}, dws_flex : {None} \cup DwsFlex,
     instance_properties : Overrides, zone_allow : ZoneAllow, zone_deny : ZoneDeny]

VARIABLES
    inp,   \* the chunk and its nodeset
    body   \* the request body, None until built

vars == <<inp, body>>

-----------------------------------------------------------------------------
(* Mutant: a job time limit of exactly two weeks is not used. *)
dws_flex_duration_excl(dws, job) ==
    IF dws.use_job_duration /\ job \notin {None, Gone} /\ job # 0
       /\ 30 <= job /\ job < TWO_WEEKS
    THEN job ELSE MAX_RUN_DURATION

(* dws_flex_duration: the job's time limit when asked for and within      *)
(* [30 s, 2 weeks]; job_id None, an unknown job and a zero (falsy)         *)
(* duration all give the nodeset's max_run_duration.                      *)
dws_flex_duration(dws, job) ==
    IF dws.use_job_duration /\ job \notin {None, Gone} /\ job # 0
       /\ 30 <= job /\ job <= TWO_WEEKS
    THEN job ELSE MAX_RUN_DURATION

update_props_dws(props, dws, job) ==
    LET p1 == PutIn(props, "scheduling", "onHostMaintenance", "TERMINATE")
        p2 == PutIn(p1, "scheduling", "instanceTerminationAction", "DELETE")
        p3 == PutIn(p2, "reservationAffinity", "consumeReservationType", "NO_RESERVATION")
    IN  PutIn(p3, "scheduling", "maxRunDuration",
              Put(Get(Get(p3, "scheduling"), "maxRunDuration"), "seconds",
                  dws_flex_duration(dws, job)))

(* instance_properties, each step on the result of the one before. *)
instance_properties(i, labels) ==
    LET r == i.reservation
        p1 == IF labels THEN ("labels" :> "template+job") @@ ("disks" :> "labelled")
              ELSE <<>>
        p2 == IF i.placement_group # None
              THEN Put(PutIn(p1, "scheduling", "onHostMaintenance", "TERMINATE"),
                       "resourcePolicies", <<i.placement_group>>)
              ELSE p1
        p3 == IF r = None THEN p2
              ELSE LET a == Put(p2, "reservationAffinity",
                                ("consumeReservationType" :> "SPECIFIC_RESERVATION")
                                @@ ("key" :> "reservation-name") @@ ("values" :> <<"res">>))
                       b == IF r.dense
                            THEN PutIn(a, "scheduling", "provisioning_model", "RESERVATION_BOUND")
                            ELSE a
                   IN  IF r.policies # <<>>
                       THEN Put(PutIn(b, "scheduling", "onHostMaintenance", "TERMINATE"),
                                "resourcePolicies", r.policies)
                       ELSE Put(b, "resourcePolicies", <<>>)
        p4 == IF i.maintenance_interval # None
              THEN PutIn(p3, "scheduling", "maintenanceInterval", i.maintenance_interval)
              ELSE p3
        p5 == IF i.dws_flex # None THEN update_props_dws(p4, i.dws_flex, i.job) ELSE p4
    IN  i.instance_properties @@ p5

(* The regional call's location policy: ALLOW for the allowed zones, then *)
(* DENY for the denied ones (a zone in both lists is DENY).               *)
LocationPolicy(i) ==
    LET allow == {i.zone_allow[k] : k \in DOMAIN i.zone_allow}
        deny == {i.zone_deny[k] : k \in DOMAIN i.zone_deny}
    IN  ("locations" :> [z \in allow \cup deny |-> IF z \in deny THEN "DENY" ELSE "ALLOW"])
        @@ ("targetShape" :> "shape")

(* Mutant: the location policy is also set on the zonal path. *)
ZonalCall_located(i, sized) ==
    Put(Put(sized, "locationPolicy", LocationPolicy(i)), "zone", i.zone_allow[1])

(* The zonal bulkInsert: the zone is the only allowed one. *)
ZonalCall(i, sized) == Put(sized, "zone", i.zone_allow[1])

(* create_instances_request: minCount, the job-exclusive labels, the      *)
(* zonal fast path for a single allowed zone, else the regional call with  *)
(* its location policy. count and perInstanceProperties only list nodes.   *)
create_instances_request(i) ==
    LET labels == i.job # None /\ i.exclusive
        shape == ("sourceInstanceTemplate" :> "template")
                 @@ ("instanceProperties" :> instance_properties(i, labels))
        sized == IF i.placement_group # None THEN shape ELSE Put(shape, "minCount", 1)
    IN  IF Len(i.zone_allow) = 1 THEN ZonalCall(i, sized)
        ELSE Put(sized, "locationPolicy", LocationPolicy(i))

Init ==
    /\ inp \in Inputs
    /\ body = None

Build ==
    /\ body = None
    /\ body' = create_instances_request(inp)
    /\ UNCHANGED inp

(* The request has been sent; nothing else happens to it. *)
Sent ==
    /\ body # None
    /\ UNCHANGED vars

Next == Build \/ Sent

Spec == Init /\ [][Next]_vars

-----------------------------------------------------------------------------
TypeOK ==
    /\ inp \in Inputs
    /\ body = None
       \/ /\ {"sourceInstanceTemplate", "instanceProperties"} \subseteq DOMAIN body
          /\ ("zone" \in DOMAIN body) # ("locationPolicy" \in DOMAIN body)

(* The precedence of spec 4.4, field by field: what each computed         *)
(* scheduling field, the resource policies, the reservation affinity type  *)
(* and the labels must be.                                                 *)
Absent == "absent"
SpecDuration(i) ==
    IF i.dws_flex.use_job_duration /\ i.job \in JobDurations /\ i.job \in 30 .. TWO_WEEKS
    THEN i.job ELSE MAX_RUN_DURATION
SpecScheduling(i) ==
    LET dws == i.dws_flex # None
        res == i.reservation
        entries ==
          {e \in {<<"onHostMaintenance", "TERMINATE">>,
                  <<"provisioning_model", "RESERVATION_BOUND">>,
                  <<"maintenanceInterval", i.maintenance_interval>>,
                  <<"instanceTerminationAction", "DELETE">>,
                  <<"maxRunDuration", IF dws THEN "seconds" :> SpecDuration(i) ELSE Absent>>} :
             CASE e[1] = "onHostMaintenance" ->
                    i.placement_group # None \/ dws
                    \/ (res # None /\ res.policies # <<>>)
               [] e[1] = "provisioning_model" -> res # None /\ res.dense
               [] e[1] = "maintenanceInterval" -> i.maintenance_interval # None
               [] OTHER -> dws}
    IN  [k \in {e[1] : e \in entries} |-> (CHOOSE e \in entries : e[1] = k)[2]]
SpecResourcePolicies(i) ==
    IF i.reservation # None THEN i.reservation.policies
    ELSE IF i.placement_group # None THEN <<i.placement_group>> ELSE Absent
SpecAffinityType(i) ==
    IF i.dws_flex # None THEN "NO_RESERVATION"
    ELSE IF i.reservation # None THEN "SPECIFIC_RESERVATION" ELSE Absent
Field(d, k) == IF k \in DOMAIN d THEN d[k] ELSE Absent

(* Every field instance_properties computes, and that the nodeset's       *)
(* instance_properties do not override, has the value the precedence of    *)
(* spec 4.4 gives: the reservation's policies replace the placement group  *)
(* (or clear it), flexible capacity forces termination and no-reservation  *)
(* affinity, the run duration is the job's limit only within [30 s, 2      *)
(* weeks]; minCount is unset exactly when a placement group is attached,   *)
(* and the zonal call is used exactly for a single allowed zone.           *)
ComputedFieldsPerSpec ==
    body # None =>
      LET p == body["instanceProperties"]
          o == DOMAIN inp.instance_properties
      IN  /\ "scheduling" \notin o => Get(p, "scheduling") = SpecScheduling(inp)
          /\ "resourcePolicies" \notin o =>
                Field(p, "resourcePolicies") = SpecResourcePolicies(inp)
          /\ "reservationAffinity" \notin o =>
                Field(Get(p, "reservationAffinity"), "consumeReservationType")
                  = SpecAffinityType(inp)
          /\ "labels" \notin o =>
                ("labels" \in DOMAIN p <=> inp.job # None /\ inp.exclusive)
          /\ "minCount" \notin DOMAIN body <=> inp.placement_group # None
          /\ "zone" \in DOMAIN body <=> Len(inp.zone_allow) = 1

(* A nodeset override of some scheduling fields keeps the scheduling      *)
(* fields it does not name as computed (spec 4.4: the overrides are merged *)
(* on top of all of the above).                                            *)
OverridesKeepComputedFields ==
    body # None /\ "scheduling" \in DOMAIN inp.instance_properties =>
      LET sched == Get(body["instanceProperties"], "scheduling")
          given == DOMAIN inp.instance_properties["scheduling"]
      IN  \A k \in DOMAIN SpecScheduling(inp) \ given :
             k \in DOMAIN sched /\ sched[k] = SpecScheduling(inp)[k]
=============================================================================
