------------------------ MODULE MCInstanceProperties ------------------------
(***************************************************************************)
(* Model-checking instance of InstanceProperties: job time limits at both  *)
(* ends of [30 s, 2 weeks] and just outside, zero (no limit), and a job    *)
(* that is gone; every reservation, DWS and placement combination; zone    *)
(* lists of 0, 1 and 2 allowed zones, with and without a denied zone.      *)
(***************************************************************************)
EXTENDS InstanceProperties

Durations == {0, 29, 30, TWO_WEEKS, TWO_WEEKS + 1}

(* No override, a provisioning-model override (a common use of            *)
(* instance_properties), and a labels override.                           *)
OverrideChoices ==
    {<<>>, "scheduling" :> ("provisioningModel" :> "SPOT"), "labels" :> "user"}

AllowLists == {<<>>, <<"z1">>, <<"z1", "z2">>}
DenyLists == {<<>>, <<"z2">>}
=============================================================================
