----------------------------- MODULE AssetPromise -----------------------------
(***************************************************************************)
(* What the service promises about one asset to whoever only reads its two *)
(* topics: a lifecycle that takes only these turns, a status, an alarm     *)
(* with hysteresis (raised at MAJOR, cleared in compliance and nowhere in  *)
(* between), and a published view that is never behind. Nothing here knows *)
(* of baselines, findings, delayed calls, last_alerted_status or publish   *)
(* signatures.                                                             *)
(***************************************************************************)
EXTENDS CmTypes

VARIABLES
  lifecycle,  \* "unknown" until the asset is first seen
  status,
  alarm,      \* the last alert says "detected"
  shown       \* lifecycle and status as last published

promiseVars == <<lifecycle, status, alarm, shown>>

\* The turns a handler other than decommission may take.
Turns == { <<"unknown", LIFECYCLE_REGISTERED>>, <<"unknown", LIFECYCLE_ACTIVE>>,
           <<LIFECYCLE_ACTIVE, LIFECYCLE_STALE>>,
           <<LIFECYCLE_STALE, LIFECYCLE_ACTIVE>> }
         \cup { <<l, l>> : l \in Lifecycles }

\* Statuses an analysis may leave; without one the status stays as it was.
Analyses == Statuses \ {CONFIG_STATUS_UNSPECIFIED}

Shows == shown' = [lifecycle |-> lifecycle', status |-> status']

-----------------------------------------------------------------------------
\* First seen without a baseline: visible, with no status.
Register ==
  /\ lifecycle = "unknown" /\ lifecycle' = LIFECYCLE_REGISTERED
  /\ UNCHANGED <<status, alarm>>
  /\ Shows

\* Any other handler: the status moves freely, the alarm follows it.
Handle ==
  /\ <<lifecycle, lifecycle'>> \in Turns
  /\ \/ status' \in Analyses
     \/ lifecycle # "unknown" /\ status' = status
  /\ alarm' = ( \/ status' >= CONFIG_STATUS_MAJOR_DISCREPANCY
                \/ alarm /\ status' # CONFIG_STATUS_IN_COMPLIANCE )
  /\ Shows

Retire ==
  /\ lifecycle # "unknown" /\ lifecycle' = LIFECYCLE_DECOMMISSIONED
  /\ UNCHANGED <<status, alarm>>
  /\ Shows

Init ==
  /\ lifecycle = "unknown"
  /\ status = CONFIG_STATUS_UNSPECIFIED
  /\ alarm = FALSE
  /\ shown = [lifecycle |-> "unknown", status |-> CONFIG_STATUS_UNSPECIFIED]

Next == Register \/ Handle \/ Retire

Spec == Init /\ [][Next]_promiseVars
=============================================================================
