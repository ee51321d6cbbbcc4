------------------------------- MODULE Alerts -------------------------------
(***************************************************************************)
(* When a handler alerts (_persist_and_emit_transitions of                 *)
(* events/asset_cm.py), on any record with the fields status and alerted,  *)
(* the code's last_alerted_status.                                         *)
(***************************************************************************)
EXTENDS CmTypes

\* Every change among the bad statuses is detected afresh.
Detected_Mutant(r) == r.status >= CONFIG_STATUS_MAJOR_DISCREPANCY
                      /\ r.alerted # r.status
\* An asset that was never alerted about is not detected.
Detected_Quiet(r) == r.status >= CONFIG_STATUS_MAJOR_DISCREPANCY
                     /\ r.alerted \in {CONFIG_STATUS_IN_COMPLIANCE,
                                      CONFIG_STATUS_MINOR_DISCREPANCY}
Detected(r) == r.status >= CONFIG_STATUS_MAJOR_DISCREPANCY
               /\ r.alerted < CONFIG_STATUS_MAJOR_DISCREPANCY
Resolved_Mutant(r) == r.status = CONFIG_STATUS_IN_COMPLIANCE
                      /\ r.alerted > CONFIG_STATUS_MAJOR_DISCREPANCY
Resolved(r) == r.status = CONFIG_STATUS_IN_COMPLIANCE
               /\ r.alerted > CONFIG_STATUS_IN_COMPLIANCE

\* last_alerted_status follows the status, alert or not.
AfterAlert_Mutant(r) == [r EXCEPT !.alerted = r.status]
AfterAlert(r) ==
  IF Detected(r) \/ Resolved(r) THEN [r EXCEPT !.alerted = r.status] ELSE r
=============================================================================
