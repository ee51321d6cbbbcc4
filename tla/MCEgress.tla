------------------------------- MODULE MCEgress -------------------------------
(***************************************************************************)
(* One asset that is fine or broken; the revised registry calls the same   *)
(* finding less grave.                                                     *)
(***************************************************************************)
EXTENDS EgressProperties

CONSTANTS fine, broken

MCStatusUnder ==
  << [f \in Findings |-> IF f = fine THEN CONFIG_STATUS_IN_COMPLIANCE
                         ELSE CONFIG_STATUS_NOT_MISSION_CAPABLE],
     [f \in Findings |-> IF f = fine THEN CONFIG_STATUS_IN_COMPLIANCE
                         ELSE CONFIG_STATUS_MINOR_DISCREPANCY] >>
MCTopics == {ALERT_TOPIC, STATE_TOPIC}
=============================================================================
