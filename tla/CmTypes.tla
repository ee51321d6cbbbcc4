------------------------------- MODULE CmTypes -------------------------------
(***************************************************************************)
(* The protobuf enumerations the service imports from the generated        *)
(* openddil.configuration.v1 package (code outside this repository), as    *)
(* far as src/ depends on them: severities and statuses are compared with  *)
(* < and >=, so they are numbers; lifecycle states and mod states are only *)
(* ever compared for equality, so they are names.                          *)
(***************************************************************************)
EXTENDS Naturals

SEVERITY_INFO     == 1
SEVERITY_MINOR    == 2
SEVERITY_MAJOR    == 3
SEVERITY_CRITICAL == 4
Severities == SEVERITY_INFO .. SEVERITY_CRITICAL

CONFIG_STATUS_UNSPECIFIED         == 0
CONFIG_STATUS_IN_COMPLIANCE       == 1
CONFIG_STATUS_MINOR_DISCREPANCY   == 2
CONFIG_STATUS_MAJOR_DISCREPANCY   == 3
CONFIG_STATUS_NOT_MISSION_CAPABLE == 4
Statuses == CONFIG_STATUS_UNSPECIFIED .. CONFIG_STATUS_NOT_MISSION_CAPABLE

LIFECYCLE_REGISTERED     == "registered"
LIFECYCLE_ACTIVE         == "active"
LIFECYCLE_STALE          == "stale"
LIFECYCLE_DECOMMISSIONED == "decommissioned"
Lifecycles == { LIFECYCLE_REGISTERED, LIFECYCLE_ACTIVE, LIFECYCLE_STALE,
                LIFECYCLE_DECOMMISSIONED }

\* MOD_UNTRACKED is "no compliance record for this mod", not an enum value.
\* OVERDUE, WAIVED and NOT_APPLICABLE are states the analyzer knows and no
\* handler writes; a row restored from the tier store may carry them.
MOD_UNTRACKED            == "untracked"
MOD_STATE_UNSPECIFIED    == "unspecified"
MOD_STATE_NOT_APPLICABLE == "not_applicable"
MOD_STATE_PENDING        == "pending"
MOD_STATE_OVERDUE        == "overdue"
MOD_STATE_APPLIED        == "applied"
MOD_STATE_WAIVED         == "waived"
ModStates == { MOD_UNTRACKED, MOD_STATE_UNSPECIFIED, MOD_STATE_NOT_APPLICABLE,
               MOD_STATE_PENDING, MOD_STATE_OVERDUE, MOD_STATE_APPLIED,
               MOD_STATE_WAIVED }
=============================================================================
