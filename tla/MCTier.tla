------------------------------- MODULE MCTier -------------------------------
(***************************************************************************)
(* One asset with one fault that is reported, reported again, redelivered  *)
(* and resolved, one mod, and a tier store that lags, while Restate state  *)
(* is wiped or cleared at any point.                                       *)
(***************************************************************************)
EXTENDS TierStore

CONSTANTS mod, base, other, first, second, hull, crack

Plain(id, s) ==
  [id |-> id, version |-> 1, slots |-> [x \in Slots |-> "required"],
   required |-> Mods, severity |-> [m \in Mods |-> s], due |-> [m \in Mods |-> 0]]

MCVariants == {1, 2}
\* A reload exchanges the two baselines; neither is ever gone.
MCRegistries ==
  { [v \in MCVariants |-> IF v = w THEN Plain(base, SEVERITY_MINOR)
                          ELSE Plain(other, SEVERITY_INFO)] : w \in MCVariants }
\* For the violation run: one registry.
OneRegistry ==
  { [v \in MCVariants |-> IF v = 1 THEN Plain(base, SEVERITY_MINOR)
                          ELSE Plain(other, SEVERITY_INFO)] }

Telemetry(v) ==
  [status |-> OPERATIONAL_STATUS_OTHER, variant |-> v, edge |-> Blank,
   label |-> Blank]
MCSilverMessages == { Telemetry(1) }
\* Telemetry that names no platform variant.
ThinTelemetry == { Telemetry(1), Telemetry(Blank) }

Fault(c, f, s, ev) ==
  [type |-> "manual_discrepancy", component |-> c, fault |-> f,
   severity |-> s, event |-> ev]
Fixed(at) ==
  [type |-> "manual_discrepancy_resolved", component |-> hull,
   fault |-> crack, recordedAt |-> at]

MCCmMessages ==
  { Fault(hull, crack, SEVERITY_MINOR, first),
    Fault(hull, crack, SEVERITY_CRITICAL, second),
    Fixed(Blank),
    [type |-> "mod_applied", mod |-> mod, appliedAt |-> 1] }

FaultEvents == { Fault(hull, crack, SEVERITY_MINOR, first) }
=============================================================================
