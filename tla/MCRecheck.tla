------------------------------ MODULE MCRecheck ------------------------------
(***************************************************************************)
(* The timers of one asset: telemetry, inspections and mods applied, two   *)
(* required mods with different due dates, and a revision of the baseline  *)
(* that moves them.                                                        *)
(*                                                                         *)
(* A delayed call is due at the latest RECHECK_MIN_DELAY_S after its       *)
(* target, and a target is a due date or the end of a staleness window, so *)
(* HorizonAssumption makes every call come due before the clock stops.     *)
(***************************************************************************)
EXTENDS AssetCMProperties

CONSTANTS early, late, base, edge

Dated(v, d) ==
  [id |-> base, version |-> v, slots |-> [s \in Slots |-> "required"],
   required |-> Mods, severity |-> [m \in Mods |-> SEVERITY_MINOR], due |-> d]

MCVariants == {1}
OneDate == [m \in Mods |-> IF m = late THEN 4 ELSE 0]
TwoDates == [m \in Mods |-> IF m = late THEN 3 ELSE 2]
MCRegistries ==
  { [v \in MCVariants |-> Dated(1, OneDate)],
    [v \in MCVariants |-> Dated(2, TwoDates)] }

\* For the violation runs: no dates at all, or one mod with one date.
Undated == { [v \in MCVariants |-> Dated(1, [m \in Mods |-> 0])] }
OneDated == { [v \in MCVariants |-> Dated(1, [m \in Mods |-> 2])] }

MCSilverMessages ==
  { [status |-> OPERATIONAL_STATUS_OTHER, variant |-> 1, edge |-> edge,
      label |-> Blank] }

MCCmMessages ==
  { [type |-> "mod_applied", mod |-> late, appliedAt |-> Blank],
    [type |-> "inspection_completed", passed |-> TRUE],
    [type |-> "serial_corrected"] }

ASSUME HorizonAssumption ==
  /\ MaxTime >= InputUntil + (STALENESS_WINDOW_S + RECHECK_MIN_DELAY_S) * Second
  /\ \A g \in MCRegistries, v \in MCVariants, m \in Mods :
       MaxTime >= (g[v].due[m] + 1 + RECHECK_MIN_DELAY_S) * Second
=============================================================================
