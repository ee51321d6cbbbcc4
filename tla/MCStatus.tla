------------------------------ MODULE MCStatus ------------------------------
(***************************************************************************)
(* One asset under telemetry, CM events and baseline reloads: one slot, a  *)
(* required mod with a due date inside the horizon, two variants, and a    *)
(* second baseline that may or may not be loaded.                          *)
(***************************************************************************)
EXTENDS AssetCMProperties

CONSTANTS slot, mod, part, base, other, event, edge, nation, hull

BaseBaseline ==
  [id |-> base, version |-> 1, slots |-> [s \in Slots |-> "required"],
   required |-> Mods, severity |-> [m \in Mods |-> SEVERITY_MINOR],
   due |-> [m \in Mods |-> 2]]

\* A later revision of base: the mod is critical and its date has moved.
RevisedBaseline ==
  [BaseBaseline EXCEPT !.version = 2, !.due[mod] = 1,
                       !.severity[mod] = SEVERITY_MAJOR]

OtherBaseline ==
  [BaseBaseline EXCEPT !.id = other, !.slots[slot] = "optional",
                       !.due[mod] = 0, !.severity[mod] = SEVERITY_INFO]

MCVariants == {1, 2}
MCRegistries ==
  { [v \in MCVariants |-> IF v = 1 THEN BaseBaseline ELSE None],
    [v \in MCVariants |-> IF v = 1 THEN RevisedBaseline ELSE OtherBaseline] }

\* For the violation runs: one baseline, and a baseline added later.
OneRegistry == { [v \in MCVariants |-> BaseBaseline] }
AddedRegistry ==
  { [v \in MCVariants |-> IF v = 1 THEN BaseBaseline ELSE None],
    [v \in MCVariants |-> IF v = 1 THEN BaseBaseline ELSE OtherBaseline] }
Telemetry(v, e, l) ==
  [status |-> OPERATIONAL_STATUS_OTHER, variant |-> v, edge |-> e, label |-> l]
NamedTelemetry == { Telemetry(v, edge, nation) : v \in MCVariants }

\* A full message, a thin one, a removal and one nobody can decode.
MCSilverMessages ==
  { Telemetry(1, edge, nation),
    Telemetry(2, Blank, Blank),
    [Telemetry(Blank, Blank, Blank) EXCEPT !.status = OPERATIONAL_STATUS_REMOVED],
    None }

MCCmMessages ==
  { [type |-> "part_replaced", slot |-> slot, ci |-> part],
    [type |-> "mod_applied", mod |-> mod, appliedAt |-> Blank],
    None,
    [type |-> "baseline_assigned", baseline |-> other],
    [type |-> "manual_discrepancy", component |-> hull, fault |-> Blank,
     severity |-> SEVERITY_MAJOR, event |-> event],
    [type |-> "manual_discrepancy", component |-> Blank, fault |-> Blank,
     severity |-> Blank, event |-> Blank] }

GraveFault ==
  { [type |-> "manual_discrepancy", component |-> hull, fault |-> Blank,
     severity |-> SEVERITY_CRITICAL, event |-> event] }
=============================================================================
