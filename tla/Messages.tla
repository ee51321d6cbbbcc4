------------------------------- MODULE Messages -------------------------------
(***************************************************************************)
(* What the two Kafka subscriptions deliver to an AssetCM object, and what *)
(* its handlers read of it (the decoders and extractors of                 *)
(* events/asset_cm.py). Both handlers are handed bytes. A message that is  *)
(* not the protobuf they expect, a JSON document among others, decodes to  *)
(* an empty event, and the handler runs on with that.                      *)
(***************************************************************************)
EXTENDS Persistence

CONSTANTS
  Variants,        \* platform variants, numbered in sorted order
  SilverMessages,  \* telemetry that may arrive; None is an undecodable one
  CmMessages       \* CM events that may arrive; None is an undecodable one

OPERATIONAL_STATUS_REMOVED == "removed"
OPERATIONAL_STATUS_OTHER == "other"

\* EntityTelemetryEvent. A field left out is empty, and so is a variant that
\* says "UNKNOWN".
SilverMessage ==
  [status : {OPERATIONAL_STATUS_REMOVED, OPERATIONAL_STATUS_OTHER},
   variant : Variants \cup {Blank}, edge : Edges \cup {Blank},
   label : Labels \cup {Blank}]

\* CmEvent, one shape per branch of _apply_event_to_record. "none" names no
\* branch. A severity is free text; Blank is any text but the four names.
CmMessage ==
  [type : {"part_replaced"}, slot : Slots, ci : CIs]
  \cup [type : {"mod_applied"}, mod : Mods, appliedAt : Nat \cup {Blank}]
  \cup [type : {"inspection_completed"}, passed : BOOLEAN]
  \cup [type : {"serial_corrected", "none"}]
  \cup [type : {"baseline_assigned"}, baseline : BaselineIds]
  \cup [type : {"manual_discrepancy"}, component : Components \cup {Blank},
        fault : Faults \cup {Blank}, severity : Severities \cup {Blank},
        event : EventIds \cup {Blank}]
  \cup [type : {"manual_discrepancy_resolved"},
        component : Components \cup {Blank}, fault : Faults \cup {Blank},
        recordedAt : Nat \cup {Blank}]

ASSUME VariantsAssumption == Variants \subseteq Nat
ASSUME SilverAssumption == SilverMessages \subseteq SilverMessage \cup {None}
ASSUME CmAssumption == CmMessages \subseteq CmMessage \cup {None}

\* _decode_silver_event, then _is_removal and the extractors.
SilverEvent(m) ==
  IF m = None
  THEN [removed |-> FALSE, variant |-> Blank, edge |-> Blank, label |-> Blank]
  ELSE [removed |-> m.status = OPERATIONAL_STATUS_REMOVED,
        variant |-> m.variant, edge |-> m.edge, label |-> m.label]

\* _decode_cm_event; a report with an unknown severity is a MINOR one.
CmEvent(m) ==
  IF m = None THEN [type |-> "none"]
  ELSE IF m.type = "manual_discrepancy"
  THEN [m EXCEPT !.severity = IF @ = Blank THEN SEVERITY_MINOR ELSE @]
  ELSE m

SilverEvents == { SilverEvent(m) : m \in SilverMessages }
CmEvents == { CmEvent(m) : m \in CmMessages }
=============================================================================
