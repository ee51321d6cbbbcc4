----------------------------- MODULE Persistence -----------------------------
(***************************************************************************)
(* The three forms of an asset's record and the ways between them: the     *)
(* dataclass the handlers work on (as_maintained/persistence_model.py),    *)
(* the protobuf message the analyzer works on (as_maintained/store.py),    *)
(* and the dictionary kept in Restate and published (events/asset_cm.py).  *)
(* Writing a dictionary is total; the way back, and both ways to the       *)
(* message, name every field they carry, and lose the others.              *)
(***************************************************************************)
EXTENDS Episodes

CONSTANTS
  Edges, Labels  \* edge ids; originator nations (with releasable_to)

\* The dataclass; its dictionary has the same fields.
Record ==
  [baseline : BaselineIds \cup {None}, installed : Installed,
   mods : ModCompliance, discs : SUBSET Finding, status : Statuses,
   lifecycle : Lifecycles, observed : Nat, alerted : Statuses,
   manual : SUBSET Manual, edge : Edges \cup {Blank},
   label : Labels \cup {Blank}, asOf : Nat,
   closed : SUBSET Closed, ctx : SUBSET Context]

\* The dataclass's defaults.
EmptyRecord ==
  [baseline |-> None,
   installed |-> [s \in Slots |-> [ci |-> NotInstalled, at |-> 0]],
   mods |-> [m \in Mods |-> [state |-> MOD_UNTRACKED, at |-> 0]],
   discs |-> {}, status |-> CONFIG_STATUS_UNSPECIFIED,
   lifecycle |-> LIFECYCLE_REGISTERED, observed |-> 0,
   alerted |-> CONFIG_STATUS_UNSPECIFIED, manual |-> {},
   edge |-> Blank, label |-> Blank, asOf |-> 0, closed |-> {}, ctx |-> {}]

-----------------------------------------------------------------------------
\* The message has one list of discrepancies and no place for the labels, the
\* closed episodes and the frozen contexts.
record_to_proto(r) ==
  [baseline |-> r.baseline, installed |-> r.installed, mods |-> r.mods,
   discs |-> r.discs \cup r.manual, status |-> r.status,
   lifecycle |-> r.lifecycle, observed |-> r.observed, alerted |-> r.alerted,
   asOf |-> r.asOf]

proto_to_record(p) ==
  [baseline |-> p.baseline, installed |-> p.installed, mods |-> p.mods,
   discs |-> p.discs, status |-> p.status, lifecycle |-> p.lifecycle,
   observed |-> p.observed, alerted |-> p.alerted, manual |-> {},
   edge |-> Blank, label |-> Blank, asOf |-> p.asOf, closed |-> {}, ctx |-> {}]

\* One of the fields the message lacks is not put back.
Preserved_Mutant(out, r) ==
  [out EXCEPT !.manual = r.manual, !.edge = r.edge, !.label = r.label,
              !.closed = r.closed]
\* _reanalyze puts back what the message cannot carry.
Preserved(out, r) ==
  [out EXCEPT !.manual = r.manual, !.edge = r.edge, !.label = r.label,
              !.closed = r.closed, !.ctx = r.ctx]

\* A field that was added to the dataclass and not here.
Loaded_Mutant(d) == [d EXCEPT !.label = Blank]
\* _dict_to_record, field by field.
Loaded(d) ==
  [baseline |-> d.baseline, installed |-> d.installed, mods |-> d.mods,
   discs |-> d.discs, status |-> d.status, lifecycle |-> d.lifecycle,
   observed |-> d.observed, alerted |-> d.alerted, manual |-> d.manual,
   edge |-> d.edge, label |-> d.label, asOf |-> d.asOf, closed |-> d.closed,
   ctx |-> d.ctx]
=============================================================================
