------------------------------ MODULE Analyzer ------------------------------
(***************************************************************************)
(* The discrepancy analyzer (discrepancy/analyzer.py): pure functions from *)
(* an as-maintained configuration, a baseline and a time to findings, and  *)
(* from findings to one status.                                            *)
(*                                                                         *)
(* A baseline is a record                                                  *)
(*   id        its baseline_id                                             *)
(*   version   its version; findings are bound to id@version               *)
(*   slots     per slot: required, optional, or unlisted                   *)
(*   required  the mods it requires                                        *)
(*   severity  per mod, the severity its compliance category maps to       *)
(*   due       per mod, due_date in whole seconds, 0 when it has none      *)
(*                                                                         *)
(* The service calls the analyzer without CI records, so the part-number   *)
(* and revision checks (lines 237-280) never run and are not modelled.     *)
(***************************************************************************)
EXTENDS CmTypes

CONSTANTS
  Slots,        \* BOM slots an asset may have
  Mods,         \* modification ids
  CIs,          \* configuration items that may be installed
  BaselineIds,  \* baseline ids
  Unverified,   \* the empty ci_id: slot present, contents unknown
  NotInstalled, \* no entry for the slot
  Second        \* clock ticks per second

ASSUME SecondAssumption == Second \in Nat \ {0}
ASSUME RefsAssumption == Slots \cap Mods = {}

Baseline == [id : BaselineIds, version : Nat,
             slots : [Slots -> {"required", "optional", "unlisted"}],
             required : SUBSET Mods, severity : [Mods -> Severities],
             due : [Mods -> Nat]]

Installed == [Slots -> [ci : CIs \cup {Unverified, NotInstalled}, at : Nat]]
ModCompliance == [Mods -> [state : ModStates, at : Nat]]

Rules == {"authorized-ci.slot-empty", "authorized-ci.unverified",
          "required-mod.untracked", "required-mod.pending",
          "required-mod.overdue"}

\* One analyzer finding. `due` stands for the wording of the recommended
\* action, which quotes the due date while the mod is pending.
Finding == [ref : Slots \cup Mods, baseline : BaselineIds, version : Nat,
            rule : Rules, due : Nat, severity : Severities,
            detected : Nat, generated : Nat]

-----------------------------------------------------------------------------
\* Definitions named *_Mutant are plausible bugs in the definition that follows
\* them; the mutation runs put them in its place and nothing else uses them.
Escalate_Mutant(severity) == severity + 2

\* _escalate: one level up, CRITICAL stays.
Escalate(severity) ==
  IF severity = SEVERITY_CRITICAL THEN SEVERITY_CRITICAL ELSE severity + 1

\* The clock is floored to seconds and the comparison is strict.
IsOverdue(b, mod, now) == b.due[mod] > 0 /\ now \div Second > b.due[mod]

\* Only an entry that is not there counts.
MissingSlots_Mutant(b, installed) ==
  { s \in Slots : b.slots[s] = "required" /\ installed[s].ci = NotInstalled }
MissingSlots(b, installed) ==
  { s \in Slots : b.slots[s] = "required"
                  /\ installed[s].ci \in {Unverified, NotInstalled} }

OpenMods(b, mods) ==
  { m \in b.required : mods[m].state \notin
      {MOD_STATE_APPLIED, MOD_STATE_WAIVED, MOD_STATE_NOT_APPLICABLE} }

SlotFinding(b, installed, s, now) ==
  [ref |-> s, baseline |-> b.id, version |-> b.version,
   rule |-> IF installed[s].ci = NotInstalled
            THEN "authorized-ci.slot-empty" ELSE "authorized-ci.unverified",
   due |-> 0, severity |-> SEVERITY_MAJOR, detected |-> now, generated |-> now]

\* An untracked mod is never escalated: the code returns before it looks at
\* the due date.
ModFinding(b, mods, m, now) ==
  LET untracked == mods[m].state = MOD_UNTRACKED
      overdue   == ~untracked /\ IsOverdue(b, m, now)
      rule      == IF untracked THEN "required-mod.untracked"
                   ELSE IF overdue THEN "required-mod.overdue"
                   ELSE "required-mod.pending"
  IN  [ref |-> m, baseline |-> b.id, version |-> b.version, rule |-> rule,
       due |-> IF rule = "required-mod.pending" THEN b.due[m] ELSE 0,
       severity |-> IF overdue THEN Escalate(b.severity[m]) ELSE b.severity[m],
       detected |-> now, generated |-> now]

ComputeDiscrepancies(b, installed, mods, now) ==
  { SlotFinding(b, installed, s, now) : s \in MissingSlots(b, installed) }
  \cup { ModFinding(b, mods, m, now) : m \in OpenMods(b, mods) }

\* The worst severity decides; INFO alone is still in compliance.
OverallStatus(findings) ==
  LET found == { d.severity : d \in findings }
  IN  IF SEVERITY_CRITICAL \in found THEN CONFIG_STATUS_NOT_MISSION_CAPABLE
      ELSE IF SEVERITY_MAJOR \in found THEN CONFIG_STATUS_MAJOR_DISCREPANCY
      ELSE IF SEVERITY_MINOR \in found THEN CONFIG_STATUS_MINOR_DISCREPANCY
      ELSE CONFIG_STATUS_IN_COMPLIANCE

\* initialize_from_baseline: the non-optional slots present but unverified,
\* the required mods pending.
BaselineInstalled(b) ==
  [s \in Slots |-> [ci |-> IF b.slots[s] = "required"
                           THEN Unverified ELSE NotInstalled, at |-> 0]]

BaselineMods(b) ==
  [m \in Mods |-> [state |-> IF m \in b.required
                             THEN MOD_STATE_PENDING ELSE MOD_UNTRACKED, at |-> 0]]
=============================================================================
