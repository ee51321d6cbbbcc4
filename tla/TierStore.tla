------------------------------ MODULE TierStore ------------------------------
(***************************************************************************)
(* An AssetCM object, the asset's row in the tier store, and the ways the  *)
(* object's Restate state is lost: the wipe of an upgrade, and an operator *)
(* clearing the state of one key. A first-seen asset restores from the row *)
(* (_load_or_init, as_maintained/store_read.py).                           *)
(*                                                                         *)
(* The row is written by a projector outside this repository that consumes *)
(* asset-cm-state in order and lags behind; it may move between the two    *)
(* reads a restore makes. A store error makes Restate retry the handler,   *)
(* which is a stutter here.                                                *)
(***************************************************************************)
EXTENDS AssetCMProperties, Sequences

CONSTANT MaxBacklog  \* bound: messages not yet projected

VARIABLES
  tierRow,  \* the asset_cm_state row, None when there is none
  backlog,  \* asset-cm-state messages published and not yet projected
  kept      \* history: what the store owed a restore when state was last lost

storeVars == <<tierRow, backlog, kept>>
tierVars == <<vars, storeVars>>

ASSUME BacklogAssumption == MaxBacklog \in Nat

\* The row once the projector has applied k more messages.
RowAfter(k) == IF k = 0 THEN tierRow ELSE backlog[k]

\* Every version of the row a later read may still return.
FutureRows == { RowAfter(k) : k \in 0 .. Len(backlog) }

\* The handler's publish joins the messages left to project.
Published(left) == IF cmState' = cmState THEN left ELSE Append(left, cmState')

FaultIds(manual) == { <<d.component, d.fault, d.detected>> : d \in manual }
AppliedMods(r) == { m \in Mods : r.mods[m].state = MOD_STATE_APPLIED }

\* The open faults, and the mods applied under one baseline, that the record
\* and every version of the row agree on.
Owed ==
  [baseline |-> amState.baseline,
   faults |-> { f \in FaultIds(amState.manual) :
                  \A row \in FutureRows : row # None /\ f \in FaultIds(row.manual) },
   mods |-> { m \in AppliedMods(amState) :
                \A row \in FutureRows :
                  row # None /\ row.baseline = amState.baseline
                  /\ m \in AppliedMods(row) }]

\* A handler discharges what it resolves, and the mods when the asset moves to
\* another baseline.
Discharge(k) ==
  [k EXCEPT
     !.faults = IF amState = None \/ amState' = None THEN @
                ELSE @ \ (FaultIds(amState.manual) \ FaultIds(amState'.manual)),
     !.mods = IF amState' # None /\ amState'.baseline # k.baseline THEN {} ELSE @]

-----------------------------------------------------------------------------
\* observe, with the store's answers: the second read may see a newer row.
ObserveWithStore(e, declared) ==
  \E k \in 0 .. Len(backlog) : \E j \in k .. Len(backlog) :
    /\ amState # None => j = 0
    /\ Len(backlog) - j < MaxBacklog
    /\ Observe(e, declared, RowAfter(k), RowAfter(j))
    /\ tierRow' = RowAfter(j)
    /\ backlog' = Published(SubSeq(backlog, j + 1, Len(backlog)))
    /\ kept' = Discharge(kept)

\* A handler that does not read the store.
Handled ==
  /\ Len(backlog) < MaxBacklog
  /\ backlog' = Published(backlog)
  /\ kept' = Discharge(kept)
  /\ UNCHANGED tierRow

Project ==
  /\ backlog # <<>>
  /\ tierRow' = Head(backlog)
  /\ backlog' = Tail(backlog)
  /\ UNCHANGED <<vars, kept>>

\* The Restate volume is deleted: state and delayed calls are gone.
Wipe ==
  /\ amState # None /\ now <= InputUntil
  /\ kept' = Owed
  /\ amState' = None /\ nextRecheck' = 0 /\ emitSig' = None
  /\ timers' = {}
  /\ UNCHANGED <<now, registry, cmState, lastAlert, telemetryAt, tierRow, backlog>>

\* `restate state clear` on this key: delayed calls stay and find no record.
ClearState ==
  /\ amState # None /\ now <= InputUntil
  /\ kept' = Owed
  /\ amState' = None /\ nextRecheck' = 0 /\ emitSig' = None
  /\ UNCHANGED <<now, registry, output, telemetryAt, tierRow, backlog>>

-----------------------------------------------------------------------------
TierInit ==
  /\ Init
  /\ tierRow = None
  /\ backlog = <<>>
  /\ kept = [baseline |-> None, faults |-> {}, mods |-> {}]

TierNext ==
  \/ \E e \in SilverEvents, declared \in Declarations : ObserveWithStore(e, declared)
  \/ \E e \in CmEvents : ApplyCmEvent(e) /\ Handled
  \/ Recheck /\ Handled
  \/ Decommission /\ Handled
  \/ Reload /\ UNCHANGED storeVars
  \/ Tick /\ UNCHANGED storeVars
  \/ Project
  \/ Wipe
  \/ ClearState

TierSpec == TierInit /\ [][TierNext]_tierVars

-----------------------------------------------------------------------------
\* The store keeps what a wipe destroys (store_read.py:1-8): an open fault
\* that record and row agreed on is, once the asset has a record again, still
\* open with its first-observed time, until somebody resolves it.
OpenFaultsSurviveWipe ==
  amState # None => kept.faults \subseteq FaultIds(amState.manual)

\* Applied mods come back too, as long as the asset is measured against the
\* baseline they were applied under.
AppliedModsSurviveWipe ==
  amState # None /\ amState.baseline = kept.baseline =>
    kept.mods \subseteq AppliedMods(amState)

\* The projector only ever shows what was published: once it has caught up,
\* the row and the record say the same, whatever was wiped and restored.
RowCatchesUp ==
  amState # None /\ backlog = <<>> =>
    tierRow # None /\ Signature(tierRow) = Signature(PayloadOf(amState))

\* The wipe destroys last_alerted_status and leaves the alerts that were sent
\* (_persist_and_emit_transitions). An asset that comes back in trouble, or
\* gets into trouble later, has a standing "detected" all the same. (The
\* converse fails: an alarm that stood before the wipe stays when the asset
\* comes back in compliance.)
TroubleIsAlarmed ==
  amState # None /\ amState.status >= CONFIG_STATUS_MAJOR_DISCREPANCY => Alarmed
=============================================================================
