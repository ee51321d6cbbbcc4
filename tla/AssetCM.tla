------------------------------- MODULE AssetCM -------------------------------
(***************************************************************************)
(* One instance of the AssetCM virtual object (events/asset_cm.py): the    *)
(* four handlers, the durable state they keep in Restate, the delayed      *)
(* self-calls they send and the messages they publish.                     *)
(*                                                                         *)
(* Restate runs the handlers of one key one at a time, so a handler is one *)
(* action. Objects of different assets share nothing but the baseline      *)
(* registry, so one object is modelled. Publishing succeeds here, and the  *)
(* state is never wiped; TierStore adds the wipe.                          *)
(*                                                                         *)
(* Time is counted in ticks, Second ticks to a second; a handler reads the *)
(* clock once, and the clock moves on while it runs.                       *)
(***************************************************************************)
EXTENDS Messages, Alerts

CONSTANTS
  Registries,         \* what the baseline directories may hold
  Declarations,       \* baseline ids the asset's declaration row may name
  STALENESS_WINDOW_S, \* seconds without telemetry after which it is STALE
  RECHECK_MIN_DELAY_S,\* floor of the delay of a scheduled recheck
  InputUntil,         \* bound: no input or reload after this tick
  MaxTime             \* bound: the clock stops here

VARIABLES
  now,         \* the wall clock
  registry,    \* variant -> loaded baseline, or None
  amState,     \* the key am_state: the record, or None
  nextRecheck, \* the key next_recheck_ns, 0 when unset
  emitSig,     \* the key cm_state_emit_sig, None when unset
  timers,      \* delayed recheck_compliance calls not yet delivered
  cmState,     \* the last asset-cm-state message for this key, or None
  lastAlert,   \* the last tactical-events message for this key, or None
  telemetryAt  \* history: when the feed last spoke for this asset, or None

store == <<amState, nextRecheck, emitSig>>
output == <<timers, cmState, lastAlert>>
vars == <<now, registry, amState, nextRecheck, emitSig, timers, cmState,
          lastAlert, telemetryAt>>

\* What asset-cm-state carries: the record without the observation clock,
\* the closed episodes and the frozen contexts.
Payload ==
  [baseline : BaselineIds \cup {None}, installed : Installed,
   mods : ModCompliance, discs : SUBSET Finding, status : Statuses,
   lifecycle : Lifecycles, alerted : Statuses, manual : SUBSET Manual,
   edge : Edges \cup {Blank}, label : Labels \cup {Blank}, asOf : Nat]

Alert == [kind : {"detected", "resolved"}, previous : Statuses,
          current : Statuses, at : Nat]

\* A delayed self-call: when it is delivered, and what it was aimed at.
Timer == [fires : Nat, target : Nat]

Registry == [Variants -> Baseline \cup {None}]

\* None is neither a record, a message nor a signature.
ASSUME NoneAssumption ==
  None \notin Record /\ None \notin Payload /\ None \notin Alert
ASSUME RegistriesAssumption == Registries \subseteq Registry
ASSUME DeclarationsAssumption == Declarations \subseteq BaselineIds \cup {None}
ASSUME TimingAssumption ==
  /\ STALENESS_WINDOW_S \in Nat
  /\ RECHECK_MIN_DELAY_S \in Nat
  /\ InputUntil \in Nat
  /\ MaxTime \in Nat
\* The clock moves during every handler that takes input: it stops only after
\* the inputs have.
ASSUME ClockAssumption == InputUntil < MaxTime

Window == STALENESS_WINDOW_S * Second
-----------------------------------------------------------------------------
(* Baselines. all_variants() is sorted, so the first variant wins.          *)

LoadedAs(id) ==
  { v \in Variants : registry[v] # None /\ registry[v].id = id }

BaselineById(id) ==
  IF LoadedAs(id) = {} THEN None
  ELSE registry[CHOOSE v \in LoadedAs(id) : \A w \in LoadedAs(id) : v <= w]

\* The baseline a first-seen asset gets: its declaration when that names a
\* loaded baseline, else the variant's default.
FirstSeenBaseline(e, declared) ==
  IF declared # None /\ BaselineById(declared) # None
  THEN BaselineById(declared)
  ELSE IF e.variant = Blank THEN None ELSE registry[e.variant]

-----------------------------------------------------------------------------
(* Records.                                                                 *)

\* A visible record for an asset no baseline is known for.
RegisteredRecord(e) ==
  [EmptyRecord EXCEPT !.observed = now, !.edge = e.edge]

\* initialize_from_baseline, then ACTIVE.
InitializedRecord(b) ==
  LET found == ComputeDiscrepancies(b, BaselineInstalled(b), BaselineMods(b), now)
  IN  [EmptyRecord EXCEPT
         !.baseline = b.id, !.installed = BaselineInstalled(b),
         !.mods = BaselineMods(b), !.discs = found,
         !.status = OverallStatus(found), !.asOf = now,
         !.lifecycle = LIFECYCLE_ACTIVE, !.observed = now]

\* _merge_restored_history: a stored entry replaces the default.
MergeInstalled(installed, stored) ==
  [s \in Slots |-> IF stored[s].ci = NotInstalled
                   THEN installed[s] ELSE stored[s]]
MergeMods_Mutant(mods, stored) ==
  [m \in Mods |-> IF mods[m].state = MOD_UNTRACKED THEN stored[m] ELSE mods[m]]
MergeMods(mods, stored) ==
  [m \in Mods |-> IF stored[m].state = MOD_UNTRACKED
                  THEN mods[m] ELSE stored[m]]

\* Manual discrepancies held to the baseline they were stored under.
RestoredRecord_Mutant(r, manualRow, historyRow) ==
  IF manualRow = None \/ historyRow = None \/ historyRow.baseline # r.baseline
  THEN r
  ELSE [r EXCEPT !.manual = manualRow.manual,
                 !.installed = MergeInstalled(@, historyRow.installed),
                 !.mods = MergeMods(@, historyRow.mods)]

\* Two separate reads of the asset's row in the tier store, each None when
\* there was no row: the manual discrepancies, then parts and mods, which
\* count only when written against the same baseline.
RestoredRecord(r, manualRow, historyRow) ==
  LET same == historyRow # None /\ historyRow.baseline = r.baseline
  IN  [r EXCEPT
         !.manual = IF manualRow = None THEN @ ELSE manualRow.manual,
         !.installed = IF same THEN MergeInstalled(@, historyRow.installed) ELSE @,
         !.mods = IF same THEN MergeMods(@, historyRow.mods) ELSE @]

\* Telemetry makes any asset ACTIVE.
Refreshed_Revives(r, e) ==
  [r EXCEPT !.edge = IF e.edge = Blank THEN @ ELSE e.edge,
            !.label = IF e.label = Blank THEN @ ELSE e.label,
            !.observed = now, !.lifecycle = LIFECYCLE_ACTIVE]

\* The refreshes of observe: what the event states replaces, what it leaves
\* out stays. A STALE asset is ACTIVE again.
Refreshed(r, e) ==
  [r EXCEPT
     !.edge = IF e.edge = Blank THEN @ ELSE e.edge,
     !.label = IF e.label = Blank THEN @ ELSE e.label,
     !.observed = now,
     !.lifecycle = IF @ = LIFECYCLE_STALE THEN LIFECYCLE_ACTIVE ELSE @]

-----------------------------------------------------------------------------
(* _apply_event_to_record.                                                  *)

AssignBaseline(r, id) ==
  LET b == BaselineById(id)
  IN  IF id = r.baseline THEN r
      ELSE IF b = None THEN [r EXCEPT !.baseline = id]
      ELSE [r EXCEPT !.baseline = b.id, !.installed = BaselineInstalled(b),
                     !.mods = BaselineMods(b)]

ApplyEvent(r, e) ==
  CASE e.type = "part_replaced" ->
         [r EXCEPT !.installed[e.slot] = [ci |-> e.ci, at |-> now]]
    [] e.type = "mod_applied" ->
         [r EXCEPT !.mods[e.mod] =
            [state |-> MOD_STATE_APPLIED,
             at |-> IF e.appliedAt = Blank THEN now ELSE e.appliedAt]]
    [] e.type = "inspection_completed" ->
         IF e.passed THEN [r EXCEPT !.observed = now] ELSE r
    [] e.type = "baseline_assigned" -> AssignBaseline(r, e.baseline)
    [] e.type = "manual_discrepancy" -> ManualReport(r, e, now)
    [] e.type = "manual_discrepancy_resolved" -> ManualResolve(r, e, now)
    [] OTHER -> r

-----------------------------------------------------------------------------
(* _reanalyze. A finding is the same finding when its id and its inputs     *)
(* match, that is, its slot or mod and its baseline.                        *)

SameFinding(d, p) == d.ref = p.ref /\ d.baseline = p.baseline
SameAdvisory(d, p) ==
  d.rule = p.rule /\ d.version = p.version /\ d.due = p.due

\* A finding whose advice changed counts as a new one.
Carried_Mutant(d, previous) ==
  LET match == { p \in previous : SameFinding(d, p) /\ SameAdvisory(d, p) }
  IN  IF match = {} THEN d
      ELSE [d EXCEPT !.detected = (CHOOSE p \in match : TRUE).detected]

\* _carry_detection_times: first observed stays first observed.
Carried(d, previous) ==
  LET match == { p \in previous : SameFinding(d, p) }
  IN  IF match = {} THEN d
      ELSE LET p == CHOOSE p \in match : TRUE
           IN  [d EXCEPT !.detected = p.detected,
                         !.generated = IF SameAdvisory(d, p)
                                       THEN p.generated ELSE @]

\* Manual discrepancies are kept and not counted.
Reanalyze_Mutant(r) ==
  IF r.baseline = None \/ BaselineById(r.baseline) = None THEN r
  ELSE LET found == ComputeDiscrepancies(BaselineById(r.baseline),
                                         r.installed, r.mods, now)
       IN  [r EXCEPT !.discs = { Carried(d, r.discs) : d \in found },
                     !.status = OverallStatus(found), !.asOf = now]

\* The analyzer works on the message, whose discrepancies are cleared; its
\* findings and the status come back with it, the rest is put back.
Reanalyze(r) ==
  IF r.baseline = None \/ BaselineById(r.baseline) = None THEN r
  ELSE LET proto == record_to_proto(r)
           found == ComputeDiscrepancies(BaselineById(r.baseline),
                                         proto.installed, proto.mods, now)
           out == proto_to_record([proto EXCEPT !.discs = {}, !.asOf = now])
       IN  Preserved([out EXCEPT !.discs = { Carried(d, r.discs) : d \in found },
                                 !.status = OverallStatus(found \cup r.manual)], r)

-----------------------------------------------------------------------------
(* _persist_and_emit_transitions and _emit_asset_cm_state.                  *)

SendAlert(r) ==
  lastAlert' = IF Detected(r) \/ Resolved(r)
               THEN [kind |-> IF Detected(r) THEN "detected" ELSE "resolved",
                     previous |-> r.alerted, current |-> r.status, at |-> now]
               ELSE lastAlert

PayloadOf(r) ==
  [baseline |-> r.baseline, installed |-> r.installed, mods |-> r.mods,
   discs |-> r.discs, status |-> r.status, lifecycle |-> r.lifecycle,
   alerted |-> r.alerted, manual |-> r.manual, edge |-> r.edge,
   label |-> r.label, asOf |-> r.asOf]

\* A signature over less than what is published.
Signature_Mutant(payload) ==
  [payload EXCEPT !.asOf = 0, !.lifecycle = LIFECYCLE_ACTIVE]
\* The signature is a hash of the payload without as_of_ns.
Signature(payload) == [payload EXCEPT !.asOf = 0]

\* The publish is suppressed while the status stays the same.
Emit_Mutant(r) ==
  /\ emitSig' = Signature(PayloadOf(r))
  /\ cmState' = IF emitSig # None /\ emitSig.status = r.status
                THEN cmState ELSE PayloadOf(r)
Emit(r) ==
  /\ emitSig' = Signature(PayloadOf(r))
  /\ cmState' = IF emitSig = Signature(PayloadOf(r)) THEN cmState ELSE PayloadOf(r)

Persist(r) ==
  /\ amState' = AfterAlert(r)
  /\ SendAlert(r)
  /\ Emit(AfterAlert(r))

-----------------------------------------------------------------------------
(* _schedule_next_recheck.                                                  *)

\* Due dates of pending mods still ahead.
DueTargets(r) ==
  IF r.baseline = None \/ BaselineById(r.baseline) = None THEN {}
  ELSE LET b == BaselineById(r.baseline)
       IN  { b.due[m] * Second : m \in
               { m \in b.required :
                   /\ r.mods[m].state \in {MOD_STATE_PENDING, MOD_STATE_UNSPECIFIED}
                   /\ b.due[m] > 0
                   /\ b.due[m] * Second > now } }

StaleTargets(r) ==
  IF r.observed # 0 /\ r.lifecycle = LIFECYCLE_ACTIVE /\ r.observed + Window > now
  THEN {r.observed + Window} ELSE {}

RecheckTargets(r) ==
  IF r.lifecycle = LIFECYCLE_DECOMMISSIONED THEN {}
  ELSE DueTargets(r) \cup StaleTargets(r)

\* The delay is floored to whole seconds, with a minimum.
Delay(target) ==
  LET whole == (target - now) \div Second
  IN  (IF whole > RECHECK_MIN_DELAY_S THEN whole ELSE RECHECK_MIN_DELAY_S) * Second

Debounced_Mutant(target) == nextRecheck # 0 /\ nextRecheck < target
\* A recheck recorded at or before the target, even one long past, stands.
Debounced(target) == nextRecheck # 0 /\ nextRecheck <= target

\* The target is recorded whether or not a call is sent for it.
Schedule_Mutant(r, pending) ==
  \/ RecheckTargets(r) = {} /\ nextRecheck' = nextRecheck /\ timers' = pending
  \/ \E target \in RecheckTargets(r) :
       /\ \A other \in RecheckTargets(r) : target <= other
       /\ nextRecheck' = target
       /\ timers' = IF Debounced(target) THEN pending
                    ELSE pending \cup {[fires |-> now + Delay(target), target |-> target]}

\* `pending` is what is left of the timers before this handler sends one.
Schedule(r, pending) ==
  \/ /\ RecheckTargets(r) = {}
     /\ nextRecheck' = nextRecheck
     /\ timers' = pending
  \/ \E target \in RecheckTargets(r) :
       /\ \A other \in RecheckTargets(r) : target <= other
       /\ IF Debounced(target)
          THEN nextRecheck' = nextRecheck /\ timers' = pending
          ELSE /\ nextRecheck' = target
               /\ timers' = pending \cup
                    {[fires |-> now + Delay(target), target |-> target]}

\* The common tail of observe, apply_cm_event and recheck_compliance.
Commit(r, pending) ==
  \E stored \in {r} : \E analyzed \in {Reanalyze(stored)} :
    /\ Persist(analyzed)
    /\ Schedule(AfterAlert(analyzed), pending)

-----------------------------------------------------------------------------
(* Handlers.                                                                *)

ClockMoves == now' = IF now < MaxTime THEN now + 1 ELSE now

\* The event is dropped.
Dropped == UNCHANGED <<registry, store, output, telemetryAt>>

\* A removal for an asset that is not known is dropped.
RemovalOfUnknown(e) == e.removed /\ amState = None /\ Dropped

\* First seen without a baseline: a record of its own, nothing restored,
\* nothing analyzed, nothing scheduled.
Register(e, declared) ==
  /\ amState = None /\ ~e.removed
  /\ FirstSeenBaseline(e, declared) = None
  /\ amState' = RegisteredRecord(e)
  /\ Emit(RegisteredRecord(e))
  /\ telemetryAt' = now
  /\ UNCHANGED <<registry, nextRecheck, timers, lastAlert>>

FirstSeen(e, declared, manualRow, historyRow) ==
  /\ amState = None /\ ~e.removed
  /\ FirstSeenBaseline(e, declared) # None
  /\ Commit(Refreshed(RestoredRecord(
              InitializedRecord(FirstSeenBaseline(e, declared)),
              manualRow, historyRow), e), timers)
  /\ telemetryAt' = now
  /\ UNCHANGED registry

Known(e) ==
  /\ amState # None
  /\ Commit(Refreshed(Loaded(amState), e), timers)
  /\ telemetryAt' = now
  /\ UNCHANGED registry

\* observe: declared is what the declaration row names, manualRow and
\* historyRow what the two restoring reads return.
Observe(e, declared, manualRow, historyRow) ==
  /\ now <= InputUntil
  /\ ClockMoves
  /\ \/ RemovalOfUnknown(e)
     \/ Register(e, declared)
     \/ FirstSeen(e, declared, manualRow, historyRow)
     \/ Known(e)

\* apply_cm_event: events for an unknown asset are dropped.
ApplyCmEvent(e) ==
  /\ now <= InputUntil
  /\ ClockMoves
  /\ \/ amState = None /\ Dropped
     \/ /\ amState # None
        /\ Commit(ApplyEvent(Loaded(amState), e), timers)
        /\ UNCHANGED <<registry, telemetryAt>>

Aged_Early(r) ==
  IF r.observed # 0 /\ now + Second >= r.observed + Window
     /\ r.lifecycle = LIFECYCLE_ACTIVE
  THEN [r EXCEPT !.lifecycle = LIFECYCLE_STALE] ELSE r
Aged_Late(r) ==
  IF r.observed # 0 /\ now > r.observed + Window /\ r.lifecycle = LIFECYCLE_ACTIVE
  THEN [r EXCEPT !.lifecycle = LIFECYCLE_STALE] ELSE r
\* STALE once the window has passed since the last observation.
Aged(r) ==
  IF r.observed # 0 /\ now >= r.observed + Window /\ r.lifecycle = LIFECYCLE_ACTIVE
  THEN [r EXCEPT !.lifecycle = LIFECYCLE_STALE] ELSE r

\* recheck_compliance: a delayed call comes due, on time or late.
RecheckCompliance(timer) ==
  /\ now >= timer.fires
  /\ ClockMoves
  /\ \/ /\ amState = None
        /\ timers' = timers \ {timer}
        /\ UNCHANGED <<registry, store, cmState, lastAlert, telemetryAt>>
     \/ /\ amState # None
        /\ Commit(Aged(Loaded(amState)), timers \ {timer})
        /\ UNCHANGED <<registry, telemetryAt>>

\* decommission: no analysis, no schedule; as_of_ns is left as it was.
Decommission ==
  /\ now <= InputUntil
  /\ ClockMoves
  /\ \/ amState = None /\ Dropped
     \/ LET r == [Loaded(amState) EXCEPT !.lifecycle = LIFECYCLE_DECOMMISSIONED]
        IN  /\ amState # None
            /\ amState' = r
            /\ Emit(r)
            /\ UNCHANGED <<registry, nextRecheck, timers, lastAlert, telemetryAt>>

\* SIGHUP: the registry is replaced as a whole, whatever the assets refer to.
Reload ==
  /\ now <= InputUntil
  /\ registry' \in Registries \ {registry}
  /\ UNCHANGED <<now, store, output, telemetryAt>>

Tick ==
  /\ now < MaxTime
  /\ now' = now + 1
  /\ UNCHANGED <<registry, store, output, telemetryAt>>

-----------------------------------------------------------------------------
Init ==
  /\ now = 1
  /\ registry \in Registries
  /\ amState = None
  /\ nextRecheck = 0
  /\ emitSig = None
  /\ timers = {}
  /\ cmState = None
  /\ lastAlert = None
  /\ telemetryAt = None

Recheck == \E timer \in timers : RecheckCompliance(timer)

Next ==
  \/ \E e \in SilverEvents, declared \in Declarations :
       Observe(e, declared, None, None)
  \/ \E e \in CmEvents : ApplyCmEvent(e)
  \/ Recheck
  \/ Decommission
  \/ Reload
  \/ Tick

\* The clock runs on and Restate delivers every delayed call; inputs, reloads
\* and decommissioning come from outside and are owed by nobody.
Spec == Init /\ [][Next]_vars /\ WF_vars(Tick) /\ WF_vars(Recheck)
=============================================================================
