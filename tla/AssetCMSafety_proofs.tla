-------------------------- MODULE AssetCMSafety_proofs --------------------------
(***************************************************************************)
(* Safety of one AssetCM object: alerts, publication, staleness, rechecks  *)
(* and what the record keeps. Each invariant of AssetCMProperties gets an  *)
(* inductive strengthening, a lemma about the common tail of the handlers, *)
(* and a preservation proof with one step per action.                      *)
(***************************************************************************)
EXTENDS AssetCM_proofs

-----------------------------------------------------------------------------
(* What the steps of a handler leave alone.                                 *)

\* Analysis writes findings, status and as_of_ns only.
LEMMA ReanalyzeKeeps ==
  ASSUME TypeOK, NEW r \in Record
  PROVE  /\ Reanalyze(r).alerted = r.alerted
         /\ Reanalyze(r).observed = r.observed
         /\ Reanalyze(r).lifecycle = r.lifecycle
         /\ Reanalyze(r).edge = r.edge
         /\ Reanalyze(r).label = r.label
         /\ Reanalyze(r).baseline = r.baseline
         /\ Reanalyze(r).manual = r.manual
         /\ Reanalyze(r).mods = r.mods
         /\ Reanalyze(r).installed = r.installed
         /\ Reanalyze(r).closed = r.closed
         /\ Reanalyze(r).ctx = r.ctx
<1>1. CASE r.baseline = None \/ BaselineById(r.baseline) = None
  BY <1>1 DEF Reanalyze
<1>2. CASE ~ (r.baseline = None \/ BaselineById(r.baseline) = None)
  BY <1>2, ReanalyzeIs DEF Rest, TypeOK
<1>3. QED
  BY <1>1, <1>2

\* Alerting writes last_alerted_status only.
LEMMA AfterAlertKeeps ==
  ASSUME NEW r \in Record
  PROVE  /\ AfterAlert(r).status = r.status
         /\ AfterAlert(r).discs = r.discs
         /\ AfterAlert(r).observed = r.observed
         /\ AfterAlert(r).lifecycle = r.lifecycle
         /\ AfterAlert(r).edge = r.edge
         /\ AfterAlert(r).label = r.label
         /\ AfterAlert(r).baseline = r.baseline
         /\ AfterAlert(r).manual = r.manual
         /\ AfterAlert(r).mods = r.mods
         /\ AfterAlert(r).installed = r.installed
         /\ AfterAlert(r).closed = r.closed
         /\ AfterAlert(r).ctx = r.ctx
BY DEF AfterAlert, Record

\* No CM event touches findings, status, lifecycle, labels or the alert
\* memory; only a passing inspection moves the observation time.
LEMMA ApplyEventKeeps ==
  ASSUME NEW r \in Record, NEW e \in CmEvents
  PROVE  /\ ApplyEvent(r, e).alerted = r.alerted
         /\ ApplyEvent(r, e).status = r.status
         /\ ApplyEvent(r, e).discs = r.discs
         /\ ApplyEvent(r, e).lifecycle = r.lifecycle
         /\ ApplyEvent(r, e).edge = r.edge
         /\ ApplyEvent(r, e).label = r.label
         /\ ApplyEvent(r, e).observed \in {r.observed, now}
<1>1. ASSUME NEW x
      PROVE  /\ ManualReport(r, x, now).alerted = r.alerted
             /\ ManualReport(r, x, now).status = r.status
             /\ ManualReport(r, x, now).discs = r.discs
             /\ ManualReport(r, x, now).lifecycle = r.lifecycle
             /\ ManualReport(r, x, now).edge = r.edge
             /\ ManualReport(r, x, now).label = r.label
             /\ ManualReport(r, x, now).observed = r.observed
  BY DEF ManualReport, LegacyReport, OpenEpisode, MergeReport, Record
<1>2. ASSUME NEW x
      PROVE  /\ ManualResolve(r, x, now).alerted = r.alerted
             /\ ManualResolve(r, x, now).status = r.status
             /\ ManualResolve(r, x, now).discs = r.discs
             /\ ManualResolve(r, x, now).lifecycle = r.lifecycle
             /\ ManualResolve(r, x, now).edge = r.edge
             /\ ManualResolve(r, x, now).label = r.label
             /\ ManualResolve(r, x, now).observed = r.observed
  BY DEF ManualResolve, CloseEpisode, Record
<1>3. ASSUME NEW id
      PROVE  /\ AssignBaseline(r, id).alerted = r.alerted
             /\ AssignBaseline(r, id).status = r.status
             /\ AssignBaseline(r, id).discs = r.discs
             /\ AssignBaseline(r, id).lifecycle = r.lifecycle
             /\ AssignBaseline(r, id).edge = r.edge
             /\ AssignBaseline(r, id).label = r.label
             /\ AssignBaseline(r, id).observed = r.observed
  BY DEF AssignBaseline, Record
<1>4. CASE e.type \in {"part_replaced", "mod_applied", "inspection_completed"}
  BY <1>4 DEF ApplyEvent, Record
<1>5. CASE e.type = "manual_discrepancy"
  BY <1>5, <1>1 DEF ApplyEvent
<1>6. CASE e.type = "manual_discrepancy_resolved"
  BY <1>6, <1>2 DEF ApplyEvent
<1>7. CASE e.type = "baseline_assigned"
  BY <1>7, <1>3 DEF ApplyEvent
<1>8. CASE e.type \notin {"part_replaced", "mod_applied", "inspection_completed",
        "manual_discrepancy", "manual_discrepancy_resolved", "baseline_assigned"}
  BY <1>8 DEF ApplyEvent
<1>9. QED
  BY <1>4, <1>5, <1>6, <1>7, <1>8

\* A first-seen asset is ACTIVE, observed now, and nothing was alerted yet.
LEMMA InitializedFields ==
  ASSUME NEW b
  PROVE  /\ InitializedRecord(b).alerted = CONFIG_STATUS_UNSPECIFIED
         /\ InitializedRecord(b).observed = now
         /\ InitializedRecord(b).lifecycle = LIFECYCLE_ACTIVE
         /\ InitializedRecord(b).baseline = b.id
         /\ InitializedRecord(b).mods = BaselineMods(b)
         /\ InitializedRecord(b).installed = BaselineInstalled(b)
BY DEF InitializedRecord, EmptyRecord

\* A refresh moves the observation time and the labels, and brings a STALE
\* asset back.
LEMMA RefreshedFields ==
  ASSUME NEW r \in Record, NEW e
  PROVE  /\ Refreshed(r, e).alerted = r.alerted
         /\ Refreshed(r, e).status = r.status
         /\ Refreshed(r, e).discs = r.discs
         /\ Refreshed(r, e).manual = r.manual
         /\ Refreshed(r, e).observed = now
         /\ Refreshed(r, e).lifecycle # LIFECYCLE_STALE
         /\ r.lifecycle # LIFECYCLE_STALE => Refreshed(r, e).lifecycle = r.lifecycle
         /\ r.edge # Blank => Refreshed(r, e).edge # Blank
         /\ r.label # Blank => Refreshed(r, e).label # Blank
BY DEF Refreshed, Record, LIFECYCLE_STALE, LIFECYCLE_ACTIVE

\* A recheck only ever turns ACTIVE into STALE.
LEMMA AgedFields ==
  ASSUME NEW r \in Record
  PROVE  /\ Aged(r).alerted = r.alerted
         /\ Aged(r).discs = r.discs
         /\ Aged(r).manual = r.manual
         /\ Aged(r).observed = r.observed
         /\ Aged(r).edge = r.edge
         /\ Aged(r).label = r.label
         /\ Aged(r).lifecycle # r.lifecycle =>
              /\ r.lifecycle = LIFECYCLE_ACTIVE
              /\ now >= r.observed + Window
BY DEF Aged, Record

-----------------------------------------------------------------------------
(* The records the tail is handed.                                          *)

\* What a first telemetry event of an asset with a baseline commits.
FreshRecord(e, declared) ==
  Refreshed(RestoredRecord(InitializedRecord(FirstSeenBaseline(e, declared)),
                           None, None), e)

LEMMA FreshRecordFields ==
  ASSUME TypeOK, NEW e \in SilverEvents, NEW declared \in Declarations,
         FirstSeenBaseline(e, declared) # None
  PROVE  /\ FreshRecord(e, declared) \in Record
         /\ FreshRecord(e, declared).alerted = CONFIG_STATUS_UNSPECIFIED
         /\ FreshRecord(e, declared).observed = now
         /\ FreshRecord(e, declared).lifecycle # LIFECYCLE_STALE
<1> DEFINE b == FirstSeenBaseline(e, declared)
<1>1. b \in Baseline
  BY FirstSeenBaselineType DEF TypeOK
<1>2. InitializedRecord(b) \in Record
      /\ RestoredRecord(InitializedRecord(b), None, None) = InitializedRecord(b)
  BY <1>1, InitializedType DEF TypeOK
<1>3. FreshRecord(e, declared) = Refreshed(InitializedRecord(b), e)
  BY <1>2 DEF FreshRecord
<1>4. Refreshed(InitializedRecord(b), e) \in Record
  BY <1>2, RefreshedType DEF TypeOK
<1>5. InitializedRecord(b).alerted = CONFIG_STATUS_UNSPECIFIED
  BY InitializedFields
<1>6. QED
  BY <1>2, <1>3, <1>4, <1>5, RefreshedFields

\* The handlers that end in the tail, and the record each hands to it.
CommitsFresh(e, declared) ==
  /\ amState = None
  /\ FirstSeenBaseline(e, declared) # None
  /\ Commit(FreshRecord(e, declared), timers)
  /\ telemetryAt' = now /\ UNCHANGED registry
CommitsKnown(e) ==
  /\ amState # None
  /\ Commit(Refreshed(amState, e), timers)
  /\ telemetryAt' = now /\ UNCHANGED registry
CommitsEvent(e) ==
  /\ amState # None
  /\ Commit(ApplyEvent(amState, e), timers)
  /\ UNCHANGED <<registry, telemetryAt>>
CommitsAged(timer) ==
  /\ amState # None /\ now >= timer.fires
  /\ Commit(Aged(amState), timers \ {timer})
  /\ UNCHANGED <<registry, telemetryAt>>
Retires ==
  /\ amState # None
  /\ amState' = [amState EXCEPT !.lifecycle = LIFECYCLE_DECOMMISSIONED]
  /\ Emit([amState EXCEPT !.lifecycle = LIFECYCLE_DECOMMISSIONED])
  /\ UNCHANGED <<registry, nextRecheck, timers, lastAlert, telemetryAt>>
\* A delayed call for an asset that is not known.
Expires(timer) ==
  /\ amState = None /\ now >= timer.fires
  /\ timers' = timers \ {timer}
  /\ UNCHANGED <<registry, store, cmState, lastAlert, telemetryAt>>
Idle == UNCHANGED <<store, output, telemetryAt>>

\* Every step, with the clock aside: one disjunct per thing a handler may do.
Steps ==
  \/ Idle
  \/ \E e \in SilverEvents, declared \in Declarations :
       Register(e, declared) \/ CommitsFresh(e, declared) \/ CommitsKnown(e)
  \/ \E e \in CmEvents : CommitsEvent(e)
  \/ \E timer \in timers : CommitsAged(timer) \/ Expires(timer)
  \/ Retires

\* The clock never runs back, and every step of the object is one of Steps.
LEMMA StepCases ==
  ASSUME TypeOK, [Next]_vars
  PROVE  now' \in Nat /\ now' >= now /\ Steps
<1> USE DEF Steps
<1>1. now \in Nat /\ (ClockMoves => now' \in Nat /\ now' >= now)
  BY DEF TypeOK, ClockMoves
<1>0. amState # None => Loaded(amState) = amState
  BY LoadedIs DEF TypeOK
<1>2. ASSUME NEW e \in SilverEvents, NEW declared \in Declarations,
             Observe(e, declared, None, None)
      PROVE  now' \in Nat /\ now' >= now /\ Steps
  <2>1. RemovalOfUnknown(e) => Idle
    BY DEF RemovalOfUnknown, Dropped, Idle
  <2>2. FirstSeen(e, declared, None, None) => CommitsFresh(e, declared)
    BY DEF FirstSeen, CommitsFresh, FreshRecord
  <2>3. Known(e) => CommitsKnown(e)
    BY <1>0 DEF Known, CommitsKnown
  <2>4. QED
    BY <1>1, <1>2, <2>1, <2>2, <2>3 DEF Observe
<1>3. ASSUME NEW e \in CmEvents, ApplyCmEvent(e)
      PROVE  now' \in Nat /\ now' >= now /\ Steps
  BY <1>0, <1>1, <1>3 DEF ApplyCmEvent, CommitsEvent, Dropped, Idle
<1>4. ASSUME NEW timer \in timers, RecheckCompliance(timer)
      PROVE  now' \in Nat /\ now' >= now /\ Steps
  BY <1>0, <1>1, <1>4 DEF RecheckCompliance, CommitsAged, Expires
<1>5. CASE Decommission
  BY <1>0, <1>1, <1>5 DEF Decommission, Retires, Dropped, Idle
<1>6. CASE Reload
  BY <1>1, <1>6 DEF Reload, Idle
<1>7. CASE Tick
  BY <1>1, <1>7 DEF Tick, Idle
<1>8. CASE UNCHANGED vars
  BY <1>1, <1>8 DEF vars, Idle, store, output
<1>9. QED
  BY <1>2, <1>3, <1>4, <1>5, <1>6, <1>7, <1>8 DEF Next, Recheck

-----------------------------------------------------------------------------
(* Alerts.                                                                  *)

USE DEF CONFIG_STATUS_UNSPECIFIED, CONFIG_STATUS_IN_COMPLIANCE,
        CONFIG_STATUS_MINOR_DISCREPANCY, CONFIG_STATUS_MAJOR_DISCREPANCY,
        CONFIG_STATUS_NOT_MISSION_CAPABLE, Statuses

\* last_alerted_status is the status of the last alert sent. It is never
\* MINOR: that status raises nothing and resolves nothing.
AlertMemory(alerted) ==
  /\ Alarmed <=> alerted >= CONFIG_STATUS_MAJOR_DISCREPANCY
  /\ alerted # CONFIG_STATUS_MINOR_DISCREPANCY
  /\ lastAlert # None => lastAlert.current = alerted

\* The inductive invariant: before an asset is known nothing was sent;
\* afterwards memory and alerts agree, and so do status and memory.
AlertInv ==
  /\ amState = None => lastAlert = None
  /\ amState # None =>
       /\ AlertMemory(amState.alerted)
       /\ amState.status >= CONFIG_STATUS_MAJOR_DISCREPANCY =>
            amState.alerted >= CONFIG_STATUS_MAJOR_DISCREPANCY
       /\ amState.status = CONFIG_STATUS_IN_COMPLIANCE =>
            amState.alerted <= CONFIG_STATUS_IN_COMPLIANCE

\* The alert a step sends, if it sends one, is the other kind.
Alternates ==
  lastAlert' # lastAlert =>
    lastAlert'.kind = (IF Alarmed THEN "resolved" ELSE "detected")

\* Whatever the analysis arrives at, the tail restores the invariant.
LEMMA CommitAlerts ==
  ASSUME TypeOK, NEW r \in Record, NEW pending \in SUBSET Timer, Commit(r, pending),
         AlertMemory(r.alerted)
  PROVE  AlertInv' /\ Alternates
<1> DEFINE x == Reanalyze(r)
<1>1. x \in Record /\ x.alerted = r.alerted
  BY ReanalyzeType, ReanalyzeKeeps DEF TypeOK
<1>2. x.status \in 0..4 /\ x.alerted \in 0..4
  BY <1>1 DEF Record
<1>3. /\ amState' = AfterAlert(x) /\ AfterAlert(x).status = x.status
      /\ SendAlert(x) /\ amState' \in Record /\ amState' # None
  BY <1>1, CommitSteps, CommitType, AfterAlertKeeps, NoneAssumption
<1> DEFINE sent == [kind |-> IF Detected(x) THEN "detected" ELSE "resolved",
                    previous |-> x.alerted, current |-> x.status, at |-> now]
<1> HIDE DEF x
<1>4. sent # None
  <2>1. sent \in Alert
    BY <1>2 DEF Alert, TypeOK
  <2>2. QED
    BY <2>1, NoneAssumption
<1>5. CASE Detected(x)
  <2>1. amState'.alerted = x.status /\ lastAlert' = sent /\ sent.kind = "detected"
        /\ sent.current = x.status
    BY <1>1, <1>3, <1>5 DEF AfterAlert, SendAlert, Record
  <2>2. x.status >= 3 /\ x.alerted < 3
    BY <1>5 DEF Detected
  <2> HIDE DEF sent
  <2>3. Alarmed' /\ ~Alarmed
    BY <1>1, <1>4, <2>1, <2>2, <1>2 DEF Alarmed, AlertMemory
  <2>4. QED
    BY <1>2, <1>3, <1>4, <2>1, <2>2, <2>3 DEF AlertInv, AlertMemory, Alternates
<1>6. CASE ~Detected(x) /\ Resolved(x)
  <2>1. amState'.alerted = x.status /\ lastAlert' = sent /\ sent.kind = "resolved"
        /\ sent.current = x.status
    BY <1>1, <1>3, <1>6 DEF AfterAlert, SendAlert, Record
  <2>2. x.status = 1 /\ x.alerted >= 3
    BY <1>1, <1>2, <1>6 DEF Resolved, AlertMemory
  <2> HIDE DEF sent
  <2>3. ~Alarmed' /\ Alarmed
    BY <1>1, <2>1, <2>2 DEF Alarmed, AlertMemory
  <2>4. QED
    BY <1>2, <1>3, <1>4, <2>1, <2>2, <2>3 DEF AlertInv, AlertMemory, Alternates
<1>7. CASE ~Detected(x) /\ ~Resolved(x)
  <2>1. amState'.alerted = x.alerted /\ lastAlert' = lastAlert
    BY <1>3, <1>7 DEF AfterAlert, SendAlert
  <2>2. /\ x.status >= 3 => x.alerted >= 3
        /\ x.status = 1 => x.alerted <= 1
    BY <1>2, <1>7 DEF Detected, Resolved
  <2>3. Alarmed' <=> Alarmed
    BY <2>1 DEF Alarmed
  <2>4. QED
    BY <1>1, <1>2, <1>3, <2>1, <2>2, <2>3 DEF AlertInv, AlertMemory, Alternates
<1>8. QED
  BY <1>5, <1>6, <1>7

LEMMA InitAlerts ==
  Init => AlertInv
BY DEF Init, AlertInv

LEMMA NextAlerts ==
  TypeOK /\ AlertInv /\ [Next]_vars => AlertInv' /\ Alternates
<1> SUFFICES ASSUME TypeOK, AlertInv, [Next]_vars PROVE AlertInv' /\ Alternates
  OBVIOUS
<1>1. amState # None => amState \in Record /\ AlertMemory(amState.alerted)
  BY DEF TypeOK, AlertInv
<1>2. CASE Idle
  BY <1>2 DEF Idle, store, output, AlertInv, AlertMemory, Alarmed, Alternates
<1>3. ASSUME NEW e \in SilverEvents, NEW declared \in Declarations,
             Register(e, declared) \/ CommitsFresh(e, declared) \/ CommitsKnown(e)
      PROVE  AlertInv' /\ Alternates
  <2>1. amState = None => lastAlert = None /\ ~Alarmed
    BY DEF AlertInv, Alarmed
  <2>2. CASE Register(e, declared)
    <3>1. RegisteredRecord(e) \in Record /\ lastAlert' = None /\ ~Alarmed'
      BY <2>1, <2>2, RegisteredType DEF Register, TypeOK, Alarmed
    <3>2. amState'.alerted = 0 /\ amState'.status = 0
      BY <2>2 DEF Register, RegisteredRecord, EmptyRecord
    <3>3. QED
      BY <2>1, <2>2, <3>1, <3>2, NoneAssumption
         DEF Register, AlertInv, AlertMemory, Alternates
  <2>3. CASE CommitsFresh(e, declared)
    <3>1. /\ FreshRecord(e, declared) \in Record
          /\ FreshRecord(e, declared).alerted = 0
      BY <2>3, FreshRecordFields DEF CommitsFresh
    <3>2. AlertMemory(0)
      BY <2>1, <2>3 DEF AlertMemory, CommitsFresh
    <3>3. QED
      BY <2>3, <3>1, <3>2, CommitAlerts DEF CommitsFresh, TypeOK
  <2>4. CASE CommitsKnown(e)
    <3>1. /\ Refreshed(amState, e) \in Record
          /\ Refreshed(amState, e).alerted = amState.alerted
      BY <1>1, <2>4, RefreshedType, RefreshedFields DEF CommitsKnown, TypeOK
    <3>2. QED
      BY <1>1, <2>4, <3>1, CommitAlerts DEF CommitsKnown, TypeOK
  <2>5. QED
    BY <1>3, <2>2, <2>3, <2>4
<1>4. ASSUME NEW e \in CmEvents, CommitsEvent(e)
      PROVE  AlertInv' /\ Alternates
  <2>1. /\ ApplyEvent(amState, e) \in Record
        /\ ApplyEvent(amState, e).alerted = amState.alerted
    BY <1>1, <1>4, ApplyEventType, ApplyEventKeeps DEF CommitsEvent, TypeOK
  <2>2. QED
    BY <1>1, <1>4, <2>1, CommitAlerts DEF CommitsEvent, TypeOK
<1>5. ASSUME NEW timer \in timers, CommitsAged(timer)
      PROVE  AlertInv' /\ Alternates
  <2>1. Aged(amState) \in Record /\ Aged(amState).alerted = amState.alerted
    BY <1>1, <1>5, AgedType, AgedFields DEF CommitsAged
  <2>2. timers \ {timer} \in SUBSET Timer
    BY DEF TypeOK
  <2>3. QED
    BY <1>1, <1>5, <2>1, <2>2, CommitAlerts DEF CommitsAged
<1>6. ASSUME NEW timer \in timers, Expires(timer)
      PROVE  AlertInv' /\ Alternates
  BY <1>6 DEF Expires, store, AlertInv, AlertMemory, Alarmed, Alternates
<1>7. CASE Retires
  <2>1. /\ amState \in Record /\ amState # None
        /\ amState'.alerted = amState.alerted
        /\ amState'.status = amState.status
        /\ lastAlert' = lastAlert
    BY <1>1, <1>7 DEF Retires, Record
  <2>2. Alarmed' <=> Alarmed
    BY <2>1 DEF Alarmed
  <2>3. amState' # None
    <3>1. amState' \in Record
      BY <2>1, <1>7 DEF Retires, Record, Lifecycles
    <3>2. QED
      BY <3>1, NoneAssumption
  <2>4. QED
    BY <2>1, <2>2, <2>3 DEF AlertInv, AlertMemory, Alternates
<1>8. QED
  BY <1>2, <1>3, <1>4, <1>5, <1>6, <1>7, StepCases DEF Steps

\* Whoever reads only tactical-events knows the worst, in every state: an
\* asset at MAJOR or worse has a standing "detected", one in compliance none.
THEOREM AlarmIsRight ==
  Spec => [](AlarmFollowsStatus)
<1>1. TypeOK /\ AlertInv => AlarmFollowsStatus
  BY DEF TypeOK, AlertInv, AlertMemory, AlarmFollowsStatus, Record
<1>2. QED
  BY <1>1, TypeCorrect, InitAlerts, NextAlerts, PTL DEF Spec

\* The durable alert memory and the last alert sent never disagree.
THEOREM AlertMemoryIsRight ==
  Spec => [](AlertedMatchesSent)
<1>1. TypeOK /\ AlertInv => AlertedMatchesSent
  BY DEF TypeOK, AlertInv, AlertMemory, AlertedMatchesSent
<1>2. QED
  BY <1>1, TypeCorrect, InitAlerts, NextAlerts, PTL DEF Spec

\* No sequence of calls raises an alarm twice or resolves one that is not
\* standing.
THEOREM AlertsDoAlternate ==
  Spec => AlertsAlternate
<1>1. TypeOK /\ AlertInv /\ [Next]_vars => [Alternates]_vars
  BY NextAlerts
<1>2. Spec => [][Alternates]_vars
  BY <1>1, TypeCorrect, InitAlerts, NextAlerts, PTL DEF Spec
<1>3. QED
  BY <1>2 DEF AlertsAlternate, Alternates

-----------------------------------------------------------------------------
(* Publication.                                                             *)

\* The stored signature is that of the last message, and of the record.
MirrorInv ==
  /\ emitSig # None => cmState # None /\ Signature(cmState) = emitSig
  /\ amState # None => emitSig = Signature(PayloadOf(amState))

\* Publishing or suppressing, the record a handler stores is the one readers
\* have.
LEMMA EmitMirrors ==
  ASSUME TypeOK, MirrorInv, NEW r \in Record, Emit(r), amState' = r
  PROVE  MirrorInv'
<1> DEFINE sig == Signature(PayloadOf(r))
           payload == PayloadOf(r)
<1>1. sig # None /\ payload # None
  BY PayloadType, NoneAssumption
<1>2. emitSig' = sig /\ cmState' = IF emitSig = sig THEN cmState ELSE payload
  BY DEF Emit
<1>3. cmState' # None /\ Signature(cmState') = sig
  BY <1>1, <1>2 DEF MirrorInv
<1>4. QED
  BY <1>2, <1>3 DEF MirrorInv

LEMMA InitMirror ==
  Init => MirrorInv
BY DEF Init, MirrorInv

LEMMA NextMirror ==
  TypeOK /\ MirrorInv /\ [Next]_vars => MirrorInv'
<1> SUFFICES ASSUME TypeOK, MirrorInv, [Next]_vars PROVE MirrorInv'
  OBVIOUS
<1>1. ASSUME NEW r \in Record, NEW pending, Commit(r, pending)
      PROVE  MirrorInv'
  <2>1. AfterAlert(Reanalyze(r)) \in Record
    BY ReanalyzeType, AfterAlertType DEF TypeOK
  <2>2. QED
    BY <1>1, <2>1, CommitSteps, EmitMirrors
<1>2. CASE Idle
  BY <1>2 DEF Idle, store, output, MirrorInv
<1>3. ASSUME NEW e \in SilverEvents, NEW declared \in Declarations,
             Register(e, declared) \/ CommitsFresh(e, declared) \/ CommitsKnown(e)
      PROVE  MirrorInv'
  <2>1. CASE Register(e, declared)
    BY <2>1, RegisteredType, EmitMirrors DEF Register, TypeOK
  <2>2. CASE CommitsFresh(e, declared)
    BY <1>1, <2>2, FreshRecordFields DEF CommitsFresh
  <2>3. CASE CommitsKnown(e)
    BY <1>1, <2>3, RefreshedType DEF CommitsKnown, TypeOK
  <2>4. QED
    BY <1>3, <2>1, <2>2, <2>3
<1>4. ASSUME NEW e \in CmEvents, CommitsEvent(e)
      PROVE  MirrorInv'
  BY <1>1, <1>4, ApplyEventType DEF CommitsEvent, TypeOK
<1>5. ASSUME NEW timer \in timers, CommitsAged(timer)
      PROVE  MirrorInv'
  BY <1>1, <1>5, AgedType DEF CommitsAged, TypeOK
<1>6. ASSUME NEW timer \in timers, Expires(timer)
      PROVE  MirrorInv'
  BY <1>6 DEF Expires, store, MirrorInv
<1>7. CASE Retires
  <2>1. [amState EXCEPT !.lifecycle = LIFECYCLE_DECOMMISSIONED] \in Record
    BY <1>7 DEF Retires, TypeOK, Record, Lifecycles
  <2>2. QED
    BY <1>7, <2>1, EmitMirrors DEF Retires
<1>8. QED
  BY <1>2, <1>3, <1>4, <1>5, <1>6, <1>7, StepCases DEF Steps

\* Suppressing unchanged payloads never leaves readers of asset-cm-state
\* behind the record.
THEOREM ReadersSeeTheRecord ==
  Spec => [](CmStateMirrorsRecord)
<1>1. TypeOK /\ MirrorInv => CmStateMirrorsRecord
  <2> SUFFICES ASSUME TypeOK, MirrorInv, amState # None
               PROVE  cmState # None /\ Signature(cmState) = Signature(PayloadOf(amState))
    BY DEF CmStateMirrorsRecord
  <2>1. Signature(PayloadOf(amState)) # None
    BY PayloadType, NoneAssumption DEF TypeOK
  <2>2. QED
    BY <2>1 DEF MirrorInv
<1>2. QED
  BY <1>1, TypeCorrect, InitMirror, NextMirror, PTL DEF Spec

-----------------------------------------------------------------------------
(* Staleness.                                                               *)

\* The record was observed no earlier than the feed last spoke, and what is
\* STALE has been silent for the window.
SilenceInv ==
  amState # None =>
    /\ telemetryAt \in Nat
    /\ telemetryAt <= amState.observed
    /\ telemetryAt <= now
    /\ amState.lifecycle = LIFECYCLE_STALE => now >= telemetryAt + Window

\* The tail stores the observation time and lifecycle it is handed.
LEMMA CommitKeeps ==
  ASSUME TypeOK, NEW r \in Record, NEW pending, Commit(r, pending)
  PROVE  /\ amState' \in Record /\ amState' # None
         /\ amState'.observed = r.observed
         /\ amState'.lifecycle = r.lifecycle
         /\ amState'.edge = r.edge
         /\ amState'.label = r.label
         /\ amState'.baseline = r.baseline
         /\ amState'.manual = r.manual
         /\ amState'.mods = r.mods
         /\ amState'.installed = r.installed
         /\ amState'.closed = r.closed
         /\ amState'.ctx = r.ctx
<1>1. Reanalyze(r) \in Record
  BY ReanalyzeType DEF TypeOK
<1>2. AfterAlert(Reanalyze(r)) \in Record
  BY <1>1, AfterAlertType
<1>3. QED
  BY <1>1, <1>2, CommitSteps, ReanalyzeKeeps, AfterAlertKeeps, NoneAssumption

LEMMA InitSilence ==
  Init => SilenceInv
BY DEF Init, SilenceInv

LEMMA StepsSilence ==
  ASSUME TypeOK, SilenceInv, now' \in Nat, now' >= now, Steps
  PROVE  SilenceInv'
<1>1. now \in Nat /\ now' \in Nat /\ now' >= now /\ Window \in Nat
  BY TimingAssumption, SecondAssumption DEF TypeOK, Window
<1>2. amState # None => amState \in Record /\ amState.observed \in Nat
  BY DEF TypeOK, Record
<1>3. CASE Idle
  BY <1>1, <1>3 DEF Idle, store, output, SilenceInv
<1>4. ASSUME NEW e \in SilverEvents, NEW declared \in Declarations,
             Register(e, declared) \/ CommitsFresh(e, declared) \/ CommitsKnown(e)
      PROVE  SilenceInv'
  <2>1. CASE Register(e, declared)
    <3>1. amState'.observed = now /\ amState'.lifecycle # LIFECYCLE_STALE
      BY <2>1 DEF Register, RegisteredRecord, EmptyRecord, LIFECYCLE_REGISTERED,
         LIFECYCLE_STALE
    <3>2. QED
      BY <1>1, <2>1, <3>1 DEF Register, SilenceInv
  <2>2. CASE CommitsFresh(e, declared)
    <3>1. amState'.observed = now /\ amState'.lifecycle # LIFECYCLE_STALE
      BY <2>2, FreshRecordFields, CommitKeeps DEF CommitsFresh
    <3>2. QED
      BY <1>1, <2>2, <3>1 DEF CommitsFresh, SilenceInv
  <2>3. CASE CommitsKnown(e)
    <3>1. Refreshed(amState, e) \in Record
      BY <1>2, <2>3, RefreshedType DEF CommitsKnown, TypeOK
    <3>2. amState'.observed = now /\ amState'.lifecycle # LIFECYCLE_STALE
      BY <1>2, <2>3, <3>1, RefreshedFields, CommitKeeps DEF CommitsKnown
    <3>3. QED
      BY <1>1, <2>3, <3>2 DEF CommitsKnown, SilenceInv
  <2>4. QED
    BY <1>4, <2>1, <2>2, <2>3
<1>5. ASSUME NEW e \in CmEvents, CommitsEvent(e)
      PROVE  SilenceInv'
  <2>1. ApplyEvent(amState, e) \in Record
    BY <1>2, <1>5, ApplyEventType DEF CommitsEvent, TypeOK
  <2>2. /\ amState'.observed \in {amState.observed, now}
        /\ amState'.lifecycle = amState.lifecycle
    BY <1>2, <1>5, <2>1, ApplyEventKeeps, CommitKeeps DEF CommitsEvent
  <2>3. QED
    BY <1>1, <1>2, <1>5, <2>2 DEF CommitsEvent, SilenceInv
<1>6. ASSUME NEW timer \in timers, CommitsAged(timer)
      PROVE  SilenceInv'
  <2>1. Aged(amState) \in Record
    BY <1>2, <1>6, AgedType DEF CommitsAged
  <2>2. /\ amState'.observed = amState.observed
        /\ amState'.lifecycle # amState.lifecycle => now >= amState.observed + Window
    BY <1>2, <1>6, <2>1, AgedFields, CommitKeeps DEF CommitsAged
  <2>3. QED
    BY <1>1, <1>2, <1>6, <2>2 DEF CommitsAged, SilenceInv
<1>7. ASSUME NEW timer \in timers, Expires(timer)
      PROVE  SilenceInv'
  BY <1>7 DEF Expires, store, SilenceInv
<1>8. CASE Retires
  <2>1. amState'.observed = amState.observed /\ amState'.lifecycle # LIFECYCLE_STALE
    BY <1>2, <1>8 DEF Retires, Record, LIFECYCLE_STALE, LIFECYCLE_DECOMMISSIONED
  <2>2. QED
    BY <1>1, <1>2, <1>8, <2>1 DEF Retires, SilenceInv
<1>9. QED
  BY <1>3, <1>4, <1>5, <1>6, <1>7, <1>8 DEF Steps

LEMMA NextSilence ==
  TypeOK /\ SilenceInv /\ [Next]_vars => SilenceInv'
BY StepCases, StepsSilence

\* Nothing is reported STALE before its feed has been silent for the window,
\* however rechecks, inspections and late deliveries interleave.
THEOREM StaleIsSilent ==
  Spec => [](StaleMeansSilent)
<1>1. SilenceInv => StaleMeansSilent
  BY DEF SilenceInv, StaleMeansSilent
<1>2. QED
  BY <1>1, TypeCorrect, InitSilence, NextSilence, PTL DEF Spec

-----------------------------------------------------------------------------
(* Rechecks.                                                                *)

\* A delayed call comes due less than a second before its aim, and no more than
\* the minimum delay after it.
OnTime(timer) ==
  /\ timer.fires + Second > timer.target
  /\ timer.fires <= timer.target + RECHECK_MIN_DELAY_S * Second

\* Every pending call is on time, and while next_recheck_ns is a second or more
\* ahead a call aimed at it is pending.
AimInv ==
  /\ DebounceIsHonest
  /\ \A timer \in timers : OnTime(timer)

\* As long as no state is lost, every pending call is also aimed at a moment of
\* its own, not before the recorded one, which is unset only while nothing is
\* pending.
RecheckInv ==
  /\ AimInv
  /\ RechecksAreDistinct
  /\ nextRecheck = 0 => timers = {}

\* Flooring the delay loses less than a second, and only the minimum delay
\* makes a call late.
LEMMA DelayReaches ==
  ASSUME now \in Nat, NEW target \in Nat, target > now
  PROVE  OnTime([fires |-> now + Delay(target), target |-> target])
<1> DEFINE ahead == target - now
           whole == ahead \div Second
           n == IF whole > RECHECK_MIN_DELAY_S THEN whole ELSE RECHECK_MIN_DELAY_S
<1>1. ahead \in Int /\ whole \in Int /\ Second \in Nat /\ Second > 0
  BY SecondAssumption
<1>2. ahead < (whole + 1) * Second /\ whole * Second <= ahead
  BY <1>1
<1>3. /\ n \in Int /\ n >= whole
      /\ n = whole \/ n = RECHECK_MIN_DELAY_S
  BY <1>1, TimingAssumption
<1> HIDE DEF whole, n
<1>4. (whole + 1) * Second <= (n + 1) * Second
  BY <1>1, <1>3
<1>5. (n + 1) * Second = n * Second + Second
  BY <1>1, <1>3
<1>6. Delay(target) = n * Second /\ n * Second \in Int
  BY <1>1, <1>3 DEF Delay, n, whole
<1> HIDE DEF ahead
<1>7. ahead < Delay(target) + Second
  <2>1. (n + 1) * Second \in Int /\ (whole + 1) * Second \in Int
    BY <1>1, <1>3
  <2>2. QED
    BY <1>1, <1>2, <1>4, <1>5, <1>6, <2>1
<1>8. now + Delay(target) + Second > target
  BY <1>1, <1>6, <1>7 DEF ahead
<1>9. now + Delay(target) <= target + RECHECK_MIN_DELAY_S * Second
  <2>1. RECHECK_MIN_DELAY_S * Second \in Nat
    BY <1>1, TimingAssumption
  <2>2. CASE n = whole
    BY <1>1, <1>2, <1>6, <2>1, <2>2 DEF ahead
  <2>3. CASE n = RECHECK_MIN_DELAY_S
    BY <1>1, <1>6, <2>1, <2>3
  <2>4. QED
    BY <1>3, <2>2, <2>3
<1>10. QED
  BY <1>8, <1>9 DEF OnTime

\* Delivering calls that are due, and sending none, keeps the invariant: a
\* call that is due was aimed at most a second ahead.
LEMMA DeliveryKeepsAim ==
  ASSUME TypeOK, AimInv, now' \in Nat, now' >= now,
         NEW pending \in SUBSET timers,
         \A timer \in timers \ pending : now >= timer.fires,
         nextRecheck' = nextRecheck, timers' = pending
  PROVE  AimInv'
<1>1. now \in Nat /\ nextRecheck \in Nat /\ Second \in Nat
  BY SecondAssumption DEF TypeOK
<1>2. ASSUME NEW timer \in timers
      PROVE  timer.fires \in Nat /\ timer.target \in Nat
  BY DEF TypeOK, Timer
<1>3. DebounceIsHonest'
  <2> SUFFICES ASSUME nextRecheck >= now' + Second
               PROVE  \E timer \in pending :
                        timer.target = nextRecheck /\ OnTime(timer)
    BY DEF DebounceIsHonest, OnTime
  <2>1. \A a, b, c, n \in Nat : a >= b /\ n >= a + c => n >= b + c
    OBVIOUS
  <2>2. nextRecheck >= now + Second
    BY <1>1, <2>1
  <2>3. PICK timer \in timers : timer.target = nextRecheck
    BY <2>2 DEF AimInv, DebounceIsHonest
  <2>4. timer \in pending
    <3> SUFFICES ASSUME timer \notin pending PROVE FALSE
      OBVIOUS
    <3>1. now >= timer.fires /\ timer.fires + Second > timer.target
      BY DEF AimInv, OnTime
    <3>2. now + Second > nextRecheck
      BY <1>1, <1>2, <2>3, <3>1
    <3>3. QED
      BY <1>1, <2>2, <3>2
  <2>5. QED
    BY <2>3, <2>4 DEF AimInv
<1>4. (\A timer \in timers : OnTime(timer))'
  BY DEF AimInv, OnTime
<1>5. QED
  BY <1>3, <1>4 DEF AimInv

LEMMA DeliveryKeepsRechecks ==
  ASSUME TypeOK, RecheckInv, now' \in Nat, now' >= now,
         NEW pending \in SUBSET timers,
         \A timer \in timers \ pending : now >= timer.fires,
         nextRecheck' = nextRecheck, timers' = pending
  PROVE  RecheckInv'
<1>1. AimInv'
  BY DeliveryKeepsAim DEF RecheckInv
<1>2. RechecksAreDistinct'
  BY DEF RecheckInv, RechecksAreDistinct
<1>3. (nextRecheck = 0 => timers = {})'
  BY DEF RecheckInv
<1>4. QED
  BY <1>1, <1>2, <1>3 DEF RecheckInv

\* A call that is sent is on time, and its aim is recorded.
LEMMA ScheduleKeepsAim ==
  ASSUME TypeOK, AimInv, now' \in Nat, now' >= now,
         NEW pending \in SUBSET timers,
         \A timer \in timers \ pending : now >= timer.fires,
         NEW r \in Record, Schedule(r, pending)
  PROVE  AimInv'
<1>1. CASE nextRecheck' = nextRecheck /\ timers' = pending
  BY <1>1, DeliveryKeepsAim
<1>2. ASSUME NEW target \in RecheckTargets(r),
             nextRecheck' = target,
             timers' = pending \cup {[fires |-> now + Delay(target), target |-> target]}
      PROVE  AimInv'
  <2> DEFINE call == [fires |-> now + Delay(target), target |-> target]
  <2>1. now \in Nat /\ target \in Nat /\ target > now
    BY RecheckTargetsType DEF TypeOK
  <2>2. call.target = target /\ OnTime(call)
    BY <2>1, DelayReaches
  <2>3. timers' = pending \cup {call} /\ call \in timers'
    BY <1>2
  <2> HIDE DEF call
  <2>4. DebounceIsHonest'
    BY <1>2, <2>2, <2>3 DEF DebounceIsHonest, OnTime
  <2>5. (\A timer \in timers : OnTime(timer))'
    BY <2>2, <2>3 DEF AimInv, OnTime
  <2>6. QED
    BY <2>4, <2>5 DEF AimInv
<1>3. QED
  BY <1>1, <1>2, ScheduleCases

\* So does the scheduler: it sends a call only for a target before every
\* pending one, and records it.
LEMMA ScheduleKeepsRechecks ==
  ASSUME TypeOK, RecheckInv, now' \in Nat, now' >= now,
         NEW pending \in SUBSET timers,
         \A timer \in timers \ pending : now >= timer.fires,
         NEW r \in Record, Schedule(r, pending)
  PROVE  RecheckInv'
<1>1. CASE nextRecheck' = nextRecheck /\ timers' = pending
  BY <1>1, DeliveryKeepsRechecks
<1>2. ASSUME NEW target \in RecheckTargets(r),
             ~Debounced(target), nextRecheck' = target,
             timers' = pending \cup {[fires |-> now + Delay(target), target |-> target]}
      PROVE  RecheckInv'
  <2> DEFINE call == [fires |-> now + Delay(target), target |-> target]
  <2>1. now \in Nat /\ nextRecheck \in Nat /\ target \in Nat /\ target > now
    BY RecheckTargetsType DEF TypeOK
  <2>2. call.target = target
    OBVIOUS
  <2>3. ASSUME NEW timer \in pending
        PROVE  timer.target > target
    <3>1. timer \in timers /\ timer.target \in Nat
      BY DEF TypeOK, Timer
    <3>2. nextRecheck # 0 /\ timer.target >= nextRecheck
      BY <3>1 DEF RecheckInv, RechecksAreDistinct
    <3>3. nextRecheck > target
      BY <1>2, <2>1, <3>2 DEF Debounced
    <3>4. QED
      BY <2>1, <3>1, <3>2, <3>3 DEF RecheckInv
  <2>4. timers' = pending \cup {call} /\ call \in timers'
    BY <1>2
  <2> HIDE DEF call
  <2>5. RechecksAreDistinct'
    <3>1. ASSUME NEW timer \in timers'
          PROVE  timer.target >= target
      <4>1. CASE timer = call
        BY <2>1, <2>2, <4>1
      <4>2. CASE timer \in pending
        <5>1. timer.target > target /\ timer.target \in Nat
          BY <2>3, <4>2 DEF TypeOK, Timer
        <5>2. QED
          BY <2>1, <5>1
      <4>3. QED
        BY <2>4, <4>1, <4>2
    <3>2. ASSUME NEW a \in timers', NEW b \in timers', a.target = b.target
          PROVE  a = b
      <4>1. CASE a = call \/ b = call
        BY <2>1, <2>2, <2>3, <2>4, <3>2, <4>1
      <4>2. CASE a \in timers /\ b \in timers
        BY <3>2, <4>2 DEF RecheckInv, RechecksAreDistinct
      <4>3. QED
        BY <2>4, <4>1, <4>2
    <3>3. QED
      BY <1>2, <3>1, <3>2 DEF RechecksAreDistinct
  <2>6. nextRecheck' # 0
    BY <1>2, <2>1
  <2>7. QED
    BY <2>5, <2>6, ScheduleKeepsAim DEF RecheckInv
<1>3. QED
  BY <1>1, <1>2, ScheduleCases

LEMMA InitRechecks ==
  Init => RecheckInv
BY SecondAssumption DEF Init, RecheckInv, AimInv, RechecksAreDistinct, DebounceIsHonest

\* What a step does to the pending calls: it takes away some that are due, and
\* the tail may send one.
Delivers(pending) ==
  /\ pending \subseteq timers
  /\ \A timer \in timers \ pending : now >= timer.fires
  /\ \/ nextRecheck' = nextRecheck /\ timers' = pending
     \/ \E r \in Record : Schedule(r, pending)

LEMMA CommitDelivers ==
  ASSUME TypeOK, NEW r \in Record, NEW pending \in SUBSET timers,
         \A timer \in timers \ pending : now >= timer.fires,
         Commit(r, pending)
  PROVE  Delivers(pending)
<1>1. AfterAlert(Reanalyze(r)) \in Record
  BY ReanalyzeType, AfterAlertType DEF TypeOK
<1>2. QED
  BY <1>1, CommitSteps DEF Delivers

LEMMA StepsDeliver ==
  ASSUME TypeOK, Steps
  PROVE  \E pending : Delivers(pending)
<1>1. nextRecheck' = nextRecheck /\ timers' = timers => Delivers(timers)
  BY DEF Delivers
<1>2. CASE Idle
  BY <1>1, <1>2 DEF Idle, store, output
<1>3. ASSUME NEW e \in SilverEvents, NEW declared \in Declarations,
             Register(e, declared) \/ CommitsFresh(e, declared) \/ CommitsKnown(e)
      PROVE  Delivers(timers)
  <2>1. CASE Register(e, declared)
    BY <1>1, <2>1 DEF Register
  <2>2. CASE CommitsFresh(e, declared)
    BY <2>2, FreshRecordFields, CommitDelivers DEF CommitsFresh
  <2>3. CASE CommitsKnown(e)
    BY <2>3, RefreshedType, CommitDelivers DEF CommitsKnown, TypeOK
  <2>4. QED
    BY <1>3, <2>1, <2>2, <2>3
<1>4. ASSUME NEW e \in CmEvents, CommitsEvent(e)
      PROVE  Delivers(timers)
  BY <1>4, ApplyEventType, CommitDelivers DEF CommitsEvent, TypeOK
<1>5. ASSUME NEW timer \in timers, CommitsAged(timer)
      PROVE  Delivers(timers \ {timer})
  <2>1. Aged(amState) \in Record /\ now >= timer.fires
    BY <1>5, AgedType DEF CommitsAged, TypeOK
  <2>2. \A other \in timers \ (timers \ {timer}) : now >= other.fires
    BY <2>1
  <2>3. QED
    BY <1>5, <2>1, <2>2, CommitDelivers DEF CommitsAged
<1>6. ASSUME NEW timer \in timers, Expires(timer)
      PROVE  Delivers(timers \ {timer})
  BY <1>6 DEF Expires, store, Delivers
<1>7. CASE Retires
  BY <1>1, <1>7 DEF Retires
<1>8. QED
  BY <1>2, <1>3, <1>4, <1>5, <1>6, <1>7 DEF Steps

LEMMA NextRechecks ==
  TypeOK /\ RecheckInv /\ [Next]_vars => RecheckInv'
<1> SUFFICES ASSUME TypeOK, RecheckInv, [Next]_vars PROVE RecheckInv'
  OBVIOUS
<1>1. now' \in Nat /\ now' >= now /\ Steps
  BY StepCases
<1>2. PICK pending : Delivers(pending)
  BY <1>1, StepsDeliver
<1>3. QED
  BY <1>1, <1>2, DeliveryKeepsRechecks, ScheduleKeepsRechecks DEF Delivers

\* The debounce never suppresses a recheck without another one on its way.
THEOREM DebounceIsSafe ==
  Spec => [](DebounceIsHonest)
<1>1. RecheckInv => DebounceIsHonest
  BY DEF RecheckInv, AimInv
<1>2. QED
  BY <1>1, TypeCorrect, InitRechecks, NextRechecks, PTL DEF Spec

\* Delayed calls never pile up on one moment.
THEOREM RechecksStayDistinct ==
  Spec => [](RechecksAreDistinct)
<1>1. RecheckInv => RechecksAreDistinct
  BY DEF RecheckInv
<1>2. QED
  BY <1>1, TypeCorrect, InitRechecks, NextRechecks, PTL DEF Spec

-----------------------------------------------------------------------------
(* What no step may do.                                                     *)

\* What a step keeps of a known asset: its labels, and its retirement.
Keeps ==
  /\ amState' # None
  /\ amState.label # Blank => amState'.label # Blank
  /\ amState.edge # Blank => amState'.edge # Blank
  /\ amState.lifecycle = LIFECYCLE_DECOMMISSIONED =>
       /\ amState'.lifecycle = LIFECYCLE_DECOMMISSIONED
       /\ timers' \subseteq timers

LEMMA StepKeeps ==
  ASSUME TypeOK, [Next]_vars, amState # None
  PROVE  Keeps
<1>1. amState \in Record /\ Steps
  BY StepCases DEF TypeOK
<1>2. ASSUME NEW r \in Record, NEW pending \in SUBSET timers, Commit(r, pending),
             amState.label # Blank => r.label # Blank,
             amState.edge # Blank => r.edge # Blank,
             amState.lifecycle = LIFECYCLE_DECOMMISSIONED =>
               r.lifecycle = LIFECYCLE_DECOMMISSIONED
      PROVE  Keeps
  <2>1. /\ amState' # None /\ amState'.label = r.label /\ amState'.edge = r.edge
        /\ amState'.lifecycle = r.lifecycle
    BY <1>2, CommitKeeps
  <2>2. ASSUME r.lifecycle = LIFECYCLE_DECOMMISSIONED
        PROVE  timers' = pending
    <3>1. RecheckTargets(AfterAlert(Reanalyze(r))) = {}
      BY <2>2, ReanalyzeKeeps, AfterAlertKeeps, ReanalyzeType
         DEF RecheckTargets, TypeOK
    <3>2. QED
      BY <1>2, <3>1, CommitSteps, ScheduleCases
  <2>3. QED
    BY <1>2, <2>1, <2>2 DEF Keeps
<1>3. CASE Idle
  BY <1>3 DEF Idle, store, output, Keeps
<1>4. ASSUME NEW e \in SilverEvents, CommitsKnown(e)
      PROVE  Keeps
  <2>1. Refreshed(amState, e) \in Record /\ Commit(Refreshed(amState, e), timers)
    BY <1>1, <1>4, RefreshedType DEF CommitsKnown, TypeOK
  <2>2. LIFECYCLE_DECOMMISSIONED # LIFECYCLE_STALE
    BY DEF LIFECYCLE_DECOMMISSIONED, LIFECYCLE_STALE
  <2>3. QED
    BY <1>1, <1>2, <2>1, <2>2, RefreshedFields
<1>5. ASSUME NEW e \in CmEvents, CommitsEvent(e)
      PROVE  Keeps
  <2>1. ApplyEvent(amState, e) \in Record /\ Commit(ApplyEvent(amState, e), timers)
    BY <1>1, <1>5, ApplyEventType DEF CommitsEvent, TypeOK
  <2>2. QED
    BY <1>1, <1>2, <2>1, ApplyEventKeeps
<1>6. ASSUME NEW timer \in timers, CommitsAged(timer)
      PROVE  Keeps
  <2>1. Aged(amState) \in Record /\ Commit(Aged(amState), timers \ {timer})
    BY <1>1, <1>6, AgedType DEF CommitsAged
  <2>2. LIFECYCLE_DECOMMISSIONED # LIFECYCLE_ACTIVE
    BY DEF LIFECYCLE_DECOMMISSIONED, LIFECYCLE_ACTIVE
  <2>3. QED
    BY <1>1, <1>2, <2>1, <2>2, AgedFields
<1>7. CASE Retires
  <2>1. [amState EXCEPT !.lifecycle = LIFECYCLE_DECOMMISSIONED] \in Record
    BY <1>1 DEF Record, Lifecycles
  <2>2. QED
    BY <1>1, <1>7, <2>1, NoneAssumption DEF Retires, Record, Keeps
<1>8. QED
  BY <1>1, <1>3, <1>4, <1>5, <1>6, <1>7 DEF Steps, Register, CommitsFresh, Expires

\* Origin and releasability labels, once known, are never cleared.
THEOREM LabelsDoSurvive ==
  Spec => LabelsSurvive
<1> DEFINE Kept == amState # None =>
        /\ amState' # None
        /\ amState.label # Blank => amState'.label # Blank
        /\ amState.edge # Blank => amState'.edge # Blank
<1>1. TypeOK /\ [Next]_vars => [Kept]_vars
  BY StepKeeps DEF Keeps
<1>2. Spec => [][Kept]_vars
  BY <1>1, TypeCorrect, PTL DEF Spec
<1>3. QED
  BY <1>2 DEF LabelsSurvive

\* No handler brings a retired asset back or sends it another recheck.
THEOREM RetirementIsFinal ==
  Spec => DecommissionedIsFinal
<1> DEFINE Final == amState # None /\ amState.lifecycle = LIFECYCLE_DECOMMISSIONED =>
        /\ amState'.lifecycle = LIFECYCLE_DECOMMISSIONED
        /\ timers' \subseteq timers
<1>1. TypeOK /\ [Next]_vars => [Final]_vars
  BY StepKeeps DEF Keeps
<1>2. Spec => [][Final]_vars
  BY <1>1, TypeCorrect, PTL DEF Spec
<1>3. QED
  BY <1>2 DEF DecommissionedIsFinal

-----------------------------------------------------------------------------
(* Findings.                                                                *)

\* One analysis never reports a slot or a mod twice.
LEMMA FoundOnce ==
  ASSUME NEW b \in Baseline, NEW installed, NEW mods, NEW t,
         NEW d \in ComputeDiscrepancies(b, installed, mods, t),
         NEW f \in ComputeDiscrepancies(b, installed, mods, t), d.ref = f.ref
  PROVE  d = f
<1>1. MissingSlots(b, installed) \subseteq Slots /\ OpenMods(b, mods) \subseteq Mods
  BY DEF MissingSlots, OpenMods, Baseline
<1>2. \A s : SlotFinding(b, installed, s, t).ref = s
  BY DEF SlotFinding
<1>3. \A m : ModFinding(b, mods, m, t).ref = m
  BY DEF ModFinding
<1>4. /\ \A x \in ComputeDiscrepancies(b, installed, mods, t) :
           \/ x.ref \in Slots /\ x = SlotFinding(b, installed, x.ref, t)
           \/ x.ref \in Mods /\ x = ModFinding(b, mods, x.ref, t)
  BY <1>1, <1>2, <1>3 DEF ComputeDiscrepancies
<1>5. QED
  BY <1>4, RefsAssumption

\* A finding is open at most once.
UniqueFindings(found) == \A d, f \in found : SameFinding(d, f) => d = f

FindingsInv == amState # None => UniqueFindings(amState.discs)

LEMMA CarriedFields ==
  ASSUME NEW d \in Finding, NEW previous \in SUBSET Finding
  PROVE  /\ Carried(d, previous).ref = d.ref
         /\ Carried(d, previous).baseline = d.baseline
         /\ UniqueFindings(previous) =>
              \A p \in previous : SameFinding(d, p) =>
                Carried(d, previous).detected = p.detected
<1> DEFINE match == { p \in previous : SameFinding(d, p) }
           held == CHOOSE p \in match : TRUE
<1>1. CASE match = {}
  BY <1>1 DEF Carried
<1>2. CASE match # {}
  <2>1. held \in previous /\ SameFinding(d, held)
    BY <1>2
  <2>2. Carried(d, previous) =
          [d EXCEPT !.detected = held.detected,
                    !.generated = IF SameAdvisory(d, held)
                                  THEN held.generated ELSE d.generated]
    BY <1>2 DEF Carried, Finding
  <2> HIDE DEF held
  <2>3. /\ Carried(d, previous).ref = d.ref
        /\ Carried(d, previous).baseline = d.baseline
        /\ Carried(d, previous).detected = held.detected
    BY <2>2 DEF Finding
  <2>4. ASSUME UniqueFindings(previous), NEW p \in previous, SameFinding(d, p)
        PROVE  p = held
    BY <2>1, <2>4 DEF UniqueFindings, SameFinding
  <2>5. QED
    BY <2>3, <2>4
<1>3. QED
  BY <1>1, <1>2

\* Analysis finds each thing once and keeps the detection times it had.
LEMMA ReanalyzeFindings ==
  ASSUME TypeOK, NEW r \in Record, UniqueFindings(r.discs)
  PROVE  /\ UniqueFindings(Reanalyze(r).discs)
         /\ \A d \in r.discs, f \in Reanalyze(r).discs :
              SameFinding(d, f) => f.detected = d.detected
<1>1. CASE r.baseline = None \/ BaselineById(r.baseline) = None
  BY <1>1 DEF Reanalyze, UniqueFindings
<1>2. CASE ~ (r.baseline = None \/ BaselineById(r.baseline) = None)
  <2> DEFINE b == BaselineById(r.baseline)
             found == ComputeDiscrepancies(b, r.installed, r.mods, now)
  <2>1. b \in Baseline /\ r.installed \in Installed /\ r.mods \in ModCompliance
        /\ r.discs \in SUBSET Finding
    BY <1>2, BaselineByIdType DEF TypeOK, Record
  <2>2. found \subseteq Finding
    BY <2>1, ComputeDiscrepanciesType DEF TypeOK
  <2>3. Reanalyze(r).discs = { Carried(d, r.discs) : d \in found }
    BY <1>2, ReanalyzeIs DEF TypeOK
  <2>4. \A d, f \in found : d.ref = f.ref => d = f
    BY <2>1, FoundOnce
  <2> HIDE DEF found, b
  <2>5. UniqueFindings(Reanalyze(r).discs)
    BY <2>1, <2>2, <2>3, <2>4, CarriedFields DEF UniqueFindings, SameFinding
  <2>6. ASSUME NEW d \in r.discs, NEW f \in Reanalyze(r).discs, SameFinding(d, f)
        PROVE  f.detected = d.detected
    <3>1. PICK x \in found : f = Carried(x, r.discs)
      BY <2>3
    <3>2. x \in Finding /\ SameFinding(x, d)
      BY <2>1, <2>2, <2>6, <3>1, CarriedFields DEF SameFinding
    <3>3. QED
      BY <2>1, <3>1, <3>2, CarriedFields
  <2>7. QED
    BY <2>5, <2>6
<1>3. QED
  BY <1>1, <1>2

\* The tail stores exactly what analysis found.
LEMMA CommitFindings ==
  ASSUME TypeOK, NEW r \in Record, NEW pending, Commit(r, pending),
         UniqueFindings(r.discs)
  PROVE  /\ FindingsInv'
         /\ \A d \in r.discs, f \in amState'.discs :
              SameFinding(d, f) => f.detected = d.detected
<1>1. amState'.discs = Reanalyze(r).discs
  BY ReanalyzeType, CommitSteps, AfterAlertKeeps DEF TypeOK
<1>2. QED
  BY <1>1, ReanalyzeFindings DEF FindingsInv

\* What a step does to the detection times of the findings that stay open.
TimesKept ==
  amState # None /\ amState' # None =>
    \A d \in amState.discs, d2 \in amState'.discs :
      SameFinding(d, d2) => d2.detected = d.detected

LEMMA InitFindings ==
  Init => FindingsInv
BY DEF Init, FindingsInv

LEMMA StepsFindings ==
  ASSUME TypeOK, FindingsInv, Steps
  PROVE  FindingsInv' /\ TimesKept
<1>1. amState # None => amState \in Record /\ UniqueFindings(amState.discs)
  BY DEF TypeOK, FindingsInv
<1>2. ASSUME amState' = amState
      PROVE  FindingsInv' /\ TimesKept
  BY <1>2 DEF FindingsInv, TimesKept, UniqueFindings
<1>3. ASSUME amState # None, NEW r \in Record, NEW pending, Commit(r, pending),
             r.discs = amState.discs
      PROVE  FindingsInv' /\ TimesKept
  BY <1>1, <1>3, CommitFindings DEF TimesKept
<1>4. CASE Idle
  BY <1>2, <1>4 DEF Idle, store
<1>5. ASSUME NEW e \in SilverEvents, NEW declared \in Declarations,
             Register(e, declared) \/ CommitsFresh(e, declared) \/ CommitsKnown(e)
      PROVE  FindingsInv' /\ TimesKept
  <2>1. CASE Register(e, declared)
    <3>1. amState'.discs = {}
      BY <2>1 DEF Register, RegisteredRecord, EmptyRecord
    <3>2. QED
      BY <2>1, <3>1 DEF Register, FindingsInv, TimesKept, UniqueFindings
  <2>2. CASE CommitsFresh(e, declared)
    <3> DEFINE b == FirstSeenBaseline(e, declared)
               r == FreshRecord(e, declared)
               found == ComputeDiscrepancies(b, BaselineInstalled(b),
                                             BaselineMods(b), now)
    <3>1. b \in Baseline /\ r \in Record /\ Commit(r, timers) /\ amState = None
      BY <2>2, FirstSeenBaselineType, FreshRecordFields DEF CommitsFresh, TypeOK
    <3>2. r.discs = found
      <4>1. InitializedRecord(b) \in Record /\ r = Refreshed(InitializedRecord(b), e)
        BY <3>1, InitializedType DEF FreshRecord, TypeOK
      <4>2. InitializedRecord(b).discs = found
        BY DEF InitializedRecord, EmptyRecord
      <4>3. QED
        BY <4>1, <4>2, RefreshedFields
    <3>3. UniqueFindings(r.discs)
      BY <3>1, <3>2, FoundOnce DEF UniqueFindings, SameFinding
    <3>4. QED
      BY <3>1, <3>3, CommitFindings DEF TimesKept
  <2>3. CASE CommitsKnown(e)
    <3>1. /\ Refreshed(amState, e) \in Record
          /\ Refreshed(amState, e).discs = amState.discs
      BY <1>1, <2>3, RefreshedType, RefreshedFields DEF CommitsKnown, TypeOK
    <3>2. QED
      BY <1>3, <2>3, <3>1 DEF CommitsKnown
  <2>4. QED
    BY <1>5, <2>1, <2>2, <2>3
<1>6. ASSUME NEW e \in CmEvents, CommitsEvent(e)
      PROVE  FindingsInv' /\ TimesKept
  <2>1. /\ ApplyEvent(amState, e) \in Record
        /\ ApplyEvent(amState, e).discs = amState.discs
    BY <1>1, <1>6, ApplyEventType, ApplyEventKeeps DEF CommitsEvent, TypeOK
  <2>2. QED
    BY <1>3, <1>6, <2>1 DEF CommitsEvent
<1>7. ASSUME NEW timer \in timers, CommitsAged(timer)
      PROVE  FindingsInv' /\ TimesKept
  <2>1. Aged(amState) \in Record /\ Aged(amState).discs = amState.discs
    BY <1>1, <1>7, AgedType, AgedFields DEF CommitsAged
  <2>2. QED
    BY <1>3, <1>7, <2>1 DEF CommitsAged
<1>8. ASSUME NEW timer \in timers, Expires(timer)
      PROVE  FindingsInv' /\ TimesKept
  BY <1>2, <1>8 DEF Expires, store
<1>9. CASE Retires
  <2>1. amState # None /\ amState'.discs = amState.discs
    BY <1>1, <1>9 DEF Retires, Record
  <2>2. QED
    BY <1>1, <2>1 DEF FindingsInv, TimesKept, UniqueFindings
<1>10. QED
  BY <1>4, <1>5, <1>6, <1>7, <1>8, <1>9 DEF Steps

LEMMA NextFindings ==
  TypeOK /\ FindingsInv /\ [Next]_vars => FindingsInv' /\ TimesKept
BY StepCases, StepsFindings

\* First observed stays first observed, across recomputation, reload and
\* edited baselines.
THEOREM DetectionTimesAreKept ==
  Spec => DetectionTimesKept
<1>1. TypeOK /\ FindingsInv /\ [Next]_vars => [TimesKept]_vars
  BY NextFindings
<1>2. Spec => [][TimesKept]_vars
  BY <1>1, TypeCorrect, InitFindings, NextFindings, PTL DEF Spec
<1>3. QED
  BY <1>2 DEF DetectionTimesKept, TimesKept, SameFinding

-----------------------------------------------------------------------------
(* Status.                                                                  *)

\* Carrying times over does not change what the findings amount to.
LEMMA ReanalyzeStatus ==
  ASSUME TypeOK, NEW r \in Record, r.baseline # None, BaselineById(r.baseline) # None
  PROVE  Reanalyze(r).status = OverallStatus(Reanalyze(r).discs \cup r.manual)
<1> DEFINE b == BaselineById(r.baseline)
           found == ComputeDiscrepancies(b, r.installed, r.mods, now)
           carried == { Carried(d, r.discs) : d \in found }
           Severity(S) == { d.severity : d \in S }
<1>1. b \in Baseline /\ r.installed \in Installed /\ r.mods \in ModCompliance
      /\ r.discs \in SUBSET Finding
  BY BaselineByIdType DEF TypeOK, Record
<1>2. found \subseteq Finding
  BY <1>1, ComputeDiscrepanciesType DEF TypeOK
<1>3. Reanalyze(r).discs = carried
      /\ Reanalyze(r).status = OverallStatus(found \cup r.manual)
  BY ReanalyzeIs DEF TypeOK
<1>4. Severity(found \cup r.manual) = Severity(carried \cup r.manual)
  <2>1. \A d \in found : Carried(d, r.discs).severity = d.severity
    BY <1>1, <1>2, CarriedType
  <2> HIDE DEF found
  <2>2. QED
    BY <2>1
<1>5. \A S, T : Severity(S) = Severity(T) => OverallStatus(S) = OverallStatus(T)
  BY DEF OverallStatus
<1>6. QED
  BY <1>3, <1>4, <1>5

\* A change a step makes to faults, mods or parts is counted in the status.
Counted ==
  amState # None /\ amState' # None
  /\ <<amState'.manual, amState'.mods, amState'.installed>>
       # <<amState.manual, amState.mods, amState.installed>>
  /\ amState'.baseline # None /\ BaselineById(amState'.baseline) # None
  => amState'.status = OverallStatus(amState'.discs \cup amState'.manual)

LEMMA StepsCounted ==
  ASSUME TypeOK, Steps
  PROVE  Counted
<1>1. amState # None => amState \in Record
  BY DEF TypeOK
<1>2. ASSUME NEW r \in Record, NEW pending, Commit(r, pending)
      PROVE  Counted
  <2>1. /\ amState'.status = Reanalyze(r).status
        /\ amState'.discs = Reanalyze(r).discs
        /\ amState'.manual = r.manual
        /\ amState'.baseline = r.baseline
    BY <1>2, ReanalyzeType, CommitSteps, AfterAlertKeeps, CommitKeeps DEF TypeOK
  <2>2. QED
    BY <2>1, ReanalyzeStatus DEF Counted
<1>3. CASE Idle
  BY <1>3 DEF Idle, store, Counted
<1>4. ASSUME NEW e \in SilverEvents, NEW declared \in Declarations,
             Register(e, declared) \/ CommitsFresh(e, declared) \/ CommitsKnown(e)
      PROVE  Counted
  BY <1>1, <1>2, <1>4, RefreshedType DEF Register, CommitsFresh, CommitsKnown, Counted, TypeOK
<1>5. ASSUME NEW e \in CmEvents, CommitsEvent(e)
      PROVE  Counted
  BY <1>1, <1>2, <1>5, ApplyEventType DEF CommitsEvent, TypeOK
<1>6. ASSUME NEW timer \in timers, CommitsAged(timer)
      PROVE  Counted
  BY <1>1, <1>2, <1>6, AgedType DEF CommitsAged
<1>7. ASSUME NEW timer \in timers, Expires(timer)
      PROVE  Counted
  BY <1>7 DEF Expires, Counted
<1>8. CASE Retires
  BY <1>1, <1>8 DEF Retires, Record, Counted
<1>9. QED
  BY <1>3, <1>4, <1>5, <1>6, <1>7, <1>8 DEF Steps

LEMMA NextCounted ==
  TypeOK /\ [Next]_vars => Counted
BY StepCases, StepsCounted

\* Human-raised faults and the analyzer's findings are reduced together.
THEOREM StatusCountsEverything ==
  Spec => StatusFollowsFindings
<1>1. TypeOK /\ [Next]_vars => [Counted]_vars
  BY NextCounted
<1>2. Spec => [][Counted]_vars
  BY <1>1, TypeCorrect, PTL DEF Spec
<1>3. QED
  BY <1>2 DEF StatusFollowsFindings, Counted

-----------------------------------------------------------------------------
(* Grave deviations.                                                        *)

\* The analyzer finds every grave deviation, and grades it MAJOR or worse.
LEMMA GraveIsFound ==
  ASSUME NEW b \in Baseline, NEW r \in Record, now \in Nat, GraveDeviation(b, r)
  PROVE  \E d \in ComputeDiscrepancies(b, r.installed, r.mods, now) :
           d.severity >= SEVERITY_MAJOR
<1> DEFINE found == ComputeDiscrepancies(b, r.installed, r.mods, now)
<1> USE DEF SEVERITY_INFO, SEVERITY_MINOR, SEVERITY_MAJOR, SEVERITY_CRITICAL
<1>1. ASSUME NEW s \in MissingSlots(b, r.installed)
      PROVE  \E d \in found : d.severity >= SEVERITY_MAJOR
  <2>1. SlotFinding(b, r.installed, s, now) \in found
        /\ SlotFinding(b, r.installed, s, now).severity >= 3
    BY DEF SlotFinding, ComputeDiscrepancies
  <2>2. QED
    BY <2>1
<1>2. ASSUME NEW m \in OpenMods(b, r.mods),
             \/ b.severity[m] >= SEVERITY_MAJOR
             \/ /\ r.mods[m].state # MOD_UNTRACKED
                /\ b.severity[m] >= SEVERITY_MINOR
                /\ IsOverdue(b, m, now)
      PROVE  \E d \in found : d.severity >= SEVERITY_MAJOR
  <2>1. ModFinding(b, r.mods, m, now) \in found
    BY DEF ComputeDiscrepancies
  <2>2. ModFinding(b, r.mods, m, now).severity =
          IF r.mods[m].state # MOD_UNTRACKED /\ IsOverdue(b, m, now)
          THEN Escalate(b.severity[m]) ELSE b.severity[m]
    BY DEF ModFinding
  <2>3. b.severity[m] \in 1 .. 4
    BY DEF OpenMods, Baseline, Severities
  <2>4. b.severity[m] >= 2 => Escalate(b.severity[m]) >= 3
    BY <2>3 DEF Escalate
  <2>5. ModFinding(b, r.mods, m, now).severity >= 3
    BY <1>2, <2>2, <2>3, <2>4
  <2>6. QED
    BY <2>1, <2>5
<1>3. QED
  <2>1. CASE \E s \in Slots : b.slots[s] = "required"
                             /\ r.installed[s].ci \in {Unverified, NotInstalled}
    <3>1. \E s : s \in MissingSlots(b, r.installed)
      BY <2>1 DEF MissingSlots
    <3>2. \E d \in found : d.severity >= SEVERITY_MAJOR
      <4> HIDE DEF found
      <4>1. QED
        BY <1>1, <3>1
    <3>3. QED
      BY <3>2
  <2>2. CASE \E m \in b.required :
               /\ r.mods[m].state \notin
                    {MOD_STATE_APPLIED, MOD_STATE_WAIVED, MOD_STATE_NOT_APPLICABLE}
               /\ \/ b.severity[m] >= SEVERITY_MAJOR
                  \/ /\ r.mods[m].state # MOD_UNTRACKED
                     /\ b.severity[m] >= SEVERITY_MINOR
                     /\ b.due[m] > 0 /\ now \div Second > b.due[m]
    <3>1. \E m \in OpenMods(b, r.mods) :
            \/ b.severity[m] >= SEVERITY_MAJOR
            \/ /\ r.mods[m].state # MOD_UNTRACKED
               /\ b.severity[m] >= SEVERITY_MINOR
               /\ IsOverdue(b, m, now)
      BY <2>2 DEF OpenMods, IsOverdue
    <3>2. \E d \in found : d.severity >= SEVERITY_MAJOR
      <4> HIDE DEF found
      <4>1. QED
        BY <1>2, <3>1
    <3>3. QED
      BY <3>2
  <2>3. QED
    BY <2>1, <2>2 DEF GraveDeviation

\* What a step leaves of an asset that deviates gravely from the baseline it
\* was measured against.
GraveIsBad ==
  amState'.baseline # None /\ BaselineById(amState'.baseline) # None
  /\ GraveDeviation(BaselineById(amState'.baseline), amState')
  => amState' # None /\ amState'.status >= CONFIG_STATUS_MAJOR_DISCREPANCY

LEMMA CommitGrave ==
  ASSUME TypeOK, NEW r \in Record, NEW pending, Commit(r, pending)
  PROVE  GraveIsBad
<1> DEFINE b == BaselineById(r.baseline)
           found == ComputeDiscrepancies(b, r.installed, r.mods, now)
<1> USE DEF SEVERITY_INFO, SEVERITY_MINOR, SEVERITY_MAJOR, SEVERITY_CRITICAL
<1>1. /\ amState' # None /\ amState'.baseline = r.baseline
      /\ amState'.installed = r.installed /\ amState'.mods = r.mods
      /\ amState'.status = Reanalyze(r).status
  BY ReanalyzeType, CommitSteps, AfterAlertKeeps, CommitKeeps DEF TypeOK
<1>2. SUFFICES ASSUME r.baseline # None, b # None, GraveDeviation(b, r)
               PROVE  Reanalyze(r).status >= 3
  BY <1>1 DEF GraveIsBad, GraveDeviation
<1>3. b \in Baseline /\ r.installed \in Installed /\ r.mods \in ModCompliance
      /\ now \in Nat
  BY <1>2, BaselineByIdType DEF TypeOK, Record
<1>4. Reanalyze(r).status = OverallStatus(found \cup r.manual)
  BY <1>2, ReanalyzeIs DEF TypeOK
<1>5. PICK d \in found : d.severity >= 3
  BY <1>2, <1>3, GraveIsFound
<1>6. d.severity \in 1 .. 4
  BY <1>3, ComputeDiscrepanciesType DEF Finding, Severities
<1> HIDE DEF found
<1>7. \/ 3 \in { x.severity : x \in found \cup r.manual }
      \/ 4 \in { x.severity : x \in found \cup r.manual }
  BY <1>5, <1>6
<1>8. QED
  BY <1>4, <1>7 DEF OverallStatus

LEMMA StepsGrave ==
  ASSUME TypeOK, Steps, telemetryAt' # telemetryAt
  PROVE  GraveIsBad
<1>1. ASSUME NEW e \in SilverEvents, NEW declared \in Declarations,
             Register(e, declared) \/ CommitsFresh(e, declared) \/ CommitsKnown(e)
      PROVE  GraveIsBad
  <2>1. CASE Register(e, declared)
    BY <2>1 DEF Register, RegisteredRecord, EmptyRecord, GraveIsBad
  <2>2. CASE CommitsFresh(e, declared)
    BY <2>2, FreshRecordFields, CommitGrave DEF CommitsFresh
  <2>3. CASE CommitsKnown(e)
    BY <2>3, RefreshedType, CommitGrave DEF CommitsKnown, TypeOK
  <2>4. QED
    BY <1>1, <2>1, <2>2, <2>3
<1>2. QED
  BY <1>1 DEF Steps, Idle, CommitsEvent, CommitsAged, Expires, Retires

\* Whatever the baseline, the history of alerts and the reloads: an asset found
\* to deviate gravely when telemetry is handled has a standing "detected".
THEOREM GraveDeviationsAreAlarmed ==
  Spec => GraveDeviationIsAlarmed
<1> DEFINE Step ==
      telemetryAt' # telemetryAt /\ amState'.baseline # None
      /\ BaselineById(amState'.baseline) # None
      /\ GraveDeviation(BaselineById(amState'.baseline), amState')
      => lastAlert' # None /\ lastAlert'.kind = "detected"
<1>1. TypeOK /\ AlertInv /\ [Next]_vars => [Step]_vars
  <2> SUFFICES ASSUME TypeOK, AlertInv, [Next]_vars, telemetryAt' # telemetryAt,
                      amState'.baseline # None, BaselineById(amState'.baseline) # None,
                      GraveDeviation(BaselineById(amState'.baseline), amState')
               PROVE  lastAlert' # None /\ lastAlert'.kind = "detected"
    OBVIOUS
  <2>1. amState' # None /\ amState'.status >= 3
    BY StepCases, StepsGrave DEF GraveIsBad
  <2>2. TypeOK' /\ AlertInv'
    BY NextType, NextAlerts
  <2>3. amState'.alerted >= 3 /\ AlertMemory(amState.alerted)'
    BY <2>1, <2>2 DEF AlertInv
  <2>4. QED
    BY <2>3 DEF AlertMemory, Alarmed
<1>2. Spec => [][Step]_vars
  BY <1>1, TypeCorrect, InitAlerts, NextAlerts, PTL DEF Spec
<1>3. QED
  BY <1>2 DEF GraveDeviationIsAlarmed
=============================================================================
