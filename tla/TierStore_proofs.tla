---------------------------- MODULE TierStore_proofs ----------------------------
(***************************************************************************)
(* Safety of an AssetCM object that loses its state and restores it from   *)
(* the tier store, for every registry, message, backlog and time.          *)
(*                                                                         *)
(* First the types, then what each step is (TierStepCases), and then one   *)
(* inductive invariant per concern: the row and the backlog, the alarm,    *)
(* the episodes, and what the store owes a restore.                        *)
(***************************************************************************)
EXTENDS TierStore, AssetCMSafety_proofs, Episodes_proofs, SequenceTheorems

-----------------------------------------------------------------------------
(* Types.                                                                   *)

FaultId == (Components \cup {Blank}) \X (Faults \cup {Blank}) \X Nat

Kept == [baseline : BaselineIds \cup {None}, faults : SUBSET FaultId,
         mods : SUBSET Mods]

\* Every variable of object and store holds values of its shape, and the
\* registry is one of those a reload may load.
TierTypeOK ==
  /\ TypeOK
  /\ registry \in Registries
  /\ tierRow \in Payload \cup {None}
  /\ backlog \in Seq(Payload)
  /\ kept \in Kept

\* The row as a later read may find it.
LEMMA RowAfterType ==
  ASSUME TierTypeOK, NEW k \in 0 .. Len(backlog)
  PROVE  RowAfter(k) \in Payload \cup {None}
<1>1. Len(backlog) \in Nat /\ backlog \in [1 .. Len(backlog) -> Payload]
  BY LenProperties DEF TierTypeOK
<1>2. CASE k = 0
  BY <1>2 DEF RowAfter, TierTypeOK
<1>3. CASE k \in 1 .. Len(backlog)
  BY <1>1, <1>3 DEF RowAfter
<1>4. QED
  BY <1>1, <1>2, <1>3

\* Restoring keeps a record well formed, and writes manual discrepancies,
\* parts and mods only.
LEMMA RestoredType ==
  ASSUME NEW r \in Record, NEW manualRow \in Payload \cup {None},
         NEW historyRow \in Payload \cup {None},
         NEW x, x = RestoredRecord(r, manualRow, historyRow)
  PROVE  /\ x \in Record
         /\ x.manual = IF manualRow = None THEN r.manual ELSE manualRow.manual
         /\ x.mods = IF historyRow # None /\ historyRow.baseline = r.baseline
                     THEN MergeMods(r.mods, historyRow.mods) ELSE r.mods
         /\ x.ctx = r.ctx /\ x.closed = r.closed
         /\ x.alerted = r.alerted /\ x.baseline = r.baseline
         /\ x.discs = r.discs
<1> DEFINE same == historyRow # None /\ historyRow.baseline = r.baseline
           manual == IF manualRow = None THEN r.manual ELSE manualRow.manual
           installed == IF same THEN MergeInstalled(r.installed, historyRow.installed)
                        ELSE r.installed
           mods == IF same THEN MergeMods(r.mods, historyRow.mods) ELSE r.mods
<1>1. r.manual \in SUBSET Manual /\ r.installed \in Installed /\ r.mods \in ModCompliance
  BY DEF Record
<1>2. manual \in SUBSET Manual
  BY <1>1 DEF Payload
<1>3. installed \in Installed
  <2>1. CASE same
    <3>1. historyRow.installed \in Installed
      BY <2>1 DEF Payload
    <3>2. MergeInstalled(r.installed, historyRow.installed) \in Installed
      BY <1>1, <3>1 DEF MergeInstalled, Installed
    <3>3. QED
      BY <2>1, <3>2
  <2>2. CASE ~same
    BY <1>1, <2>2
  <2>3. QED
    BY <2>1, <2>2
<1>4. mods \in ModCompliance
  <2>1. CASE same
    <3>1. historyRow.mods \in ModCompliance
      BY <2>1 DEF Payload
    <3>2. MergeMods(r.mods, historyRow.mods) \in ModCompliance
      BY <1>1, <3>1 DEF MergeMods, ModCompliance
    <3>3. QED
      BY <2>1, <3>2
  <2>2. CASE ~same
    BY <1>1, <2>2
  <2>3. QED
    BY <2>1, <2>2
<1>5. x = [r EXCEPT !.manual = manual, !.installed = installed, !.mods = mods]
  BY DEF RestoredRecord, Record
<1> HIDE DEF manual, installed, mods
<1>6. /\ x \in Record /\ x.manual = manual /\ x.mods = mods
      /\ x.ctx = r.ctx /\ x.closed = r.closed
      /\ x.alerted = r.alerted /\ x.baseline = r.baseline
      /\ x.discs = r.discs
  BY <1>2, <1>3, <1>4, <1>5 DEF Record
<1>7. QED
  BY <1>6 DEF manual, mods

\* What a first telemetry event of an asset with a baseline commits, when the
\* two reads return these rows.
RestoredFresh(e, declared, manualRow, historyRow) ==
  Refreshed(RestoredRecord(InitializedRecord(FirstSeenBaseline(e, declared)),
                           manualRow, historyRow), e)

\* Restored means: the row's manual discrepancies, the row's mods over the
\* defaults when the baseline is the same, no context, no closed episode, and
\* no memory of an alert.
LEMMA RestoredFreshFields ==
  ASSUME TypeOK, NEW e \in SilverEvents, NEW declared \in Declarations,
         FirstSeenBaseline(e, declared) # None,
         NEW manualRow \in Payload \cup {None},
         NEW historyRow \in Payload \cup {None},
         NEW x, x = RestoredFresh(e, declared, manualRow, historyRow),
         NEW b, b = FirstSeenBaseline(e, declared)
  PROVE  /\ x \in Record
         /\ x.manual = IF manualRow = None THEN {} ELSE manualRow.manual
         /\ x.baseline = b.id
         /\ x.mods = IF historyRow # None /\ historyRow.baseline = b.id
                     THEN MergeMods(BaselineMods(b), historyRow.mods)
                     ELSE BaselineMods(b)
         /\ x.ctx = {} /\ x.closed = {}
         /\ x.alerted = CONFIG_STATUS_UNSPECIFIED
         /\ x.observed = now /\ x.lifecycle # LIFECYCLE_STALE
         /\ x.discs = ComputeDiscrepancies(b, BaselineInstalled(b),
                                           BaselineMods(b), now)
<1> DEFINE i == InitializedRecord(b)
           y == RestoredRecord(i, manualRow, historyRow)
<1>1. b \in Baseline
  BY FirstSeenBaselineType DEF TypeOK
<1>2. i \in Record
  BY <1>1, InitializedType DEF TypeOK
<1>3. /\ i.alerted = CONFIG_STATUS_UNSPECIFIED /\ i.baseline = b.id
      /\ i.mods = BaselineMods(b) /\ i.manual = {} /\ i.ctx = {} /\ i.closed = {}
      /\ i.discs = ComputeDiscrepancies(b, BaselineInstalled(b),
                                        BaselineMods(b), now)
  BY DEF InitializedRecord, EmptyRecord
<1> HIDE DEF i
<1>4. /\ y \in Record
      /\ y.manual = IF manualRow = None THEN i.manual ELSE manualRow.manual
      /\ y.mods = IF historyRow # None /\ historyRow.baseline = i.baseline
                  THEN MergeMods(i.mods, historyRow.mods) ELSE i.mods
      /\ y.ctx = i.ctx /\ y.closed = i.closed
      /\ y.alerted = i.alerted /\ y.baseline = i.baseline
      /\ y.discs = i.discs
  BY <1>2, RestoredType
<1>5. x = Refreshed(y, e)
  BY DEF RestoredFresh, i
<1> HIDE DEF y
<1>6. x \in Record
  BY <1>4, <1>5, RefreshedType DEF TypeOK
<1>7. /\ x.manual = y.manual /\ x.mods = y.mods /\ x.baseline = y.baseline
      /\ x.ctx = y.ctx /\ x.closed = y.closed /\ x.alerted = y.alerted
  BY <1>4, <1>5 DEF Refreshed, Record
<1>8. x.observed = now /\ x.lifecycle # LIFECYCLE_STALE /\ x.discs = y.discs
  BY <1>4, <1>5, RefreshedFields
<1>9. QED
  BY <1>3, <1>4, <1>6, <1>7, <1>8

-----------------------------------------------------------------------------
(* What a step is.                                                          *)

\* The projector moves j messages on, and what the object publishes joins.
StoreStep(j) ==
  /\ tierRow' = RowAfter(j)
  /\ backlog' = Published(SubSeq(backlog, j + 1, Len(backlog)))

\* Restate state is lost.
Forgets ==
  /\ amState # None /\ amState' = None /\ emitSig' = None /\ nextRecheck' = 0
  /\ timers' \subseteq timers
  /\ kept' = Owed
  /\ UNCHANGED <<now, registry, cmState, lastAlert, telemetryAt>>

\* Nothing happens to the object's state, or no handler ran at all.
Waits == Idle /\ UNCHANGED kept

\* A first-seen asset, with what two reads at some progress of the projector
\* returned.
CommitsRestored(e, declared) ==
  /\ amState = None
  /\ FirstSeenBaseline(e, declared) # None
  /\ \E k, j \in 0 .. Len(backlog) :
       Commit(RestoredFresh(e, declared, RowAfter(k), RowAfter(j)), timers)
  /\ telemetryAt' = now

\* A handler runs; one that takes a CM event takes a tick at least.
Handles ==
  /\ kept' = Discharge(kept)
  /\ UNCHANGED registry
  /\ \/ Idle
     \/ \E e \in SilverEvents, declared \in Declarations :
          Register(e, declared) \/ CommitsRestored(e, declared) \/ CommitsKnown(e)
     \/ \E e \in CmEvents : CommitsEvent(e) /\ now' = now + 1
     \/ \E timer \in timers : CommitsAged(timer) \/ Expires(timer)
     \/ Retires

\* A store that stands still, as a store step.
LEMMA StandsStill ==
  ASSUME TierTypeOK
  PROVE  /\ 0 \in 0 .. Len(backlog)
         /\ backlog' = Published(backlog) /\ UNCHANGED tierRow => StoreStep(0)
         /\ UNCHANGED <<cmState, tierRow, backlog>> => StoreStep(0)
<1>1. Len(backlog) \in Nat /\ SubSeq(backlog, 1, Len(backlog)) = backlog
  BY LenProperties, SubSeqFull DEF TierTypeOK
<1>2. 0 \in 0 .. Len(backlog) /\ 0 + 1 = 1 /\ RowAfter(0) = tierRow
  BY <1>1 DEF RowAfter
<1>3. QED
  BY <1>1, <1>2 DEF StoreStep, Published

\* Every step, for object and store.
LEMMA TierStepCases ==
  ASSUME TierTypeOK, [TierNext]_tierVars
  PROVE  /\ now' \in Nat /\ now' >= now
         /\ registry' \in Registries
         /\ \E j \in 0 .. Len(backlog) : StoreStep(j)
         /\ Forgets \/ Waits \/ Handles
<1> DEFINE Goal == /\ now' \in Nat /\ now' >= now
                   /\ registry' \in Registries
                   /\ \E j \in 0 .. Len(backlog) : StoreStep(j)
                   /\ Forgets \/ Waits \/ Handles
<1>1. /\ now \in Nat /\ registry \in Registries
      /\ ClockMoves => now' \in Nat /\ now' >= now
      /\ ClockMoves /\ now <= InputUntil => now' = now + 1
  BY TimingAssumption, ClockAssumption DEF TierTypeOK, TypeOK, ClockMoves
<1>2. amState # None => Loaded(amState) = amState
  BY LoadedIs DEF TierTypeOK, TypeOK
<1>3. /\ 0 \in 0 .. Len(backlog)
      /\ backlog' = Published(backlog) /\ UNCHANGED tierRow => StoreStep(0)
      /\ UNCHANGED <<cmState, tierRow, backlog>> => StoreStep(0)
  BY StandsStill
<1>4. ASSUME NEW e \in SilverEvents, NEW declared \in Declarations,
             ObserveWithStore(e, declared)
      PROVE  Goal
  <2>1. PICK k \in 0 .. Len(backlog) : \E j \in k .. Len(backlog) :
          /\ Observe(e, declared, RowAfter(k), RowAfter(j))
          /\ tierRow' = RowAfter(j)
          /\ backlog' = Published(SubSeq(backlog, j + 1, Len(backlog)))
          /\ kept' = Discharge(kept)
    BY <1>4 DEF ObserveWithStore
  <2>2. PICK j \in k .. Len(backlog) :
          /\ Observe(e, declared, RowAfter(k), RowAfter(j))
          /\ tierRow' = RowAfter(j)
          /\ backlog' = Published(SubSeq(backlog, j + 1, Len(backlog)))
          /\ kept' = Discharge(kept)
    BY <2>1
  <2>3. j \in 0 .. Len(backlog) /\ StoreStep(j)
    BY <2>2 DEF StoreStep
  <2>4. CASE RemovalOfUnknown(e)
    BY <1>1, <2>2, <2>3, <2>4 DEF Observe, RemovalOfUnknown, Dropped, Idle, Handles
  <2>5. CASE Register(e, declared)
    BY <1>1, <2>2, <2>3, <2>5 DEF Observe, Register, Handles
  <2>6. CASE FirstSeen(e, declared, RowAfter(k), RowAfter(j))
    <3>1. CommitsRestored(e, declared) /\ UNCHANGED registry
      BY <2>3, <2>6 DEF FirstSeen, CommitsRestored, RestoredFresh
    <3>2. QED
      BY <1>1, <2>2, <2>3, <3>1 DEF Observe, Handles
  <2>7. CASE Known(e)
    <3>1. CommitsKnown(e)
      BY <1>2, <2>7 DEF Known, CommitsKnown
    <3>2. QED
      BY <1>1, <2>2, <2>3, <3>1 DEF Observe, Handles, CommitsKnown
  <2>8. QED
    BY <2>2, <2>4, <2>5, <2>6, <2>7 DEF Observe
<1>5. ASSUME NEW e \in CmEvents, ApplyCmEvent(e), Handled
      PROVE  Goal
  <2>1. CASE amState = None /\ Dropped
    BY <1>1, <1>3, <1>5, <2>1 DEF ApplyCmEvent, Handled, Dropped, Idle, Handles
  <2>2. CASE amState # None /\ Commit(ApplyEvent(Loaded(amState), e), timers)
             /\ UNCHANGED <<registry, telemetryAt>>
    <3>1. CommitsEvent(e) /\ now' = now + 1
      BY <1>1, <1>2, <1>5, <2>2 DEF ApplyCmEvent, CommitsEvent
    <3>2. QED
      BY <1>1, <1>3, <1>5, <2>2, <3>1 DEF Handled, Handles
  <2>3. QED
    BY <1>5, <2>1, <2>2 DEF ApplyCmEvent
<1>6. ASSUME NEW timer \in timers, RecheckCompliance(timer), Handled
      PROVE  Goal
  <2>1. registry' = registry /\ (CommitsAged(timer) \/ Expires(timer))
    BY <1>2, <1>6 DEF RecheckCompliance, CommitsAged, Expires
  <2>2. QED
    BY <1>1, <1>3, <1>6, <2>1 DEF RecheckCompliance, Handled, Handles
<1>7. CASE Decommission /\ Handled
  <2>1. registry' = registry /\ (Idle \/ Retires)
    BY <1>2, <1>7 DEF Decommission, Dropped, Idle, Retires
  <2>2. QED
    BY <1>1, <1>3, <1>7, <2>1 DEF Decommission, Handled, Handles
<1>8. CASE Reload /\ UNCHANGED storeVars
  BY <1>1, <1>3, <1>8 DEF Reload, storeVars, output, Idle, Waits
<1>9. CASE Tick /\ UNCHANGED storeVars
  BY <1>1, <1>3, <1>9 DEF Tick, storeVars, output, Idle, Waits
<1>10. CASE Project
  <2>1. Waits /\ UNCHANGED <<now, registry, cmState>>
    BY <1>10 DEF Project, Waits, Idle, vars, store, output
  <2>2. 1 \in 0 .. Len(backlog) /\ StoreStep(1)
    <3>1. backlog \in Seq(Payload) /\ backlog # <<>>
      BY <1>10 DEF Project, TierTypeOK
    <3>2. Len(backlog) \in Nat \ {0} /\ Tail(backlog) = SubSeq(backlog, 2, Len(backlog))
      BY <3>1, EmptySeq, TailIsSubSeq
    <3>3. Head(backlog) = backlog[1]
      BY <3>1
    <3>4. 1 \in 0 .. Len(backlog) /\ 1 + 1 = 2
      BY <3>2
    <3>5. QED
      BY <1>10, <2>1, <3>2, <3>3, <3>4 DEF Project, StoreStep, RowAfter, Published
  <2>3. QED
    BY <1>1, <2>1, <2>2
<1>11. CASE Wipe
  BY <1>1, <1>3, <1>11 DEF Wipe, Forgets
<1>12. CASE ClearState
  BY <1>1, <1>3, <1>12 DEF ClearState, Forgets, output
<1>13. CASE UNCHANGED tierVars
  BY <1>1, <1>3, <1>13 DEF tierVars, vars, storeVars, Idle, Waits, store, output
<1>14. QED
  BY <1>4, <1>5, <1>6, <1>7, <1>8, <1>9, <1>10, <1>11, <1>12, <1>13
     DEF TierNext, Recheck

-----------------------------------------------------------------------------
(* Type correctness.                                                        *)

\* What the tail leaves behind: a record, published or known to readers.
LEMMA CommitOutcome ==
  ASSUME TypeOK, NEW r \in Record, NEW pending, Commit(r, pending)
  PROVE  /\ amState' \in Record /\ amState' # None
         /\ cmState' \in {cmState, PayloadOf(amState')}
<1>1. AfterAlert(Reanalyze(r)) \in Record
  BY ReanalyzeType, AfterAlertType DEF TypeOK
<1>2. QED
  BY <1>1, CommitSteps, NoneAssumption DEF Emit

\* The record a restore commits.
LEMMA RestoredCommit ==
  ASSUME TierTypeOK, NEW e \in SilverEvents, NEW declared \in Declarations,
         CommitsRestored(e, declared)
  PROVE  \E k, j \in 0 .. Len(backlog) :
           /\ RestoredFresh(e, declared, RowAfter(k), RowAfter(j)) \in Record
           /\ Commit(RestoredFresh(e, declared, RowAfter(k), RowAfter(j)), timers)
<1>1. PICK k \in 0 .. Len(backlog), j \in 0 .. Len(backlog) :
        Commit(RestoredFresh(e, declared, RowAfter(k), RowAfter(j)), timers)
  BY DEF CommitsRestored
<1>2. RowAfter(k) \in Payload \cup {None} /\ RowAfter(j) \in Payload \cup {None}
  BY RowAfterType
<1>3. RestoredFresh(e, declared, RowAfter(k), RowAfter(j)) \in Record
  BY <1>2, RestoredFreshFields DEF CommitsRestored, TierTypeOK
<1>4. QED
  BY <1>1, <1>3

\* A published message is the record it was published with.
Publishes ==
  cmState' = cmState \/ (amState' # None /\ cmState' = PayloadOf(amState'))

LEMMA ObjectType ==
  ASSUME TierTypeOK, [TierNext]_tierVars
  PROVE  TypeOK' /\ Publishes
<1> USE DEF TypeOK
<1>1. TypeOK /\ now' \in Nat /\ registry' \in Registry
  BY TierStepCases, RegistriesAssumption DEF TierTypeOK
<1>2. ASSUME NEW r \in Record, NEW pending \in SUBSET Timer, Commit(r, pending),
             telemetryAt' \in {telemetryAt, now}
      PROVE  TypeOK' /\ Publishes
  BY <1>1, <1>2, CommitType, CommitOutcome DEF Publishes
<1>3. CASE Forgets
  BY <1>1, <1>3 DEF Forgets, Publishes
<1>4. CASE Idle
  BY <1>1, <1>4 DEF Idle, store, output, Publishes
<1>5. ASSUME NEW e \in SilverEvents, NEW declared \in Declarations,
             Register(e, declared)
      PROVE  TypeOK' /\ Publishes
  <2>1. RegisteredRecord(e) \in Record
    BY <1>1, RegisteredType
  <2>2. emitSig' \in Payload /\ cmState' \in Payload \cup {None}
        /\ cmState' \in {cmState, PayloadOf(amState')}
    BY <1>1, <1>5, <2>1, EmitType DEF Register, Emit
  <2>3. amState' \in Record /\ amState' # None
    BY <1>5, <2>1, NoneAssumption DEF Register
  <2>4. QED
    BY <1>1, <1>5, <2>2, <2>3 DEF Register, Publishes
<1>6. ASSUME NEW e \in SilverEvents, NEW declared \in Declarations,
             CommitsRestored(e, declared)
      PROVE  TypeOK' /\ Publishes
  BY <1>1, <1>2, <1>6, RestoredCommit DEF CommitsRestored
<1>7. ASSUME NEW e \in SilverEvents, CommitsKnown(e)
      PROVE  TypeOK' /\ Publishes
  BY <1>1, <1>2, <1>7, RefreshedType DEF CommitsKnown
<1>8. ASSUME NEW e \in CmEvents, CommitsEvent(e)
      PROVE  TypeOK' /\ Publishes
  BY <1>1, <1>2, <1>8, ApplyEventType DEF CommitsEvent
<1>9. ASSUME NEW timer \in timers, CommitsAged(timer)
      PROVE  TypeOK' /\ Publishes
  <2>1. timers \ {timer} \in SUBSET Timer
    BY <1>1
  <2>2. QED
    BY <1>1, <1>2, <1>9, <2>1, AgedType DEF CommitsAged
<1>10. ASSUME NEW timer \in timers, Expires(timer)
       PROVE  TypeOK' /\ Publishes
  BY <1>1, <1>10 DEF Expires, store, Publishes
<1>11. CASE Retires
  <2> DEFINE r == [amState EXCEPT !.lifecycle = LIFECYCLE_DECOMMISSIONED]
  <2>1. r \in Record
    BY <1>1, <1>11 DEF Retires, Record, Lifecycles
  <2>2. amState' = r /\ Emit(r)
    BY <1>11 DEF Retires
  <2> HIDE DEF r
  <2>3. emitSig' \in Payload /\ cmState' \in Payload \cup {None}
        /\ cmState' \in {cmState, PayloadOf(amState')}
    BY <1>1, <2>1, <2>2, EmitType DEF Emit
  <2>4. QED
    BY <1>1, <1>11, <2>1, <2>2, <2>3, NoneAssumption DEF Retires, Publishes
<1>12. QED
  BY <1>3, <1>4, <1>5, <1>6, <1>7, <1>8, <1>9, <1>10, <1>11, TierStepCases
     DEF Waits, Handles

\* Where the rows of the store come from: every version of the row a later
\* read may return was one before, unless it is the message just published,
\* which comes last.
LEMMA StoreStepRows ==
  ASSUME TierTypeOK, [TierNext]_tierVars, NEW j \in 0 .. Len(backlog), StoreStep(j)
  PROVE  /\ tierRow' \in Payload \cup {None}
         /\ backlog' \in Seq(Payload)
         /\ \A k \in 0 .. Len(backlog') :
              RowAfter(k)' \in FutureRows \/ RowAfter(k)' = cmState'
         /\ cmState' = cmState => FutureRows' \subseteq FutureRows
         /\ RowAfter(Len(backlog))' = IF cmState' = cmState THEN RowAfter(Len(backlog))
                                      ELSE cmState'
<1> DEFINE n == Len(backlog)
           left == SubSeq(backlog, j + 1, n)
<1>1. n \in Nat /\ j \in Nat /\ j <= n /\ backlog \in [1 .. n -> Payload]
  BY LenProperties DEF TierTypeOK
<1>2. /\ left \in Seq(Payload) /\ Len(left) = n - j
      /\ \A i \in 1 .. n - j : left[i] = backlog[j + i]
  <2>1. \A i \in j + 1 .. n : backlog[i] \in Payload
    BY <1>1
  <2>2. /\ left \in Seq(Payload)
        /\ Len(left) = IF j + 1 <= n THEN n - (j + 1) + 1 ELSE 0
        /\ \A i \in 1 .. n - (j + 1) + 1 : left[i] = backlog[(j + 1) + i - 1]
    <3>1. j + 1 \in Int /\ n \in Int
      BY <1>1
    <3> HIDE DEF n
    <3>2. QED
      BY <2>1, <3>1, SubSeqProperties
  <2> HIDE DEF n, left
  <2>3. n - (j + 1) + 1 = n - j /\ (j + 1 <= n <=> n - j # 0)
    BY <1>1
  <2>4. Len(left) = n - j
    BY <1>1, <2>2, <2>3
  <2>5. ASSUME NEW i \in 1 .. n - j
        PROVE  left[i] = backlog[j + i]
    <3>1. (j + 1) + i - 1 = j + i
      BY <1>1
    <3>2. left[i] = backlog[(j + 1) + i - 1]
      BY <2>2, <2>3
    <3>3. QED
      BY <3>1, <3>2
  <2>6. QED
    BY <2>2, <2>4, <2>5
<1>3. tierRow' = RowAfter(j) /\ backlog' = Published(left)
  BY DEF StoreStep
<1>4. RowAfter(j) \in Payload \cup {None} /\ RowAfter(j) \in FutureRows
  BY RowAfterType DEF FutureRows
<1>5. \A i \in 1 .. n - j : left[i] \in FutureRows /\ left[i] = RowAfter(j + i)
  BY <1>1, <1>2 DEF FutureRows, RowAfter
<1>6. cmState' # cmState => cmState' \in Payload
  BY ObjectType, NoneAssumption, PayloadType DEF Publishes, TypeOK
<1>7. n - j = 0 => RowAfter(n) = RowAfter(j)
  BY <1>1
<1> HIDE DEF n, left
<1>8. CASE cmState' = cmState
  <2>1. backlog' = left
    BY <1>3, <1>8 DEF Published
  <2>2. \A k \in 0 .. Len(backlog') :
          RowAfter(k)' = IF k = 0 THEN RowAfter(j) ELSE left[k]
    BY <1>3, <2>1 DEF RowAfter
  <2>3. ASSUME NEW k \in 0 .. Len(backlog')
        PROVE  RowAfter(k)' \in FutureRows
    <3>1. Len(backlog') = n - j /\ n - j \in Nat
      BY <1>1, <1>2, <2>1
    <3>2. k = 0 \/ k \in 1 .. n - j
      BY <3>1
    <3>3. RowAfter(k)' = IF k = 0 THEN RowAfter(j) ELSE left[k]
      BY <2>2
    <3>4. k \in 1 .. n - j => left[k] \in FutureRows
      BY <1>5
    <3>5. QED
      BY <1>4, <3>2, <3>3, <3>4
  <2>4. FutureRows' \subseteq FutureRows
    BY <2>3 DEF FutureRows
  <2>5. RowAfter(Len(backlog))' = RowAfter(n)
    <3>1. CASE n - j = 0
      BY <1>1, <1>2, <1>3, <1>7, <2>1, <3>1 DEF RowAfter
    <3>2. CASE n - j # 0
      <4>1. n - j \in 1 .. n - j /\ j + (n - j) = n
        BY <1>1, <3>2
      <4>2. left[n - j] = RowAfter(n)
        BY <1>5, <4>1
      <4>3. RowAfter(Len(backlog))' = left[n - j]
        BY <1>2, <2>1, <3>2 DEF RowAfter
      <4>4. QED
        BY <4>2, <4>3
    <3>3. QED
      BY <3>1, <3>2
  <2>6. QED
    BY <1>2, <1>3, <1>4, <1>8, <2>1, <2>3, <2>4, <2>5 DEF n
<1>9. CASE cmState' # cmState
  <2>1. backlog' = Append(left, cmState')
    BY <1>3, <1>9 DEF Published
  <2>2. /\ backlog' \in Seq(Payload) /\ Len(backlog') = n - j + 1
        /\ \A i \in 1 .. n - j : backlog'[i] = left[i]
        /\ backlog'[n - j + 1] = cmState'
    BY <1>1, <1>2, <1>6, <1>9, <2>1
  <2>3. \A k \in 0 .. Len(backlog') :
          RowAfter(k)' = IF k = 0 THEN RowAfter(j) ELSE backlog'[k]
    BY <1>3 DEF RowAfter
  <2>4. \A k \in 0 .. Len(backlog') :
          RowAfter(k)' \in FutureRows \/ RowAfter(k)' = cmState'
    BY <1>1, <1>4, <1>5, <2>2, <2>3
  <2>5. RowAfter(Len(backlog))' = cmState'
    BY <1>1, <2>2 DEF RowAfter
  <2>6. QED
    BY <1>3, <1>4, <1>9, <2>2, <2>4, <2>5
<1>10. QED
  BY <1>8, <1>9

LEMMA FaultIdsType ==
  ASSUME NEW manual \in SUBSET Manual
  PROVE  FaultIds(manual) \in SUBSET FaultId
BY DEF FaultIds, FaultId, Manual

LEMMA OwedType ==
  ASSUME TierTypeOK, amState # None
  PROVE  Owed \in Kept
<1>1. amState \in Record
  BY DEF TierTypeOK, TypeOK
<1>2. amState.baseline \in BaselineIds \cup {None} /\ amState.manual \in SUBSET Manual
  BY <1>1 DEF Record
<1>3. FaultIds(amState.manual) \in SUBSET FaultId
  BY <1>2, FaultIdsType
<1>4. AppliedMods(amState) \subseteq Mods
  BY DEF AppliedMods
<1>5. QED
  BY <1>2, <1>3, <1>4 DEF Owed, Kept

\* What a handler leaves of what is owed.
LEMMA DischargeIs ==
  ASSUME NEW k \in Kept
  PROVE  /\ Discharge(k) \in Kept
         /\ Discharge(k).baseline = k.baseline
         /\ Discharge(k).faults =
              IF amState = None \/ amState' = None THEN k.faults
              ELSE k.faults \ (FaultIds(amState.manual) \ FaultIds(amState'.manual))
         /\ Discharge(k).mods =
              IF amState' # None /\ amState'.baseline # k.baseline THEN {} ELSE k.mods
<1> DEFINE faults == IF amState = None \/ amState' = None THEN k.faults
                     ELSE k.faults \ (FaultIds(amState.manual) \ FaultIds(amState'.manual))
           mods == IF amState' # None /\ amState'.baseline # k.baseline THEN {} ELSE k.mods
<1>1. Discharge(k) = [k EXCEPT !.faults = faults, !.mods = mods]
  BY DEF Discharge, Kept
<1>2. faults \in SUBSET FaultId /\ mods \in SUBSET Mods
  BY DEF Kept
<1> HIDE DEF faults, mods
<1>3. Discharge(k) \in Kept /\ Discharge(k).baseline = k.baseline
      /\ Discharge(k).faults = faults /\ Discharge(k).mods = mods
  BY <1>1, <1>2 DEF Kept
<1>4. QED
  BY <1>3 DEF faults, mods

LEMMA TierInitType ==
  TierInit => TierTypeOK
<1> SUFFICES ASSUME TierInit PROVE TierTypeOK
  OBVIOUS
<1>1. TypeOK /\ registry \in Registries
  BY InitType DEF TierInit, Init
<1>2. backlog \in Seq(Payload)
  BY EmptySeq DEF TierInit
<1>3. QED
  BY <1>1, <1>2 DEF TierInit, TierTypeOK, Kept

LEMMA TierNextType ==
  TierTypeOK /\ [TierNext]_tierVars => TierTypeOK'
<1> SUFFICES ASSUME TierTypeOK, [TierNext]_tierVars PROVE TierTypeOK'
  OBVIOUS
<1>1. TypeOK' /\ registry' \in Registries
  BY ObjectType, TierStepCases
<1>2. tierRow' \in Payload \cup {None} /\ backlog' \in Seq(Payload)
  BY TierStepCases, StoreStepRows
<1>3. kept' \in Kept
  <2>1. kept \in Kept
    BY DEF TierTypeOK
  <2>2. CASE Forgets
    BY <2>2, OwedType DEF Forgets
  <2>3. CASE Waits
    BY <2>1, <2>3 DEF Waits
  <2>4. CASE Handles
    BY <2>1, <2>4, DischargeIs DEF Handles
  <2>5. QED
    BY <2>2, <2>3, <2>4, TierStepCases
<1>4. QED
  BY <1>1, <1>2, <1>3 DEF TierTypeOK

\* Wiped or restored, at any progress of the projector: record, messages, row
\* and backlog keep their shape.
THEOREM TierTypeCorrect ==
  TierSpec => []TierTypeOK
BY TierInitType, TierNextType, PTL DEF TierSpec

-----------------------------------------------------------------------------
(* The row and the backlog.                                                 *)

\* Object and messages agree (MirrorInv), and the last version of the row is
\* the last message.
RowInv ==
  /\ MirrorInv
  /\ RowAfter(Len(backlog)) = cmState

LEMMA TierMirror ==
  ASSUME TierTypeOK, MirrorInv, [TierNext]_tierVars
  PROVE  MirrorInv'
<1>0. TypeOK
  BY DEF TierTypeOK
<1>1. ASSUME NEW r \in Record, NEW pending, Commit(r, pending)
      PROVE  MirrorInv'
  <2>1. AfterAlert(Reanalyze(r)) \in Record
    BY <1>0, ReanalyzeType, AfterAlertType DEF TypeOK
  <2>2. QED
    BY <1>0, <1>1, <2>1, CommitSteps, EmitMirrors
<1>2. CASE Idle
  BY <1>2 DEF Idle, store, output, MirrorInv
<1>3. CASE Forgets
  BY <1>3 DEF Forgets, MirrorInv
<1>4. ASSUME NEW e \in SilverEvents, NEW declared \in Declarations,
             Register(e, declared) \/ CommitsRestored(e, declared) \/ CommitsKnown(e)
      PROVE  MirrorInv'
  <2>1. CASE Register(e, declared)
    BY <1>0, <2>1, RegisteredType, EmitMirrors DEF Register, TypeOK
  <2>2. CASE CommitsRestored(e, declared)
    BY <1>1, <2>2, RestoredCommit
  <2>3. CASE CommitsKnown(e)
    BY <1>0, <1>1, <2>3, RefreshedType DEF CommitsKnown, TypeOK
  <2>4. QED
    BY <1>4, <2>1, <2>2, <2>3
<1>5. ASSUME NEW e \in CmEvents, CommitsEvent(e)
      PROVE  MirrorInv'
  BY <1>0, <1>1, <1>5, ApplyEventType DEF CommitsEvent, TypeOK
<1>6. ASSUME NEW timer \in timers, CommitsAged(timer)
      PROVE  MirrorInv'
  BY <1>0, <1>1, <1>6, AgedType DEF CommitsAged, TypeOK
<1>7. ASSUME NEW timer \in timers, Expires(timer)
      PROVE  MirrorInv'
  BY <1>7 DEF Expires, store, MirrorInv
<1>8. CASE Retires
  <2>1. [amState EXCEPT !.lifecycle = LIFECYCLE_DECOMMISSIONED] \in Record
    BY <1>0, <1>8 DEF Retires, TypeOK, Record, Lifecycles
  <2>2. QED
    BY <1>0, <1>8, <2>1, EmitMirrors DEF Retires
<1>9. QED
  BY <1>2, <1>3, <1>4, <1>5, <1>6, <1>7, <1>8, TierStepCases DEF Waits, Handles

LEMMA InitRows ==
  TierInit => RowInv
<1>1. Len(<<>>) = 0
  OBVIOUS
<1>2. QED
  BY <1>1, InitMirror DEF TierInit, Init, RowInv, RowAfter

LEMMA NextRows ==
  TierTypeOK /\ RowInv /\ [TierNext]_tierVars => RowInv'
<1> SUFFICES ASSUME TierTypeOK, RowInv, [TierNext]_tierVars PROVE RowInv'
  OBVIOUS
<1>1. MirrorInv'
  BY TierMirror DEF RowInv
<1>2. RowAfter(Len(backlog))' = cmState'
  BY TierStepCases, StoreStepRows DEF RowInv
<1>3. QED
  BY <1>1, <1>2 DEF RowInv

\* Once the projector has caught up, the row says what the record says,
\* whatever was wiped and restored in between.
THEOREM TheRowCatchesUp ==
  TierSpec => [](RowCatchesUp)
<1>1. TierTypeOK /\ RowInv => RowCatchesUp
  <2> SUFFICES ASSUME TierTypeOK, RowInv, amState # None, backlog = <<>>
               PROVE  tierRow # None /\ Signature(tierRow) = Signature(PayloadOf(amState))
    BY DEF RowCatchesUp
  <2>1. Len(backlog) = 0
    OBVIOUS
  <2>2. tierRow = cmState
    BY <2>1 DEF RowInv, RowAfter
  <2>3. Signature(PayloadOf(amState)) # None
    BY PayloadType, NoneAssumption DEF TierTypeOK, TypeOK
  <2>4. QED
    BY <2>2, <2>3 DEF RowInv, MirrorInv
<1>2. QED
  BY <1>1, TierTypeCorrect, TierInitType, TierNextType, InitRows, NextRows, PTL DEF TierSpec

-----------------------------------------------------------------------------
(* The alarm.                                                               *)

USE DEF CONFIG_STATUS_UNSPECIFIED, CONFIG_STATUS_IN_COMPLIANCE,
        CONFIG_STATUS_MAJOR_DISCREPANCY, CONFIG_STATUS_NOT_MISSION_CAPABLE,
        Statuses

\* A wipe destroys last_alerted_status, so it no longer says which alarm
\* stands; it still says that one does, and a bad status is never without it.
AlarmStands(alerted) == alerted >= CONFIG_STATUS_MAJOR_DISCREPANCY => Alarmed

TroubleInv ==
  amState # None =>
    /\ AlarmStands(amState.alerted)
    /\ amState.status >= CONFIG_STATUS_MAJOR_DISCREPANCY =>
         amState.alerted >= CONFIG_STATUS_MAJOR_DISCREPANCY

\* Whatever the analysis arrives at, the tail restores the invariant.
LEMMA CommitTrouble ==
  ASSUME TypeOK, NEW r \in Record, NEW pending, Commit(r, pending),
         AlarmStands(r.alerted)
  PROVE  TroubleInv'
<1> DEFINE x == Reanalyze(r)
<1>1. x \in Record /\ x.alerted = r.alerted
  BY ReanalyzeType, ReanalyzeKeeps DEF TypeOK
<1>2. x.status \in 0..4 /\ x.alerted \in 0..4
  BY <1>1 DEF Record
<1>3. amState' = AfterAlert(x) /\ AfterAlert(x).status = x.status /\ SendAlert(x)
  BY <1>1, CommitSteps, AfterAlertKeeps
<1> DEFINE sent == [kind |-> IF Detected(x) THEN "detected" ELSE "resolved",
                    previous |-> x.alerted, current |-> x.status, at |-> now]
<1> HIDE DEF x
<1>4. sent # None
  <2>1. sent \in Alert
    BY <1>2 DEF Alert, TypeOK
  <2>2. QED
    BY <2>1, NoneAssumption
<1>5. CASE Detected(x)
  <2>1. amState'.alerted = x.status /\ lastAlert' = sent /\ sent.kind = "detected"
    BY <1>1, <1>3, <1>5 DEF AfterAlert, SendAlert, Record
  <2> HIDE DEF sent
  <2>2. Alarmed'
    BY <1>4, <2>1 DEF Alarmed
  <2>3. QED
    BY <1>3, <2>1, <2>2 DEF TroubleInv, AlarmStands
<1>6. CASE ~Detected(x) /\ Resolved(x)
  <2>1. amState'.alerted = x.status /\ x.status = 1
    BY <1>1, <1>3, <1>6 DEF AfterAlert, Resolved, Record
  <2>2. QED
    BY <1>3, <2>1 DEF TroubleInv, AlarmStands
<1>7. CASE ~Detected(x) /\ ~Resolved(x)
  <2>1. amState'.alerted = x.alerted /\ lastAlert' = lastAlert
    BY <1>3, <1>7 DEF AfterAlert, SendAlert
  <2>2. x.status >= 3 => x.alerted >= 3
    BY <1>2, <1>7 DEF Detected
  <2>3. Alarmed' <=> Alarmed
    BY <2>1 DEF Alarmed
  <2>4. QED
    BY <1>1, <1>3, <2>1, <2>2, <2>3 DEF TroubleInv, AlarmStands
<1>8. QED
  BY <1>5, <1>6, <1>7

LEMMA NextTrouble ==
  TierTypeOK /\ TroubleInv /\ [TierNext]_tierVars => TroubleInv'
<1> SUFFICES ASSUME TierTypeOK, TroubleInv, [TierNext]_tierVars PROVE TroubleInv'
  OBVIOUS
<1>0. /\ TypeOK
      /\ amState # None => amState \in Record /\ AlarmStands(amState.alerted)
  BY DEF TierTypeOK, TypeOK, TroubleInv
<1>1. CASE Forgets
  BY <1>1 DEF Forgets, TroubleInv
<1>2. CASE Idle
  BY <1>2 DEF Idle, store, output, TroubleInv, AlarmStands, Alarmed
<1>3. ASSUME NEW e \in SilverEvents, NEW declared \in Declarations,
             Register(e, declared) \/ CommitsRestored(e, declared) \/ CommitsKnown(e)
      PROVE  TroubleInv'
  <2>1. CASE Register(e, declared)
    <3>1. amState'.alerted = 0 /\ amState'.status = 0
      BY <2>1 DEF Register, RegisteredRecord, EmptyRecord
    <3>2. QED
      BY <3>1 DEF TroubleInv, AlarmStands
  <2>2. CASE CommitsRestored(e, declared)
    <3>1. PICK k \in 0 .. Len(backlog), j \in 0 .. Len(backlog) :
            /\ RestoredFresh(e, declared, RowAfter(k), RowAfter(j)) \in Record
            /\ Commit(RestoredFresh(e, declared, RowAfter(k), RowAfter(j)), timers)
      BY <2>2, RestoredCommit
    <3>2. RowAfter(k) \in Payload \cup {None} /\ RowAfter(j) \in Payload \cup {None}
      BY RowAfterType
    <3>3. RestoredFresh(e, declared, RowAfter(k), RowAfter(j)).alerted
            = CONFIG_STATUS_UNSPECIFIED
      BY <1>0, <2>2, <3>2, RestoredFreshFields DEF CommitsRestored
    <3>4. AlarmStands(RestoredFresh(e, declared, RowAfter(k), RowAfter(j)).alerted)
      BY <3>3 DEF AlarmStands
    <3>5. QED
      BY <1>0, <3>1, <3>4, CommitTrouble
  <2>3. CASE CommitsKnown(e)
    <3>1. Refreshed(amState, e) \in Record
          /\ AlarmStands(Refreshed(amState, e).alerted)
      BY <1>0, <2>3, RefreshedType, RefreshedFields DEF CommitsKnown, TypeOK
    <3>2. QED
      BY <1>0, <2>3, <3>1, CommitTrouble DEF CommitsKnown
  <2>4. QED
    BY <1>3, <2>1, <2>2, <2>3
<1>4. ASSUME NEW e \in CmEvents, CommitsEvent(e)
      PROVE  TroubleInv'
  <2>1. ApplyEvent(amState, e) \in Record /\ AlarmStands(ApplyEvent(amState, e).alerted)
    BY <1>0, <1>4, ApplyEventType, ApplyEventKeeps DEF CommitsEvent, TypeOK
  <2>2. QED
    BY <1>0, <1>4, <2>1, CommitTrouble DEF CommitsEvent
<1>5. ASSUME NEW timer \in timers, CommitsAged(timer)
      PROVE  TroubleInv'
  <2>1. Aged(amState) \in Record /\ AlarmStands(Aged(amState).alerted)
    BY <1>0, <1>5, AgedType, AgedFields DEF CommitsAged
  <2>2. QED
    BY <1>0, <1>5, <2>1, CommitTrouble DEF CommitsAged
<1>6. ASSUME NEW timer \in timers, Expires(timer)
      PROVE  TroubleInv'
  BY <1>6 DEF Expires, store, TroubleInv
<1>7. CASE Retires
  <2>1. /\ amState'.alerted = amState.alerted /\ amState'.status = amState.status
        /\ lastAlert' = lastAlert /\ amState # None
    BY <1>0, <1>7 DEF Retires, Record
  <2>2. QED
    BY <2>1 DEF TroubleInv, AlarmStands, Alarmed
<1>8. QED
  BY <1>1, <1>2, <1>3, <1>4, <1>5, <1>6, <1>7, TierStepCases DEF Waits, Handles

\* An asset that comes back in trouble from a wipe, or gets into trouble after
\* it, has a standing "detected": no order of wipes, restores, alerts and
\* resolutions leaves a bad status unannounced.
THEOREM TroubleIsAnnounced ==
  TierSpec => [](TroubleIsAlarmed)
<1>1. TierInit => TroubleInv
  BY DEF TierInit, Init, TroubleInv
<1>2. TroubleInv => TroubleIsAlarmed
  BY DEF TroubleInv, AlarmStands, TroubleIsAlarmed
<1>3. QED
  BY <1>1, <1>2, TierInitType, TierNextType, NextTrouble, PTL DEF TierSpec

-----------------------------------------------------------------------------
(* Episodes.                                                                *)

\* Only the two manual events touch episodes.
LEMMA EventEpisodes ==
  ASSUME NEW r, NEW e \in CmEvents
  PROVE  \/ SameEpisodes(r, ApplyEvent(r, e))
         \/ e \in ReportEvent /\ ApplyEvent(r, e) = ManualReport(r, e, now)
         \/ e \in ResolutionEvent /\ ApplyEvent(r, e) = ManualResolve(r, e, now)
<1>1. e \in CmMessage /\ (e.type = "manual_discrepancy" => e.severity \in Severities)
  BY CmEventsType
<1>2. CASE e.type = "manual_discrepancy"
  <2>1. e \in ReportEvent
    BY <1>1, <1>2 DEF CmMessage, ReportEvent
  <2>2. QED
    BY <1>2, <2>1 DEF ApplyEvent
<1>3. CASE e.type = "manual_discrepancy_resolved"
  <2>1. e \in ResolutionEvent
    BY <1>1, <1>3 DEF CmMessage, ResolutionEvent
  <2>2. QED
    BY <1>3, <2>1 DEF ApplyEvent
<1>4. CASE e.type \in {"part_replaced", "mod_applied", "inspection_completed"}
  BY <1>4 DEF ApplyEvent, SameEpisodes
<1>5. CASE e.type = "baseline_assigned"
  BY <1>5 DEF ApplyEvent, AssignBaseline, SameEpisodes
<1>6. CASE e.type \notin {"part_replaced", "mod_applied", "inspection_completed",
        "manual_discrepancy", "manual_discrepancy_resolved", "baseline_assigned"}
  BY <1>6 DEF ApplyEvent, SameEpisodes
<1>7. QED
  BY <1>2, <1>3, <1>4, <1>5, <1>6

\* A known asset's episodes after a step that leaves it known: the same, or
\* what a report or a resolution a tick ago makes of them.
Continues ==
  \/ SameEpisodes(amState, amState')
  \/ now' = now + 1 /\ \E e \in ReportEvent :
       SameEpisodes(ManualReport(amState, e, now), amState')
  \/ now' = now + 1 /\ \E e \in ResolutionEvent :
       SameEpisodes(ManualResolve(amState, e, now), amState')

\* A new record's: nothing closed, nothing frozen, and open what one version
\* of the row had open, if anything.
Starts ==
  /\ amState'.ctx = {} /\ amState'.closed = {}
  /\ amState'.manual = {} \/ \E row \in FutureRows :
       row # None /\ amState'.manual = row.manual

LEMMA EpisodeCases ==
  ASSUME TierTypeOK, [TierNext]_tierVars, amState' # None
  PROVE  IF amState = None THEN Starts ELSE Continues
<1> DEFINE Goal == IF amState = None THEN Starts ELSE Continues
<1>0. TypeOK /\ (amState # None => amState \in Record)
  BY DEF TierTypeOK, TypeOK
<1>1. ASSUME NEW r \in Record, NEW pending, Commit(r, pending)
      PROVE  SameEpisodes(r, amState')
  BY <1>0, <1>1, CommitKeeps DEF SameEpisodes
<1>2. CASE Idle
  BY <1>2 DEF Idle, store, SameEpisodes, Continues
<1>3. ASSUME NEW e \in SilverEvents, NEW declared \in Declarations,
             Register(e, declared)
      PROVE  Goal
  <2>1. amState'.ctx = {} /\ amState'.closed = {} /\ amState'.manual = {}
    BY <1>3 DEF Register, RegisteredRecord, EmptyRecord
  <2>2. QED
    BY <1>3, <2>1 DEF Register, Starts
<1>4. ASSUME NEW e \in SilverEvents, NEW declared \in Declarations,
             CommitsRestored(e, declared)
      PROVE  Goal
  <2>1. PICK k \in 0 .. Len(backlog), j \in 0 .. Len(backlog) :
          /\ RestoredFresh(e, declared, RowAfter(k), RowAfter(j)) \in Record
          /\ Commit(RestoredFresh(e, declared, RowAfter(k), RowAfter(j)), timers)
    BY <1>4, RestoredCommit
  <2>2. RowAfter(k) \in Payload \cup {None} /\ RowAfter(j) \in Payload \cup {None}
    BY RowAfterType
  <2>a. PICK x : x = RestoredFresh(e, declared, RowAfter(k), RowAfter(j))
    OBVIOUS
  <2>b. PICK b : b = FirstSeenBaseline(e, declared)
    OBVIOUS
  <2>c. FirstSeenBaseline(e, declared) # None
    BY <1>4 DEF CommitsRestored
  <2>3. x.manual = (IF RowAfter(k) = None THEN {} ELSE RowAfter(k).manual)
        /\ x.ctx = {} /\ x.closed = {}
    BY <1>0, <2>2, <2>a, <2>b, <2>c, RestoredFreshFields
  <2>4. SameEpisodes(x, amState')
    BY <1>1, <2>1, <2>a
  <2>5. RowAfter(k) \in FutureRows
    BY DEF FutureRows
  <2>6. QED
    BY <1>4, <2>3, <2>4, <2>5 DEF CommitsRestored, SameEpisodes, Starts
<1>5. ASSUME NEW e \in SilverEvents, CommitsKnown(e)
      PROVE  Goal
  <2>1. Refreshed(amState, e) \in Record
    BY <1>0, <1>5, RefreshedType DEF CommitsKnown, TypeOK
  <2>2. SameEpisodes(amState, Refreshed(amState, e))
    BY <1>0, <1>5 DEF CommitsKnown, Refreshed, Record, SameEpisodes
  <2>3. QED
    BY <1>1, <1>5, <2>1, <2>2 DEF CommitsKnown, SameEpisodes, Continues
<1>6. ASSUME NEW e \in CmEvents, CommitsEvent(e), now' = now + 1
      PROVE  Goal
  <2>1. ApplyEvent(amState, e) \in Record
    BY <1>0, <1>6, ApplyEventType DEF CommitsEvent, TypeOK
  <2>2. SameEpisodes(ApplyEvent(amState, e), amState') /\ amState # None
    BY <1>1, <1>6, <2>1 DEF CommitsEvent
  <2>3. QED
    BY <1>6, <2>2, EventEpisodes DEF SameEpisodes, Continues
<1>7. ASSUME NEW timer \in timers, CommitsAged(timer)
      PROVE  Goal
  <2>1. Aged(amState) \in Record /\ SameEpisodes(amState, Aged(amState))
    BY <1>0, <1>7, AgedType DEF CommitsAged, Aged, Record, SameEpisodes
  <2>2. QED
    BY <1>1, <1>7, <2>1 DEF CommitsAged, SameEpisodes, Continues
<1>8. CASE Retires
  <2>1. amState # None /\ SameEpisodes(amState, amState')
    BY <1>0, <1>8 DEF Retires, Record, SameEpisodes
  <2>2. QED
    BY <2>1 DEF Continues
<1>9. QED
  BY <1>2, <1>3, <1>4, <1>5, <1>6, <1>7, <1>8, TierStepCases
     DEF Forgets, Waits, Handles, Expires, store

\* The inductive invariant: the episodes of the record, and the open entries
\* of every version of the row a restore may still read, were all observed
\* before now and are in order.
EpisodeStoreInv ==
  /\ amState # None => EpisodesInv(amState, now)
  /\ \A row \in FutureRows : row # None => OpenInv(row.manual, now)

\* One step from a record in order to a record in order, that keeps what was
\* frozen and what is history.
LEMMA ContinuesInOrder ==
  ASSUME TierTypeOK, [TierNext]_tierVars, amState # None, amState' # None,
         EpisodesInv(amState, now)
  PROVE  /\ EpisodesInv(amState', now')
         /\ FrozenStep(amState, amState')
         /\ HistoryStep(amState, amState')
<1>1. /\ now \in Nat /\ now' \in Nat /\ now <= now'
      /\ amState \in Record /\ amState' \in Record
      /\ registry \in Registry
  BY TierStepCases, ObjectType DEF TierTypeOK, TypeOK
<1>2. ASSUME NEW r, NEW x, SameEpisodes(x, amState'), NEW t
      PROVE  /\ EpisodesInv(x, t) => EpisodesInv(amState', t)
             /\ FrozenStep(r, x) => FrozenStep(r, amState')
             /\ HistoryStep(r, x) => HistoryStep(r, amState')
  BY <1>2 DEF SameEpisodes, EpisodesInv, ContextInv, ClosedInv, FrozenStep, HistoryStep
<1>3. CASE SameEpisodes(amState, amState')
  <2>1. EpisodesInv(amState, now')
    BY <1>1, EpisodesLater
  <2>2. QED
    BY <1>1, <1>2, <1>3, <2>1, SameSteps
<1>4. ASSUME now' = now + 1, NEW e \in ReportEvent,
             SameEpisodes(ManualReport(amState, e, now), amState')
      PROVE  /\ EpisodesInv(amState', now')
             /\ FrozenStep(amState, amState')
             /\ HistoryStep(amState, amState')
  <2>1. ManualReport(amState, e, now) \in Record
    BY <1>1, ManualReportType
  <2>2. EpisodesInv(ManualReport(amState, e, now), now + 1)
    BY <1>1, <2>1, ReportKeepsEpisodes
  <2>3. FrozenStep(amState, ManualReport(amState, e, now))
        /\ HistoryStep(amState, ManualReport(amState, e, now))
    BY <1>1, ReportSteps
  <2>4. QED
    BY <1>2, <1>4, <2>2, <2>3
<1>5. ASSUME now' = now + 1, NEW e \in ResolutionEvent,
             SameEpisodes(ManualResolve(amState, e, now), amState')
      PROVE  /\ EpisodesInv(amState', now')
             /\ FrozenStep(amState, amState')
             /\ HistoryStep(amState, amState')
  <2>1. ManualResolve(amState, e, now) \in Record
    BY <1>1, ManualResolveType
  <2>2. EpisodesInv(ManualResolve(amState, e, now), now + 1)
    BY <1>1, <2>1, ResolveKeepsEpisodes
  <2>3. FrozenStep(amState, ManualResolve(amState, e, now))
        /\ HistoryStep(amState, ManualResolve(amState, e, now))
    BY <1>1, ResolveSteps
  <2>4. QED
    BY <1>2, <1>5, <2>2, <2>3
<1>6. QED
  BY <1>3, <1>4, <1>5, EpisodeCases DEF Continues

LEMMA InitEpisodes ==
  TierInit => EpisodeStoreInv
<1> SUFFICES ASSUME TierInit PROVE EpisodeStoreInv
  OBVIOUS
<1>1. Len(backlog) = 0
  BY DEF TierInit
<1>2. FutureRows = {None}
  BY <1>1 DEF TierInit, FutureRows, RowAfter
<1>3. QED
  BY <1>2 DEF TierInit, Init, EpisodeStoreInv

LEMMA NextEpisodes ==
  TierTypeOK /\ EpisodeStoreInv /\ [TierNext]_tierVars => EpisodeStoreInv'
<1> SUFFICES ASSUME TierTypeOK, EpisodeStoreInv, [TierNext]_tierVars
             PROVE  EpisodeStoreInv'
  OBVIOUS
<1>1. now \in Nat /\ now' \in Nat /\ now <= now'
  BY TierStepCases DEF TierTypeOK, TypeOK
<1>2. \A row \in FutureRows : row # None => OpenInv(row.manual, now')
  <2> SUFFICES ASSUME NEW row \in FutureRows, row # None
               PROVE  OpenInv(row.manual, now')
    OBVIOUS
  <2>1. row \in Payload
    BY RowAfterType DEF FutureRows
  <2>2. row.manual \in SUBSET Manual
    BY <2>1 DEF Payload
  <2>3. QED
    BY <1>1, <2>2, OpenLater DEF EpisodeStoreInv
<1>3. amState' # None => EpisodesInv(amState', now')
  <2>1. CASE amState # None
    BY <2>1, ContinuesInOrder DEF EpisodeStoreInv
  <2>2. CASE amState = None /\ amState' # None
    <3>1. Starts
      BY <2>2, EpisodeCases
    <3>2. OpenInv(amState'.manual, now')
      BY <1>2, <3>1 DEF Starts, OpenInv
    <3>3. QED
      BY <3>1, <3>2 DEF Starts, EpisodesInv, ContextInv, ClosedInv
  <2>3. QED
    BY <2>1, <2>2
<1>4. \A row \in FutureRows' : row # None => OpenInv(row.manual, now')
  <2>1. PICK j \in 0 .. Len(backlog) : StoreStep(j)
    BY TierStepCases
  <2>2. \A row \in FutureRows' : row \in FutureRows \/ row = cmState'
    BY <2>1, StoreStepRows DEF FutureRows
  <2>3. CASE cmState' = cmState
    BY <1>2, <2>1, <2>3, StoreStepRows
  <2>4. CASE cmState' # cmState
    <3>1. amState' # None /\ cmState'.manual = amState'.manual
      BY <2>4, ObjectType DEF Publishes, PayloadOf
    <3>2. QED
      BY <1>2, <1>3, <2>2, <3>1 DEF EpisodesInv
  <2>5. QED
    BY <2>3, <2>4
<1>5. QED
  BY <1>3, <1>4 DEF EpisodeStoreInv

\* In every state the episodes are in order.
LEMMA EpisodesInOrder ==
  TierSpec => []EpisodeStoreInv
BY TierInitType, TierNextType, InitEpisodes, NextEpisodes, PTL DEF TierSpec

\* Reports of one fault never split into two open entries, however reports,
\* redeliveries, wipes and restores from an older row interleave.
THEOREM EpisodesNeverSplit ==
  TierSpec => [](OneEntryPerEpisode)
<1>1. EpisodeStoreInv => OneEntryPerEpisode
  BY DEF EpisodeStoreInv, EpisodesInv, OpenInv, OneEntryPerEpisode
<1>2. QED
  BY <1>1, EpisodesInOrder, PTL

\* The configuration frozen for an earlier episode is never taken for that of
\* the one that is open now.
THEOREM ContextIsCurrent ==
  TierSpec => [](ContextIsOfOpenEpisode)
<1>1. EpisodeStoreInv => ContextIsOfOpenEpisode
  BY DEF EpisodeStoreInv, EpisodesInv, ContextInv, ContextIsOfOpenEpisode
<1>2. QED
  BY <1>1, EpisodesInOrder, PTL

\* No report is counted as two sources of one episode.
THEOREM ReportsCountOnce ==
  TierSpec => [](NoReportCountsTwice)
<1>1. EpisodeStoreInv => NoReportCountsTwice
  BY DEF EpisodeStoreInv, EpisodesInv, OpenInv, NoReportCountsTwice
<1>2. QED
  BY <1>1, EpisodesInOrder, PTL

\* No two episodes of a record, open or closed, share key and detection time:
\* a closed one was observed strictly before the open one with its key.
THEOREM EpisodesAreIdentified ==
  TierSpec => [](EpisodeIdentity)
<1>1. TierTypeOK /\ EpisodeStoreInv => EpisodeIdentity
  <2> SUFFICES ASSUME TierTypeOK, EpisodeStoreInv, amState # None,
                      NEW a \in amState.closed \cup amState.manual,
                      NEW b \in amState.closed \cup amState.manual,
                      ~Unkeyed(a), EpisodeId(a) = EpisodeId(b), a.detected = b.detected
               PROVE  a = b
    BY DEF EpisodeIdentity
  <2>1. EpisodesInv(amState, now)
    BY DEF EpisodeStoreInv
  <2>2. a.detected \in Nat /\ b.detected \in Nat
    BY DEF TierTypeOK, TypeOK, Record, Closed, Manual
  <2>3. CASE a \in amState.manual /\ b \in amState.manual
    BY <2>1, <2>3 DEF EpisodesInv, OpenInv
  <2>4. CASE a \in amState.closed /\ b \in amState.closed
    BY <2>1, <2>4 DEF EpisodesInv, ClosedInv
  <2>5. CASE a \in amState.closed /\ b \in amState.manual
    BY <2>1, <2>2, <2>5 DEF EpisodesInv, ClosedInv
  <2>6. CASE a \in amState.manual /\ b \in amState.closed
    BY <2>1, <2>2, <2>6 DEF EpisodesInv, ClosedInv
  <2>7. QED
    BY <2>3, <2>4, <2>5, <2>6
<1>2. QED
  BY <1>1, EpisodesInOrder, TierTypeCorrect, PTL

\* An episode that opens freezes the configuration it opened under; what is
\* frozen never changes and moves unchanged into the closed episode.
THEOREM WhatIsFrozenStays ==
  TierSpec => FrozenStaysFrozen
<1> DEFINE Stays ==
      amState # None /\ amState' # None =>
          /\ \A d \in amState'.manual :
               \/ Unkeyed(d)
               \/ \E old \in amState.manual :
                    EpisodeId(old) = EpisodeId(d) /\ old.detected = d.detected
               \/ [component |-> d.component, fault |-> d.fault,
                   detected |-> d.detected, baseline |-> amState.baseline,
                   mods |-> amState.mods] \in amState'.ctx
          /\ \A c \in amState.ctx :
               \/ c \in amState'.ctx
               \/ \E x \in amState'.closed :
                    /\ EpisodeId(x) = EpisodeId(c) /\ x.detected = c.detected
                    /\ x.frozen = [baseline |-> c.baseline, mods |-> c.mods]
<1>1. TierTypeOK /\ EpisodeStoreInv /\ [TierNext]_tierVars => [Stays]_vars
  BY ContinuesInOrder DEF EpisodeStoreInv, FrozenStep
<1>2. TierSpec => [][Stays]_vars
  BY <1>1, EpisodesInOrder, TierTypeCorrect, PTL DEF TierSpec
<1>3. QED
  BY <1>2 DEF FrozenStaysFrozen

\* closed_episodes is append-only, and an open fault leaves the record only
\* into it, with all its sources.
THEOREM HistoryIsKept ==
  TierSpec => ClosedIsHistory
<1> DEFINE Stays ==
      amState # None /\ amState' # None =>
          /\ amState.closed \subseteq amState'.closed
          /\ \A d \in amState.manual :
               \/ \E d2 \in amState'.manual :
                    /\ EpisodeId(d2) = EpisodeId(d) /\ d2.detected = d.detected
                    /\ d.sources \subseteq d2.sources /\ d2.severity >= d.severity
               \/ \E x \in amState'.closed :
                    /\ EpisodeId(x) = EpisodeId(d) /\ x.detected = d.detected
                    /\ x.sources = d.sources
<1>1. TierTypeOK /\ EpisodeStoreInv /\ [TierNext]_tierVars => [Stays]_vars
  BY ContinuesInOrder DEF EpisodeStoreInv, HistoryStep
<1>2. TierSpec => [][Stays]_vars
  BY <1>1, EpisodesInOrder, TierTypeCorrect, PTL DEF TierSpec
<1>3. QED
  BY <1>2 DEF ClosedIsHistory

-----------------------------------------------------------------------------
(* What the store owes a restore.                                           *)

\* A record that telemetry made, not a placeholder and not retired.
InService(r) == r.lifecycle \in {LIFECYCLE_ACTIVE, LIFECYCLE_STALE}

\* Every variant is loaded whatever a reload loads, and all telemetry names
\* one: no asset comes back as REGISTERED, the one way that skips the store.
AlwaysRestores ==
  \A reg \in Registries, e \in SilverEvents :
    e.removed \/ (e.variant # Blank /\ reg[e.variant] # None)

Holds(r, k) ==
  /\ k.faults = {} \/ k.faults \subseteq FaultIds(r.manual)
  /\ k.mods = {} \/ (r.baseline = k.baseline /\ k.mods \subseteq AppliedMods(r))

\* While the record is lost, every version of the row a restore may read
\* holds what is owed; once it is back, the record does.
SurvivalInv ==
  IF amState = None
  THEN \A row \in FutureRows :
         \/ kept.faults = {} /\ kept.mods = {}
         \/ row # None /\ Holds(row, kept)
  ELSE InService(amState) \/ AlwaysRestores => Holds(amState, kept)

\* A restore takes faults and mods from two versions of the row, the mods when
\* that one was written under the baseline the asset gets.
Restores ==
  \E first \in FutureRows, second \in FutureRows, b \in Baseline :
    /\ amState'.manual = IF first = None THEN {} ELSE first.manual
    /\ amState'.baseline = b.id
    /\ amState'.mods = IF second # None /\ second.baseline = b.id
                       THEN MergeMods(BaselineMods(b), second.mods)
                       ELSE BaselineMods(b)

\* An event that leaves the baseline leaves every applied mod applied.
LEMMA EventMods ==
  ASSUME TypeOK, NEW r \in Record, NEW e \in CmEvents, NEW x, x = ApplyEvent(r, e),
         x.baseline = r.baseline
  PROVE  AppliedMods(r) \subseteq AppliedMods(x)
<1>1. e \in CmMessage /\ r.mods \in ModCompliance
  BY CmEventsType DEF Record
<1>2. x.mods = r.mods => AppliedMods(r) \subseteq AppliedMods(x)
  BY DEF AppliedMods
<1>3. CASE e.type = "mod_applied"
  <2> DEFINE applied == [state |-> MOD_STATE_APPLIED,
                         at |-> IF e.appliedAt = Blank THEN now ELSE e.appliedAt]
  <2>1. x.mods = [r.mods EXCEPT ![e.mod] = applied]
    BY <1>3 DEF ApplyEvent, Record
  <2>2. applied.state = MOD_STATE_APPLIED
    OBVIOUS
  <2> HIDE DEF applied
  <2>3. \A m \in Mods : r.mods[m].state = MOD_STATE_APPLIED
                          => x.mods[m].state = MOD_STATE_APPLIED
    BY <1>1, <2>1, <2>2 DEF ModCompliance
  <2>4. QED
    BY <2>3 DEF AppliedMods
<1>4. CASE e.type = "baseline_assigned"
  <2>1. x = AssignBaseline(r, e.baseline)
    BY <1>4 DEF ApplyEvent
  <2>2. e.baseline = r.baseline
    BY <2>1, BaselineByIdType DEF AssignBaseline, TypeOK, Record
  <2>3. QED
    BY <1>2, <2>1, <2>2 DEF AssignBaseline
<1>5. CASE e.type \in {"part_replaced", "inspection_completed"}
  BY <1>2, <1>5 DEF ApplyEvent, Record
<1>6. CASE e.type = "manual_discrepancy"
  <2>1. ManualReport(r, e, now).mods = r.mods
    BY DEF ManualReport, LegacyReport, OpenEpisode, MergeReport, Record
  <2>2. QED
    BY <1>2, <1>6, <2>1 DEF ApplyEvent
<1>7. CASE e.type = "manual_discrepancy_resolved"
  <2>1. ManualResolve(r, e, now).mods = r.mods
    BY DEF ManualResolve, CloseEpisode, Record
  <2>2. QED
    BY <1>2, <1>7, <2>1 DEF ApplyEvent
<1>8. CASE e.type \notin {"part_replaced", "mod_applied", "inspection_completed",
        "manual_discrepancy", "manual_discrepancy_resolved", "baseline_assigned"}
  BY <1>2, <1>8 DEF ApplyEvent
<1>9. QED
  BY <1>3, <1>4, <1>5, <1>6, <1>7, <1>8

\* A step from no record to a record, and from a record to a record.
LEMMA SurvivalCases ==
  ASSUME TierTypeOK, [TierNext]_tierVars, amState' # None
  PROVE  IF amState = None
         THEN Restores \/ (~InService(amState') /\ ~AlwaysRestores)
         ELSE /\ InService(amState') => InService(amState)
              /\ amState'.baseline = amState.baseline =>
                   AppliedMods(amState) \subseteq AppliedMods(amState')
<1> DEFINE Back == Restores \/ (~InService(amState') /\ ~AlwaysRestores)
           On == /\ amState # None
                 /\ InService(amState') => InService(amState)
                 /\ amState'.baseline = amState.baseline =>
                      AppliedMods(amState) \subseteq AppliedMods(amState')
<1>0. /\ TypeOK /\ registry \in Registries
      /\ amState # None => amState \in Record
  BY DEF TierTypeOK, TypeOK
<1>1. ASSUME NEW r \in Record, NEW pending, Commit(r, pending)
      PROVE  /\ amState'.lifecycle = r.lifecycle /\ amState'.baseline = r.baseline
             /\ amState'.mods = r.mods /\ amState'.manual = r.manual
             /\ AppliedMods(amState') = AppliedMods(r)
  BY <1>0, <1>1, CommitKeeps DEF AppliedMods
<1>2. CASE Idle
  BY <1>2 DEF Idle, store, InService, AppliedMods
<1>3. ASSUME NEW e \in SilverEvents, NEW declared \in Declarations,
             Register(e, declared)
      PROVE  amState = None /\ Back
  <2>1. amState'.lifecycle = LIFECYCLE_REGISTERED
    BY <1>3 DEF Register, RegisteredRecord, EmptyRecord
  <2>2. ~InService(amState')
    BY <2>1 DEF InService, LIFECYCLE_REGISTERED, LIFECYCLE_ACTIVE, LIFECYCLE_STALE
  <2>3. ~e.removed /\ (e.variant = Blank \/ registry[e.variant] = None)
    BY <1>3 DEF Register, FirstSeenBaseline
  <2>4. ~AlwaysRestores
    BY <1>0, <2>3 DEF AlwaysRestores
  <2>5. QED
    BY <1>3, <2>2, <2>4 DEF Register
<1>4. ASSUME NEW e \in SilverEvents, NEW declared \in Declarations,
             CommitsRestored(e, declared)
      PROVE  amState = None /\ Restores
  <2>1. PICK k \in 0 .. Len(backlog), j \in 0 .. Len(backlog) :
          /\ RestoredFresh(e, declared, RowAfter(k), RowAfter(j)) \in Record
          /\ Commit(RestoredFresh(e, declared, RowAfter(k), RowAfter(j)), timers)
    BY <1>4, RestoredCommit
  <2>2. /\ RowAfter(k) \in Payload \cup {None} /\ RowAfter(j) \in Payload \cup {None}
        /\ RowAfter(k) \in FutureRows /\ RowAfter(j) \in FutureRows
    BY RowAfterType DEF FutureRows
  <2>3. PICK x : x = RestoredFresh(e, declared, RowAfter(k), RowAfter(j))
    OBVIOUS
  <2>4. PICK b : b = FirstSeenBaseline(e, declared)
    OBVIOUS
  <2>5. amState = None /\ FirstSeenBaseline(e, declared) # None
    BY <1>4 DEF CommitsRestored
  <2>6. /\ x.manual = (IF RowAfter(k) = None THEN {} ELSE RowAfter(k).manual)
        /\ x.baseline = b.id
        /\ x.mods = (IF RowAfter(j) # None /\ RowAfter(j).baseline = b.id
                     THEN MergeMods(BaselineMods(b), RowAfter(j).mods)
                     ELSE BaselineMods(b))
    BY <1>0, <2>2, <2>3, <2>4, <2>5, RestoredFreshFields
  <2>7. b \in Baseline
    BY <1>0, <2>4, <2>5, FirstSeenBaselineType DEF TypeOK
  <2>8. amState'.manual = x.manual /\ amState'.baseline = x.baseline
        /\ amState'.mods = x.mods
    BY <1>1, <2>1, <2>3
  <2>9. QED
    BY <2>2, <2>5, <2>6, <2>7, <2>8 DEF Restores
<1>5. ASSUME NEW e \in SilverEvents, CommitsKnown(e)
      PROVE  On
  <2>1. amState # None /\ Refreshed(amState, e) \in Record
    BY <1>0, <1>5, RefreshedType DEF CommitsKnown, TypeOK
  <2>2. /\ Refreshed(amState, e).mods = amState.mods
        /\ InService(Refreshed(amState, e)) => InService(amState)
    BY <1>0, <2>1 DEF Refreshed, Record, InService
  <2>3. QED
    BY <1>1, <1>5, <2>1, <2>2 DEF CommitsKnown, InService, AppliedMods
<1>6. ASSUME NEW e \in CmEvents, CommitsEvent(e)
      PROVE  On
  <2>1. PICK x : x = ApplyEvent(amState, e)
    OBVIOUS
  <2>2. amState # None /\ amState \in Record /\ x \in Record /\ Commit(x, timers)
    BY <1>0, <1>6, <2>1, ApplyEventType DEF CommitsEvent, TypeOK
  <2>3. x.lifecycle = amState.lifecycle
    BY <2>1, <2>2, ApplyEventKeeps
  <2>4. x.baseline = amState.baseline => AppliedMods(amState) \subseteq AppliedMods(x)
    BY <1>0, <2>1, <2>2, EventMods
  <2>5. QED
    BY <1>1, <2>2, <2>3, <2>4 DEF InService
<1>7. ASSUME NEW timer \in timers, CommitsAged(timer)
      PROVE  On
  <2>1. amState # None /\ Aged(amState) \in Record
    BY <1>0, <1>7, AgedType DEF CommitsAged
  <2>2. /\ Aged(amState).mods = amState.mods
        /\ InService(Aged(amState)) => InService(amState)
    BY <1>0, <2>1 DEF Aged, Record, InService
  <2>3. QED
    BY <1>1, <1>7, <2>1, <2>2 DEF CommitsAged, InService, AppliedMods
<1>8. CASE Retires
  <2>1. /\ amState # None /\ amState'.lifecycle = LIFECYCLE_DECOMMISSIONED
        /\ amState'.mods = amState.mods
    BY <1>0, <1>8 DEF Retires, Record
  <2>2. QED
    BY <2>1 DEF InService, AppliedMods, LIFECYCLE_DECOMMISSIONED, LIFECYCLE_ACTIVE,
                LIFECYCLE_STALE
<1>9. QED
  <2>1. CASE Idle
    BY <1>2, <2>1 DEF Idle, store
  <2>2. CASE ~Idle
    BY <1>3, <1>4, <1>5, <1>6, <1>7, <1>8, <2>2, TierStepCases
       DEF Forgets, Waits, Handles, Expires, store
  <2>3. QED
    BY <2>1, <2>2

\* What the restored record gets from rows that hold what is owed.
LEMMA RestoreHolds ==
  ASSUME NEW k \in Kept, NEW first, NEW second, NEW b \in Baseline,
         k.faults = {} \/ (first # None /\ k.faults \subseteq FaultIds(first.manual)),
         \/ k.mods = {}
         \/ /\ second # None /\ second.baseline = k.baseline
            /\ k.mods \subseteq AppliedMods(second),
         NEW r, r.manual = IF first = None THEN {} ELSE first.manual,
         r.baseline = b.id,
         r.mods = IF second # None /\ second.baseline = b.id
                  THEN MergeMods(BaselineMods(b), second.mods)
                  ELSE BaselineMods(b)
  PROVE  /\ k.faults = {} \/ k.faults \subseteq FaultIds(r.manual)
         /\ r.baseline = k.baseline => k.mods \subseteq AppliedMods(r)
<1>1. k.faults = {} \/ k.faults \subseteq FaultIds(r.manual)
  OBVIOUS
<1>2. ASSUME r.baseline = k.baseline, k.mods # {}
      PROVE  k.mods \subseteq AppliedMods(r)
  <2>1. r.mods = MergeMods(BaselineMods(b), second.mods)
    BY <1>2
  <2>2. \A m \in Mods : second.mods[m].state = MOD_STATE_APPLIED
                          => r.mods[m].state = MOD_STATE_APPLIED
    BY <2>1 DEF MergeMods, MOD_STATE_APPLIED, MOD_UNTRACKED
  <2>3. QED
    BY <1>2, <2>2 DEF AppliedMods
<1>3. QED
  BY <1>1, <1>2

LEMMA InitSurvival ==
  TierInit => SurvivalInv
BY DEF TierInit, Init, SurvivalInv, Holds

LEMMA NextSurvival ==
  TierTypeOK /\ SurvivalInv /\ [TierNext]_tierVars => SurvivalInv'
<1> SUFFICES ASSUME TierTypeOK, SurvivalInv, [TierNext]_tierVars
             PROVE  SurvivalInv'
  OBVIOUS
<1>0. kept \in Kept /\ kept' \in Kept
  BY TierNextType DEF TierTypeOK
<1>1. amState' = None => FutureRows' \subseteq FutureRows
  <2>1. amState' = None => cmState' = cmState
    BY ObjectType DEF Publishes
  <2>2. QED
    BY <2>1, TierStepCases, StoreStepRows
<1>2. CASE Forgets
  <2>1. amState' = None /\ kept' = Owed
    BY <1>2 DEF Forgets
  <2>2. \A row \in FutureRows : \/ Owed.faults = {}
                                \/ /\ row # None
                                   /\ Owed.faults \subseteq FaultIds(row.manual)
    BY DEF Owed
  <2>3. \A row \in FutureRows : \/ Owed.mods = {}
                                \/ /\ row # None /\ row.baseline = Owed.baseline
                                   /\ Owed.mods \subseteq AppliedMods(row)
    BY DEF Owed
  <2>4. QED
    BY <1>1, <2>1, <2>2, <2>3 DEF SurvivalInv, Holds
<1>3. CASE Waits
  <2>1. amState' = amState /\ kept' = kept
    BY <1>3 DEF Waits, Idle, store
  <2>2. CASE amState = None
    BY <1>1, <2>1, <2>2 DEF SurvivalInv, Holds
  <2>3. CASE amState # None
    BY <2>1, <2>3 DEF SurvivalInv, Holds, InService, AlwaysRestores, FaultIds, AppliedMods
  <2>4. QED
    BY <2>2, <2>3
<1>4. CASE Handles
  <2>1. /\ kept'.baseline = kept.baseline
        /\ kept'.faults =
             IF amState = None \/ amState' = None THEN kept.faults
             ELSE kept.faults \ (FaultIds(amState.manual) \ FaultIds(amState'.manual))
        /\ kept'.mods =
             IF amState' # None /\ amState'.baseline # kept.baseline THEN {} ELSE kept.mods
    BY <1>0, <1>4, DischargeIs DEF Handles
  <2>2. CASE amState' = None
    <3>1. amState = None
      <4> SUFFICES ASSUME amState # None PROVE FALSE
        OBVIOUS
      <4>1. TypeOK /\ amState \in Record
        BY DEF TierTypeOK, TypeOK
      <4>2. ~Idle
        BY <2>2 DEF Idle, store
      <4>3. ASSUME NEW r \in Record, NEW pending, Commit(r, pending)
            PROVE  FALSE
        BY <2>2, <4>1, <4>3, CommitOutcome
      <4>4. ASSUME NEW e \in SilverEvents, CommitsKnown(e)
            PROVE  FALSE
        BY <4>1, <4>3, <4>4, RefreshedType DEF CommitsKnown, TypeOK
      <4>5. ASSUME NEW e \in CmEvents, CommitsEvent(e)
            PROVE  FALSE
        BY <4>1, <4>3, <4>5, ApplyEventType DEF CommitsEvent, TypeOK
      <4>6. ASSUME NEW timer \in timers, CommitsAged(timer)
            PROVE  FALSE
        BY <4>1, <4>3, <4>6, AgedType DEF CommitsAged
      <4>7. ~Retires
        BY <2>2, <4>1, NoneAssumption DEF Retires, Record, Lifecycles
      <4>8. QED
        BY <1>4, <4>2, <4>4, <4>5, <4>6, <4>7
           DEF Handles, Register, CommitsRestored, Expires
    <3>2. QED
      BY <1>1, <2>1, <2>2, <3>1 DEF SurvivalInv, Holds
  <2>3. CASE amState = None /\ amState' # None
    <3>1. SUFFICES ASSUME InService(amState') \/ AlwaysRestores
                   PROVE  Holds(amState', kept')
      BY <2>3 DEF SurvivalInv, Holds, InService, AlwaysRestores, FaultIds, AppliedMods
    <3>2. Restores
      BY <2>3, <3>1, SurvivalCases
    <3>3. PICK first \in FutureRows, second \in FutureRows, b \in Baseline :
            /\ amState'.manual = IF first = None THEN {} ELSE first.manual
            /\ amState'.baseline = b.id
            /\ amState'.mods = IF second # None /\ second.baseline = b.id
                               THEN MergeMods(BaselineMods(b), second.mods)
                               ELSE BaselineMods(b)
      BY <3>2 DEF Restores
    <3>4. /\ kept.faults = {} \/ (first # None /\ kept.faults \subseteq FaultIds(first.manual))
          /\ \/ kept.mods = {}
             \/ /\ second # None /\ second.baseline = kept.baseline
                /\ kept.mods \subseteq AppliedMods(second)
      BY <2>3 DEF SurvivalInv, Holds
    <3>5. /\ kept.faults = {} \/ kept.faults \subseteq FaultIds(amState'.manual)
          /\ amState'.baseline = kept.baseline => kept.mods \subseteq AppliedMods(amState')
      BY <1>0, <3>3, <3>4, RestoreHolds
    <3>6. QED
      BY <2>1, <2>3, <3>5 DEF Holds
  <2>4. CASE amState # None /\ amState' # None
    <3>1. SUFFICES ASSUME InService(amState') \/ AlwaysRestores
                   PROVE  Holds(amState', kept')
      BY <2>4 DEF SurvivalInv, Holds, InService, AlwaysRestores, FaultIds, AppliedMods
    <3>2. Holds(amState, kept)
      BY <2>4, <3>1, SurvivalCases DEF SurvivalInv
    <3>3. kept'.faults \subseteq FaultIds(amState'.manual)
      BY <2>1, <2>4, <3>2 DEF Holds
    <3>4. amState'.baseline = amState.baseline =>
            AppliedMods(amState) \subseteq AppliedMods(amState')
      BY <2>4, SurvivalCases
    <3>5. QED
      BY <2>1, <2>4, <3>2, <3>3, <3>4 DEF Holds
  <2>5. QED
    BY <2>2, <2>3, <2>4
<1>5. QED
  BY <1>2, <1>3, <1>4, TierStepCases

\* In every state what is owed is held.
LEMMA OwedIsHeld ==
  TierSpec => []SurvivalInv
BY TierInitType, TierNextType, InitSurvival, NextSurvival, PTL DEF TierSpec

\* An open fault that record and row agreed on when the state was lost is,
\* once the asset is back, still open with its first-observed time until
\* somebody resolves it: where every restore finds a baseline.
THEOREM FaultsSurvive ==
  AlwaysRestores => (TierSpec => [](OpenFaultsSurviveWipe))
<1> SUFFICES ASSUME AlwaysRestores
             PROVE  TierSpec => [](OpenFaultsSurviveWipe)
  OBVIOUS
<1>1. SurvivalInv => OpenFaultsSurviveWipe
  BY DEF SurvivalInv, Holds, OpenFaultsSurviveWipe
<1>2. QED
  BY <1>1, OwedIsHeld, PTL

\* So do the mods applied under the baseline the asset comes back with.
THEOREM ModsSurvive ==
  AlwaysRestores => (TierSpec => [](AppliedModsSurviveWipe))
<1> SUFFICES ASSUME AlwaysRestores
             PROVE  TierSpec => [](AppliedModsSurviveWipe)
  OBVIOUS
<1>1. SurvivalInv => AppliedModsSurviveWipe
  BY DEF SurvivalInv, Holds, AppliedModsSurviveWipe
<1>2. QED
  BY <1>1, OwedIsHeld, PTL

\* With no such assumption: an asset that is ACTIVE or STALE has everything it
\* was owed. Only a REGISTERED placeholder can have lost a fault, and no
\* handler turns one of those ACTIVE.
InServiceKeepsOwed ==
  amState # None /\ InService(amState) =>
    /\ kept.faults \subseteq FaultIds(amState.manual)
    /\ amState.baseline = kept.baseline => kept.mods \subseteq AppliedMods(amState)

\* What the store owes is back in every asset that telemetry has put into
\* service, whichever registries are loaded and however thin the telemetry is.
THEOREM InServiceIsRestored ==
  TierSpec => [](InServiceKeepsOwed)
<1>1. SurvivalInv => InServiceKeepsOwed
  BY DEF SurvivalInv, Holds, InServiceKeepsOwed
<1>2. QED
  BY <1>1, OwedIsHeld, PTL

-----------------------------------------------------------------------------
(* What the object promises, across wipes and restores.                     *)

\* A step loses the state, is a step of an object that loses nothing, or
\* restores.
LEMMA TierSteps ==
  ASSUME TierTypeOK, [TierNext]_tierVars
  PROVE  /\ now' \in Nat /\ now' >= now
         /\ \/ Forgets
            \/ Steps
            \/ \E e \in SilverEvents, declared \in Declarations :
                 CommitsRestored(e, declared) /\ UNCHANGED registry
BY TierStepCases DEF Waits, Handles, Steps

\* The record a restore hands to the tail: just observed, not STALE, with the
\* findings of an untouched baseline.
LEMMA RestoredHandsOver ==
  ASSUME TierTypeOK, NEW e \in SilverEvents, NEW declared \in Declarations,
         CommitsRestored(e, declared)
  PROVE  \E x \in Record, b \in Baseline :
           /\ Commit(x, timers)
           /\ x.observed = now /\ x.lifecycle # LIFECYCLE_STALE
           /\ x.discs = ComputeDiscrepancies(b, BaselineInstalled(b),
                                             BaselineMods(b), now)
<1>0. TypeOK /\ FirstSeenBaseline(e, declared) # None
  BY DEF TierTypeOK, CommitsRestored
<1>1. PICK k \in 0 .. Len(backlog), j \in 0 .. Len(backlog) :
        /\ RestoredFresh(e, declared, RowAfter(k), RowAfter(j)) \in Record
        /\ Commit(RestoredFresh(e, declared, RowAfter(k), RowAfter(j)), timers)
  BY RestoredCommit
<1>2. RowAfter(k) \in Payload \cup {None} /\ RowAfter(j) \in Payload \cup {None}
  BY RowAfterType
<1>3. PICK x : x = RestoredFresh(e, declared, RowAfter(k), RowAfter(j))
  OBVIOUS
<1>4. PICK b : b = FirstSeenBaseline(e, declared)
  OBVIOUS
<1>5. /\ x.observed = now /\ x.lifecycle # LIFECYCLE_STALE
      /\ x.discs = ComputeDiscrepancies(b, BaselineInstalled(b),
                                        BaselineMods(b), now)
  BY <1>0, <1>2, <1>3, <1>4, RestoredFreshFields
<1>6. b \in Baseline
  BY <1>0, <1>4, FirstSeenBaselineType DEF TypeOK
<1>7. QED
  BY <1>1, <1>3, <1>5, <1>6

LEMMA TierNextSilence ==
  TierTypeOK /\ SilenceInv /\ [TierNext]_tierVars => SilenceInv'
<1> SUFFICES ASSUME TierTypeOK, SilenceInv, [TierNext]_tierVars PROVE SilenceInv'
  OBVIOUS
<1>1. TypeOK /\ now \in Nat /\ now' \in Nat /\ now' >= now
  BY TierSteps DEF TierTypeOK, TypeOK
<1>2. CASE Forgets
  BY <1>2 DEF Forgets, SilenceInv
<1>3. CASE Steps
  BY <1>1, <1>3, StepsSilence
<1>4. ASSUME NEW e \in SilverEvents, NEW declared \in Declarations,
             CommitsRestored(e, declared)
      PROVE  SilenceInv'
  <2>1. amState'.observed = now /\ amState'.lifecycle # LIFECYCLE_STALE
        /\ telemetryAt' = now
    BY <1>1, <1>4, RestoredHandsOver, CommitKeeps DEF CommitsRestored
  <2>2. QED
    BY <1>1, <2>1 DEF SilenceInv
<1>5. QED
  BY <1>2, <1>3, <1>4, TierSteps

\* An asset that comes back is not STALE before its feed has been silent for
\* the window, however old the row and the delayed calls that are still there.
THEOREM StaleIsSilentAfterRestore ==
  TierSpec => [](StaleMeansSilent)
<1>1. TierInit => SilenceInv
  BY InitSilence DEF TierInit
<1>2. SilenceInv => StaleMeansSilent
  BY DEF SilenceInv, StaleMeansSilent
<1>3. QED
  BY <1>1, <1>2, TierTypeCorrect, TierNextSilence, PTL DEF TierSpec

LEMMA TierNextAim ==
  TierTypeOK /\ AimInv /\ [TierNext]_tierVars => AimInv'
<1> SUFFICES ASSUME TierTypeOK, AimInv, [TierNext]_tierVars PROVE AimInv'
  OBVIOUS
<1>1. TypeOK /\ now \in Nat /\ now' \in Nat /\ now' >= now
  BY TierSteps DEF TierTypeOK, TypeOK
<1>2. ASSUME NEW pending, Delivers(pending)
      PROVE  AimInv'
  BY <1>1, <1>2, DeliveryKeepsAim, ScheduleKeepsAim DEF Delivers
<1>3. CASE Forgets
  <2>1. ~(nextRecheck' >= now' + Second)
    BY <1>1, <1>3, SecondAssumption DEF Forgets
  <2>2. (\A timer \in timers : OnTime(timer))'
    BY <1>3 DEF Forgets, AimInv, OnTime
  <2>3. QED
    BY <2>1, <2>2 DEF AimInv, DebounceIsHonest
<1>4. CASE Steps
  BY <1>1, <1>2, <1>4, StepsDeliver
<1>5. ASSUME NEW e \in SilverEvents, NEW declared \in Declarations,
             CommitsRestored(e, declared)
      PROVE  AimInv'
  <2>1. PICK x \in Record : Commit(x, timers)
    BY <1>5, RestoredHandsOver
  <2>2. QED
    BY <1>1, <1>2, <2>1, CommitDelivers
<1>6. QED
  BY <1>3, <1>4, <1>5, TierSteps

\* Losing next_recheck_ns, with or without the delayed calls, never leaves a
\* debounce behind that waits for a call nobody sends.
THEOREM DebounceIsSafeAfterRestore ==
  TierSpec => [](DebounceIsHonest)
<1>1. TierInit => AimInv
  BY InitRechecks DEF TierInit, RecheckInv
<1>2. AimInv => DebounceIsHonest
  BY DEF AimInv
<1>3. QED
  BY <1>1, <1>2, TierTypeCorrect, TierNextAim, PTL DEF TierSpec

LEMMA TierNextFindings ==
  TierTypeOK /\ FindingsInv /\ [TierNext]_tierVars => FindingsInv' /\ TimesKept
<1> SUFFICES ASSUME TierTypeOK, FindingsInv, [TierNext]_tierVars
             PROVE  FindingsInv' /\ TimesKept
  OBVIOUS
<1>1. TypeOK
  BY DEF TierTypeOK
<1>2. CASE Forgets
  BY <1>2 DEF Forgets, FindingsInv, TimesKept
<1>3. CASE Steps
  BY <1>1, <1>3, StepsFindings
<1>4. ASSUME NEW e \in SilverEvents, NEW declared \in Declarations,
             CommitsRestored(e, declared)
      PROVE  FindingsInv' /\ TimesKept
  <2>1. PICK x \in Record, b \in Baseline :
          /\ Commit(x, timers)
          /\ x.discs = ComputeDiscrepancies(b, BaselineInstalled(b),
                                            BaselineMods(b), now)
    BY <1>4, RestoredHandsOver
  <2>2. UniqueFindings(x.discs)
    BY <2>1, FoundOnce DEF UniqueFindings, SameFinding
  <2>3. amState = None
    BY <1>4 DEF CommitsRestored
  <2>4. QED
    BY <1>1, <2>1, <2>2, <2>3, CommitFindings DEF TimesKept
<1>5. QED
  BY <1>2, <1>3, <1>4, TierSteps

\* A finding keeps the time it was first observed for as long as the record
\* lives, a restored one as well.
THEOREM DetectionTimesAreKeptAfterRestore ==
  TierSpec => DetectionTimesKept
<1>1. TierTypeOK /\ FindingsInv /\ [TierNext]_tierVars => [TimesKept]_vars
  BY TierNextFindings
<1>2. TierInit => FindingsInv
  BY InitFindings DEF TierInit
<1>3. TierSpec => [][TimesKept]_vars
  BY <1>1, <1>2, TierTypeCorrect, TierNextFindings, PTL DEF TierSpec
<1>4. QED
  BY <1>3 DEF DetectionTimesKept, TimesKept, SameFinding

LEMMA TierNextCounted ==
  TierTypeOK /\ [TierNext]_tierVars => Counted
<1> SUFFICES ASSUME TierTypeOK, [TierNext]_tierVars PROVE Counted
  OBVIOUS
<1>1. CASE Forgets
  BY <1>1 DEF Forgets, Counted
<1>2. CASE Steps
  BY <1>2, StepsCounted DEF TierTypeOK
<1>3. ASSUME NEW e \in SilverEvents, NEW declared \in Declarations,
             CommitsRestored(e, declared)
      PROVE  Counted
  BY <1>3 DEF CommitsRestored, Counted
<1>4. QED
  BY <1>1, <1>2, <1>3, TierSteps

\* A change to faults, mods or parts counts in the status, on an asset that
\* came back as on any other.
THEOREM StatusCountsEverythingAfterRestore ==
  TierSpec => StatusFollowsFindings
<1>1. TierTypeOK /\ [TierNext]_tierVars => [Counted]_vars
  BY TierNextCounted
<1>2. TierSpec => [][Counted]_vars
  BY <1>1, TierTypeCorrect, PTL DEF TierSpec
<1>3. QED
  BY <1>2 DEF StatusFollowsFindings, Counted

\* After a restore, too, the last message says what the record says: a lost
\* last_emit_sig makes for one message more, never one less.
THEOREM ReadersSeeTheRestoredRecord ==
  TierSpec => [](CmStateMirrorsRecord)
<1>1. TierTypeOK /\ RowInv => CmStateMirrorsRecord
  <2> SUFFICES ASSUME TierTypeOK, RowInv, amState # None
               PROVE  cmState # None /\ Signature(cmState) = Signature(PayloadOf(amState))
    BY DEF CmStateMirrorsRecord
  <2>1. Signature(PayloadOf(amState)) # None
    BY PayloadType, NoneAssumption DEF TierTypeOK, TypeOK
  <2>2. QED
    BY <2>1 DEF RowInv, MirrorInv
<1>2. QED
  BY <1>1, TierTypeCorrect, TierInitType, TierNextType, InitRows, NextRows, PTL DEF TierSpec

\* The status an asset comes back with.
ComesBackCounted ==
  amState = None /\ amState' # None
  /\ amState'.baseline # None /\ BaselineById(amState'.baseline) # None
  => amState'.status = OverallStatus(amState'.discs \cup amState'.manual)

LEMMA CommitCounts ==
  ASSUME TypeOK, NEW r \in Record, NEW pending, Commit(r, pending)
  PROVE  ComesBackCounted
<1>1. /\ amState'.status = Reanalyze(r).status
      /\ amState'.discs = Reanalyze(r).discs
      /\ amState'.manual = r.manual
      /\ amState'.baseline = r.baseline
  BY ReanalyzeType, CommitSteps, AfterAlertKeeps, CommitKeeps DEF TypeOK
<1>2. QED
  BY <1>1, ReanalyzeStatus DEF ComesBackCounted

\* The faults a restore brings back count in the very first status the asset
\* comes back with: it is never shown better than an open fault allows.
THEOREM RestoredStatusCounts ==
  TierSpec => [][ComesBackCounted]_vars
<1>1. ASSUME TierTypeOK, [TierNext]_tierVars
      PROVE  ComesBackCounted
  <2>1. CASE Forgets
    BY <2>1 DEF Forgets, ComesBackCounted
  <2>2. CASE Idle
    BY <2>2 DEF Idle, store, ComesBackCounted
  <2>3. ASSUME NEW e \in SilverEvents, NEW declared \in Declarations,
               Register(e, declared)
        PROVE  ComesBackCounted
    BY <2>3 DEF Register, RegisteredRecord, EmptyRecord, ComesBackCounted
  <2>4. ASSUME NEW e \in SilverEvents, NEW declared \in Declarations,
               CommitsRestored(e, declared)
        PROVE  ComesBackCounted
    BY <1>1, <2>4, RestoredHandsOver, CommitCounts DEF TierTypeOK
  <2>5. QED
    BY <1>1, <2>1, <2>2, <2>3, <2>4, TierStepCases
       DEF Waits, Handles, CommitsKnown, CommitsEvent, CommitsAged, Retires,
           Expires, store, ComesBackCounted
<1>2. TierTypeOK /\ [TierNext]_tierVars => [ComesBackCounted]_vars
  BY <1>1
<1>3. QED
  BY <1>2, TierTypeCorrect, PTL DEF TierSpec

\* An asset that comes back, or comes back and is worked on, is held to the
\* same promise: when its telemetry is handled and it deviates gravely, a
\* "detected" stands, whatever the wipe destroyed and the row returned.
THEOREM GraveDeviationsAreAlarmedAfterRestore ==
  TierSpec => GraveDeviationIsAlarmed
<1> DEFINE Step ==
      telemetryAt' # telemetryAt /\ amState'.baseline # None
      /\ BaselineById(amState'.baseline) # None
      /\ GraveDeviation(BaselineById(amState'.baseline), amState')
      => lastAlert' # None /\ lastAlert'.kind = "detected"
<1>1. ASSUME TierTypeOK, [TierNext]_tierVars, telemetryAt' # telemetryAt,
             ~Forgets
      PROVE  GraveIsBad
  <2>1. CASE Steps
    BY <1>1, <2>1, StepsGrave DEF TierTypeOK
  <2>2. ASSUME NEW e \in SilverEvents, NEW declared \in Declarations,
               CommitsRestored(e, declared)
        PROVE  GraveIsBad
    BY <1>1, <2>2, RestoredHandsOver, CommitGrave DEF TierTypeOK
  <2>3. QED
    BY <1>1, <2>1, <2>2, TierSteps
<1>2. Forgets => UNCHANGED telemetryAt
  BY DEF Forgets
<1>3. TierTypeOK /\ TroubleInv /\ [TierNext]_tierVars => [Step]_vars
  <2> SUFFICES ASSUME TierTypeOK, TroubleInv, [TierNext]_tierVars,
                      telemetryAt' # telemetryAt,
                      amState'.baseline # None, BaselineById(amState'.baseline) # None,
                      GraveDeviation(BaselineById(amState'.baseline), amState')
               PROVE  lastAlert' # None /\ lastAlert'.kind = "detected"
    OBVIOUS
  <2>1. amState' # None /\ amState'.status >= 3
    BY <1>1, <1>2 DEF GraveIsBad
  <2>2. TroubleInv' /\ TierTypeOK'
    BY NextTrouble, TierNextType
  <2>3. amState'.status \in 0 .. 4 /\ amState'.alerted \in 0 .. 4
    BY <2>1, <2>2 DEF TierTypeOK, TypeOK, Record
  <2>4. Alarmed'
    BY <2>1, <2>2, <2>3 DEF TroubleInv, AlarmStands
  <2>5. QED
    BY <2>4 DEF Alarmed
<1>4. TierInit => TroubleInv
  BY DEF TierInit, Init, TroubleInv
<1>5. TierSpec => [][Step]_vars
  BY <1>3, <1>4, TierTypeCorrect, NextTrouble, PTL DEF TierSpec
<1>6. QED
  BY <1>5 DEF GraveDeviationIsAlarmed
=============================================================================
