-------------------------- MODULE AssetPromise_proofs --------------------------
(***************************************************************************)
(* An AssetCM object implements AssetPromise: whoever reads only the two   *)
(* topics sees the promised lifecycle, status and alarm, and nothing else. *)
(* The refinement mapping is the instance Promise of AssetCMProperties.    *)
(***************************************************************************)
EXTENDS AssetCMSafety_proofs

USE DEF CONFIG_STATUS_UNSPECIFIED, CONFIG_STATUS_IN_COMPLIANCE,
        CONFIG_STATUS_MINOR_DISCREPANCY, CONFIG_STATUS_MAJOR_DISCREPANCY,
        CONFIG_STATUS_NOT_MISSION_CAPABLE, Statuses,
        Promise!CONFIG_STATUS_UNSPECIFIED, Promise!CONFIG_STATUS_IN_COMPLIANCE,
        Promise!CONFIG_STATUS_MAJOR_DISCREPANCY, Promise!Statuses,
        Promise!CONFIG_STATUS_NOT_MISSION_CAPABLE

\* The two enumerations are one and the same.
LEMMA SameLifecycles ==
  /\ Promise!LIFECYCLE_REGISTERED = LIFECYCLE_REGISTERED
  /\ Promise!LIFECYCLE_ACTIVE = LIFECYCLE_ACTIVE
  /\ Promise!LIFECYCLE_STALE = LIFECYCLE_STALE
  /\ Promise!LIFECYCLE_DECOMMISSIONED = LIFECYCLE_DECOMMISSIONED
  /\ Promise!Lifecycles = Lifecycles
BY DEF Promise!LIFECYCLE_REGISTERED, LIFECYCLE_REGISTERED, Promise!LIFECYCLE_ACTIVE,
       LIFECYCLE_ACTIVE, Promise!LIFECYCLE_STALE, LIFECYCLE_STALE,
       Promise!LIFECYCLE_DECOMMISSIONED, LIFECYCLE_DECOMMISSIONED,
       Promise!Lifecycles, Lifecycles

\* The mapping, by name: what stands for each variable of AssetPromise.
Lifecycle == IF amState = None THEN "unknown" ELSE amState.lifecycle
Status == IF amState = None THEN CONFIG_STATUS_UNSPECIFIED ELSE amState.status
Shown == IF cmState = None
         THEN [lifecycle |-> "unknown", status |-> CONFIG_STATUS_UNSPECIFIED]
         ELSE [lifecycle |-> cmState.lifecycle, status |-> cmState.status]

-----------------------------------------------------------------------------
(* The published view.                                                      *)

\* Nothing is published of an asset that is not known.
SilentInv == amState = None => cmState = None

LEMMA InitSilent ==
  Init => SilentInv
BY DEF Init, SilentInv

LEMMA NextSilent ==
  TypeOK /\ SilentInv /\ [Next]_vars => SilentInv'
<1> SUFFICES ASSUME TypeOK, SilentInv, [Next]_vars, amState' = None
             PROVE  cmState' = None
  BY DEF SilentInv
<1>1. amState = None
  BY StepKeeps DEF Keeps
<1>2. cmState = None
  BY <1>1 DEF SilentInv
<1>3. ASSUME NEW e \in SilverEvents, NEW declared \in Declarations
      PROVE  ~Register(e, declared) /\ ~CommitsFresh(e, declared)
  <2>1. Register(e, declared) => amState' # None
    BY RegisteredType, NoneAssumption DEF Register, TypeOK
  <2>2. CommitsFresh(e, declared) => amState' # None
    BY FreshRecordFields, CommitKeeps DEF CommitsFresh
  <2>3. QED
    BY <2>1, <2>2
<1>4. QED
  BY <1>1, <1>2, <1>3, StepCases
     DEF Steps, Idle, output, CommitsKnown, CommitsEvent, CommitsAged, Expires, Retires

\* The view is never behind.
View == Shown = [lifecycle |-> Lifecycle, status |-> Status]

LEMMA ViewIsCurrent ==
  TypeOK /\ MirrorInv /\ SilentInv => View
<1> SUFFICES ASSUME TypeOK, MirrorInv, SilentInv
             PROVE  Shown = [lifecycle |-> Lifecycle, status |-> Status]
  BY DEF View
<1>1. CASE amState = None
  BY <1>1 DEF SilentInv, Shown, Lifecycle, Status
<1>2. CASE amState # None
  <2>1. Signature(PayloadOf(amState)) # None /\ amState \in Record
    BY <1>2, PayloadType, NoneAssumption DEF TypeOK
  <2>2. cmState \in Payload /\ cmState # None
        /\ Signature(cmState) = Signature(PayloadOf(amState))
    BY <1>2, <2>1 DEF MirrorInv, TypeOK
  <2>3. cmState.lifecycle = Signature(cmState).lifecycle
        /\ cmState.status = Signature(cmState).status
    BY <2>2 DEF Signature, Payload
  <2>4. amState.lifecycle = Signature(PayloadOf(amState)).lifecycle
        /\ amState.status = Signature(PayloadOf(amState)).status
    BY <2>1 DEF Signature, PayloadOf, Record
  <2>5. QED
    BY <1>2, <2>2, <2>3, <2>4 DEF Shown, Lifecycle, Status
<1>3. QED
  BY <1>1, <1>2

-----------------------------------------------------------------------------
(* What the common tail does to status and alarm.                           *)

\* An analysis leaves a status; without a baseline to analyse against, the
\* status stays.
LEMMA CommitStatus ==
  ASSUME TypeOK, NEW r \in Record, NEW pending, Commit(r, pending)
  PROVE  amState'.status \in 1 .. 4 \/ amState'.status = r.status
<1>1. Reanalyze(r) \in Record
  BY ReanalyzeType DEF TypeOK
<1>2. amState'.status = Reanalyze(r).status
  BY <1>1, CommitSteps, AfterAlertKeeps
<1>3. CASE r.baseline = None \/ BaselineById(r.baseline) = None
  BY <1>2, <1>3 DEF Reanalyze
<1>4. CASE ~ (r.baseline = None \/ BaselineById(r.baseline) = None)
  BY <1>2, <1>4, ReanalyzeStatus, OverallStatusType
<1>5. QED
  BY <1>3, <1>4

\* The alarm follows the status with hysteresis, whatever is remembered.
LEMMA CommitAlarm ==
  ASSUME TypeOK, NEW r \in Record, NEW pending \in SUBSET Timer, Commit(r, pending),
         AlertMemory(r.alerted)
  PROVE  Alarmed' <=> (amState'.status >= 3 \/ (Alarmed /\ amState'.status # 1))
<1> DEFINE x == Reanalyze(r)
<1>1. x \in Record /\ x.alerted = r.alerted
  BY ReanalyzeType, ReanalyzeKeeps DEF TypeOK
<1>2. x.status \in 0..4 /\ x.alerted \in 0..4
  BY <1>1 DEF Record
<1>3. /\ amState' = AfterAlert(x) /\ amState'.status = x.status
      /\ SendAlert(x) /\ amState' # None
  BY <1>1, CommitSteps, CommitKeeps, AfterAlertKeeps
<1>4. /\ Alarmed' <=> amState'.alerted >= 3
      /\ x.status >= 3 => amState'.alerted >= 3
      /\ x.status = 1 => amState'.alerted <= 1
      /\ amState'.alerted \in 0 .. 4
  <2>1. AlertInv' /\ amState' \in Record
    BY CommitAlerts, CommitKeeps
  <2>2. QED
    BY <1>3, <2>1 DEF AlertInv, AlertMemory, Record
<1> HIDE DEF x
<1>5. CASE x.status >= 3 \/ x.status = 1
  BY <1>2, <1>3, <1>4, <1>5
<1>6. CASE ~(x.status >= 3 \/ x.status = 1)
  <2>1. lastAlert' = lastAlert
    BY <1>2, <1>3, <1>6 DEF SendAlert, Detected, Resolved
  <2>2. QED
    BY <1>3, <1>6, <2>1 DEF Alarmed
<1>7. QED
  BY <1>5, <1>6

-----------------------------------------------------------------------------
(* Every step is a step of the promise, or a stutter.                       *)

\* The three things AssetPromise lets happen, on the mapped variables.
Registers ==
  /\ Lifecycle = "unknown" /\ Lifecycle' = LIFECYCLE_REGISTERED
  /\ Status' = Status /\ Alarmed' = Alarmed
Handles ==
  /\ <<Lifecycle, Lifecycle'>> \in Promise!Turns
  /\ Status' \in 1 .. 4 \/ (Lifecycle # "unknown" /\ Status' = Status)
  /\ Alarmed' = (Status' >= 3 \/ (Alarmed /\ Status' # 1))
RetiresIt ==
  /\ Lifecycle # "unknown" /\ Lifecycle' = LIFECYCLE_DECOMMISSIONED
  /\ Status' = Status /\ Alarmed' = Alarmed
Rests ==
  Lifecycle' = Lifecycle /\ Status' = Status /\ Alarmed' = Alarmed /\ Shown' = Shown

\* A known asset whose handler hands r to the tail.
LEMMA KnownHandles ==
  ASSUME TypeOK, AlertInv, NEW r \in Record, NEW pending \in SUBSET Timer,
         Commit(r, pending), amState # None, r.alerted = amState.alerted,
         r.status = amState.status,
         \/ r.lifecycle = amState.lifecycle
         \/ r.lifecycle = LIFECYCLE_ACTIVE /\ amState.lifecycle = LIFECYCLE_STALE
         \/ r.lifecycle = LIFECYCLE_STALE /\ amState.lifecycle = LIFECYCLE_ACTIVE
  PROVE  Handles
<1>1. amState \in Record /\ AlertMemory(r.alerted)
  BY DEF TypeOK, AlertInv
<1>2. amState' # None /\ amState'.lifecycle = r.lifecycle
  BY CommitKeeps
<1>3. amState.lifecycle \in Lifecycles /\ amState.lifecycle # "unknown"
  BY <1>1 DEF Record, Lifecycles, LIFECYCLE_REGISTERED, LIFECYCLE_ACTIVE,
              LIFECYCLE_STALE, LIFECYCLE_DECOMMISSIONED
<1>4. Lifecycle = amState.lifecycle /\ Lifecycle' = r.lifecycle
      /\ Status = amState.status /\ Status' = amState'.status
  BY <1>2 DEF Lifecycle, Status
<1>5. <<Lifecycle, Lifecycle'>> \in Promise!Turns
  BY <1>3, <1>4, SameLifecycles DEF Promise!Turns
<1>6. Status' \in 1 .. 4 \/ Status' = Status
  BY <1>4, CommitStatus
<1>7. Alarmed' <=> (Status' >= 3 \/ (Alarmed /\ Status' # 1))
  BY <1>1, <1>4, CommitAlarm
<1>8. QED
  BY <1>3, <1>4, <1>5, <1>6, <1>7 DEF Handles

LEMMA StepOfPromise ==
  ASSUME TypeOK, AlertInv, [Next]_vars
  PROVE  Registers \/ Handles \/ RetiresIt \/ Rests
<1>1. amState # None => amState \in Record
  BY DEF TypeOK
<1>2. CASE Idle
  BY <1>2 DEF Idle, store, output, Rests, Lifecycle, Status, Shown, Alarmed
<1>3. ASSUME NEW e \in SilverEvents, NEW declared \in Declarations, Register(e, declared)
      PROVE  Registers
  <2>1. amState' \in Record /\ amState' # None
    BY <1>3, RegisteredType, NoneAssumption DEF Register, TypeOK
  <2>2. amState'.lifecycle = LIFECYCLE_REGISTERED /\ amState'.status = 0
    BY <1>3 DEF Register, RegisteredRecord, EmptyRecord
  <2>3. Alarmed' = Alarmed /\ amState = None
    BY <1>3 DEF Register, Alarmed
  <2>4. QED
    BY <2>1, <2>2, <2>3 DEF Registers, Lifecycle, Status
<1>4. ASSUME NEW e \in SilverEvents, NEW declared \in Declarations,
             CommitsFresh(e, declared)
      PROVE  Handles
  <2> DEFINE r == FreshRecord(e, declared)
             b == FirstSeenBaseline(e, declared)
             first == InitializedRecord(b)
  <2>1. r \in Record /\ r.alerted = 0 /\ amState = None /\ Commit(r, timers)
    BY <1>4, FreshRecordFields DEF CommitsFresh
  <2>2. timers \in SUBSET Timer /\ AlertMemory(0)
    BY <2>1 DEF TypeOK, AlertInv, AlertMemory, Alarmed
  <2>3. b \in Baseline
    BY <1>4, FirstSeenBaselineType DEF CommitsFresh, TypeOK
  <2>4. first \in Record /\ r = Refreshed(first, e)
    BY <2>3, InitializedType DEF FreshRecord, TypeOK
  <2>5. first.status \in 1 .. 4 /\ first.lifecycle = LIFECYCLE_ACTIVE
    BY OverallStatusType DEF InitializedRecord, EmptyRecord
  <2>6. r.status \in 1 .. 4 /\ r.lifecycle = LIFECYCLE_ACTIVE
    BY <2>4, <2>5, RefreshedFields DEF LIFECYCLE_ACTIVE, LIFECYCLE_STALE
  <2> HIDE DEF r
  <2>7. amState' # None /\ amState'.lifecycle = LIFECYCLE_ACTIVE
    BY <2>1, <2>6, CommitKeeps
  <2>8. amState'.status \in 1 .. 4
    BY <2>1, <2>6, CommitStatus
  <2>9. Alarmed' <=> (amState'.status >= 3 \/ (Alarmed /\ amState'.status # 1))
    BY <2>1, <2>2, CommitAlarm
  <2>10. Lifecycle = "unknown" /\ Lifecycle' = LIFECYCLE_ACTIVE
         /\ Status' = amState'.status
    BY <2>1, <2>7 DEF Lifecycle, Status
  <2>11. <<Lifecycle, Lifecycle'>> \in Promise!Turns
    BY <2>10, SameLifecycles DEF Promise!Turns
  <2>12. QED
    BY <2>8, <2>9, <2>10, <2>11 DEF Handles
<1>5. ASSUME NEW e \in SilverEvents, CommitsKnown(e)
      PROVE  Handles
  <2> DEFINE r == Refreshed(amState, e)
  <2>1. r \in Record /\ Commit(r, timers) /\ timers \in SUBSET Timer
    BY <1>1, <1>5, RefreshedType DEF CommitsKnown, TypeOK
  <2>2. r.alerted = amState.alerted /\ r.status = amState.status
    BY <1>1, <1>5, RefreshedFields DEF CommitsKnown
  <2>3. \/ r.lifecycle = amState.lifecycle
        \/ r.lifecycle = LIFECYCLE_ACTIVE /\ amState.lifecycle = LIFECYCLE_STALE
    BY <1>1, <1>5 DEF CommitsKnown, Refreshed, Record
  <2> HIDE DEF r
  <2>4. QED
    BY <1>5, <2>1, <2>2, <2>3, KnownHandles DEF CommitsKnown
<1>6. ASSUME NEW e \in CmEvents, CommitsEvent(e)
      PROVE  Handles
  <2> DEFINE r == ApplyEvent(amState, e)
  <2>1. r \in Record /\ Commit(r, timers) /\ timers \in SUBSET Timer
    BY <1>1, <1>6, ApplyEventType DEF CommitsEvent, TypeOK
  <2>2. r.alerted = amState.alerted /\ r.status = amState.status
        /\ r.lifecycle = amState.lifecycle
    BY <1>1, <1>6, ApplyEventKeeps DEF CommitsEvent
  <2> HIDE DEF r
  <2>3. QED
    BY <1>6, <2>1, <2>2, KnownHandles DEF CommitsEvent
<1>7. ASSUME NEW timer \in timers, CommitsAged(timer)
      PROVE  Handles
  <2> DEFINE r == Aged(amState)
             pending == timers \ {timer}
  <2>1. r \in Record /\ Commit(r, pending) /\ pending \in SUBSET Timer
    BY <1>1, <1>7, AgedType DEF CommitsAged, TypeOK
  <2>2. /\ r.alerted = amState.alerted /\ r.status = amState.status
        /\ \/ r.lifecycle = amState.lifecycle
           \/ r.lifecycle = LIFECYCLE_STALE /\ amState.lifecycle = LIFECYCLE_ACTIVE
    BY <1>1, <1>7 DEF CommitsAged, Aged, Record
  <2> HIDE DEF r, pending
  <2>3. QED
    BY <1>7, <2>1, <2>2, KnownHandles DEF CommitsAged
<1>8. ASSUME NEW timer \in timers, Expires(timer)
      PROVE  Rests
  BY <1>8 DEF Expires, store, Rests, Lifecycle, Status, Shown, Alarmed
<1>9. CASE Retires
  <2>1. /\ amState \in Record /\ amState # None
        /\ amState' = [amState EXCEPT !.lifecycle = LIFECYCLE_DECOMMISSIONED]
        /\ lastAlert' = lastAlert
    BY <1>1, <1>9 DEF Retires
  <2>2. amState' \in Record /\ amState'.status = amState.status
        /\ amState'.lifecycle = LIFECYCLE_DECOMMISSIONED
    BY <2>1 DEF Record, Lifecycles
  <2>3. amState' # None /\ amState.lifecycle # "unknown"
    BY <2>1, <2>2, NoneAssumption
       DEF Record, Lifecycles, LIFECYCLE_REGISTERED, LIFECYCLE_ACTIVE,
           LIFECYCLE_STALE, LIFECYCLE_DECOMMISSIONED
  <2>4. Alarmed' = Alarmed
    BY <2>1 DEF Alarmed
  <2>5. QED
    BY <2>1, <2>2, <2>3, <2>4 DEF RetiresIt, Lifecycle, Status
<1>10. QED
  BY <1>2, <1>3, <1>4, <1>5, <1>6, <1>7, <1>8, <1>9, StepCases DEF Steps

LEMMA InitOfPromise ==
  Init => Promise!Init
BY DEF Init, Promise!Init, Alarmed

LEMMA NextOfPromise ==
  ASSUME TypeOK, AlertInv, View', [Next]_vars
  PROVE  [Promise!Next]_(Promise!promiseVars)
<1>1. Shown' = [lifecycle |-> Lifecycle', status |-> Status']
  BY DEF View
<1>2. Registers => Promise!Register
  BY <1>1, SameLifecycles DEF Registers, Promise!Register, Promise!Shows, Shown, Lifecycle, Status
<1>3. Handles => Promise!Handle
  <2> SUFFICES ASSUME Handles PROVE Promise!Handle
    OBVIOUS
  <2>1. Promise!Analyses = 1 .. 4
    BY DEF Promise!Analyses
  <2>2. \/ Status' \in Promise!Analyses
        \/ Lifecycle # "unknown" /\ Status' = Status
    BY <2>1 DEF Handles
  <2>3. Promise!Shows
    BY <1>1 DEF Promise!Shows, Shown, Lifecycle, Status
  <2>4. Alarmed' = (Status' >= 3 \/ (Alarmed /\ Status' # 1))
    BY DEF Handles
  <2>5. <<Lifecycle, Lifecycle'>> \in Promise!Turns
    BY DEF Handles
  <2> HIDE DEF Promise!Analyses
  <2>6. QED
    BY <2>2, <2>3, <2>4, <2>5 DEF Promise!Handle, Lifecycle, Status
<1>4. RetiresIt => Promise!Retire
  BY <1>1, SameLifecycles DEF RetiresIt, Promise!Retire, Promise!Shows, Shown, Lifecycle, Status
<1>5. Rests => UNCHANGED Promise!promiseVars
  BY DEF Rests, Promise!promiseVars, Shown, Lifecycle, Status
<1>6. QED
  BY <1>2, <1>3, <1>4, <1>5, StepOfPromise DEF Promise!Next

\* With baselines that come, go and change, debounced rechecks, remembered
\* alerts and suppressed publishes, the object's two topics still show a
\* lifecycle, a status and an alarm that move as AssetPromise says.
THEOREM PromiseIsKept ==
  Spec => KeepsPromise
<1>1. TypeOK /\ AlertInv /\ View' /\ [Next]_vars
      => [Promise!Next]_(Promise!promiseVars)
  BY NextOfPromise
<1>2. QED
  BY <1>1, TypeCorrect, InitOfPromise, InitAlerts, NextAlerts, InitMirror,
     NextMirror, InitSilent, NextSilent, ViewIsCurrent, PTL DEF Spec, KeepsPromise, Promise!Spec
=============================================================================
