-------------------------- MODULE AssetCMProperties --------------------------
(***************************************************************************)
(* What one AssetCM object promises: its type invariant, the safety        *)
(* invariants, the action properties and the liveness properties the runs  *)
(* check and AssetCM_proofs proves.                                        *)
(***************************************************************************)
EXTENDS AssetCM

\* Every variable holds values of the shape the code gives it.
TypeOK ==
  /\ now \in Nat
  /\ registry \in Registry
  /\ amState \in Record \cup {None}
  /\ nextRecheck \in Nat
  /\ emitSig \in Payload \cup {None}
  /\ timers \in SUBSET Timer
  /\ cmState \in Payload \cup {None}
  /\ lastAlert \in Alert \cup {None}
  /\ telemetryAt \in Nat \cup {None}

-----------------------------------------------------------------------------
(* Status and alerts.                                                       *)

Alarmed == lastAlert # None /\ lastAlert.kind = "detected"

\* Whoever reads only tactical-events knows the worst: an asset at MAJOR or
\* worse has a standing "detected", and an asset in compliance has none
\* (_persist_and_emit_transitions).
AlarmFollowsStatus ==
  amState # None =>
    /\ amState.status >= CONFIG_STATUS_MAJOR_DISCREPANCY => Alarmed
    /\ amState.status = CONFIG_STATUS_IN_COMPLIANCE => ~Alarmed

\* The durable last_alerted_status and the last alert sent agree on whether
\* an alarm stands: neither is moved without the other.
AlertedMatchesSent ==
  amState # None =>
    /\ Alarmed <=> amState.alerted >= CONFIG_STATUS_MAJOR_DISCREPANCY
    /\ lastAlert # None => lastAlert.current = amState.alerted

\* Alerts alternate: never two "detected" without a "resolved" between them,
\* never a "resolved" that resolves nothing.
AlertsAlternate ==
  [][lastAlert' # lastAlert =>
       lastAlert'.kind = (IF Alarmed THEN "resolved" ELSE "detected")]_vars

\* A fault report, a resolution, an applied mod or a replaced part is counted
\* in the status it leaves behind, as long as the asset's baseline is loaded
\* (_reanalyze merges manual and analyzer findings for the reduction).
StatusFollowsFindings ==
  [][ amState # None /\ amState' # None
      /\ <<amState'.manual, amState'.mods, amState'.installed>>
           # <<amState.manual, amState.mods, amState.installed>>
      /\ amState'.baseline # None /\ BaselineById(amState'.baseline) # None
      => amState'.status = OverallStatus(amState'.discs \cup amState'.manual) ]_vars

\* A deviation from the baseline that grounds the asset or nearly so: a
\* required part missing or unverified, an open mod of MAJOR category, or one
\* of MINOR category that is tracked and past its due date.
GraveDeviation(b, r) ==
  \/ \E s \in Slots : b.slots[s] = "required"
                     /\ r.installed[s].ci \in {Unverified, NotInstalled}
  \/ \E m \in b.required :
       /\ r.mods[m].state \notin
            {MOD_STATE_APPLIED, MOD_STATE_WAIVED, MOD_STATE_NOT_APPLICABLE}
       /\ \/ b.severity[m] >= SEVERITY_MAJOR
          \/ /\ r.mods[m].state # MOD_UNTRACKED
             /\ b.severity[m] >= SEVERITY_MINOR
             /\ b.due[m] > 0 /\ now \div Second > b.due[m]

\* README.md:3-5, end to end: when telemetry is handled, an asset that
\* deviates gravely from its loaded baseline has a standing "detected"
\* afterwards, whatever was reported, applied, reloaded or alerted before.
GraveDeviationIsAlarmed ==
  [][ telemetryAt' # telemetryAt /\ amState'.baseline # None
      /\ BaselineById(amState'.baseline) # None
      /\ GraveDeviation(BaselineById(amState'.baseline), amState')
      => lastAlert' # None /\ lastAlert'.kind = "detected" ]_vars

\* Lifecycle, status, alarm and published view, each read from where the world
\* reads it.
Promise ==
  INSTANCE AssetPromise WITH
    lifecycle <- IF amState = None THEN "unknown" ELSE amState.lifecycle,
    status <- IF amState = None THEN CONFIG_STATUS_UNSPECIFIED ELSE amState.status,
    alarm <- Alarmed,
    shown <- IF cmState = None
             THEN [lifecycle |-> "unknown", status |-> CONFIG_STATUS_UNSPECIFIED]
             ELSE [lifecycle |-> cmState.lifecycle, status |-> cmState.status]

\* The object implements what is promised of an asset: with baselines that
\* come, go and change, debounced rechecks, remembered alerts and suppressed
\* publishes, its two topics show a lifecycle, a status and an alarm that move
\* as AssetPromise says and in no other way.
KeepsPromise == Promise!Spec

-----------------------------------------------------------------------------
(* What the record keeps, and what the world is told of it.                 *)

\* A finding that stays open keeps the time it was first observed, whatever
\* recomputation, reload or baseline edit lies between.
DetectionTimesKept ==
  [][ amState # None /\ amState' # None =>
        \A d \in amState.discs, d2 \in amState'.discs :
          SameFinding(d, d2) => d2.detected = d.detected ]_vars

\* The last message on asset-cm-state says what the record says, except for
\* as_of_ns: suppressing unchanged payloads never leaves readers behind.
CmStateMirrorsRecord ==
  amState # None =>
    cmState # None /\ Signature(cmState) = Signature(PayloadOf(amState))

\* Origin and releasability labels, once known, are never cleared, neither by
\* a thin message nor by a recomputation.
LabelsSurvive ==
  [][ amState # None =>
        /\ amState' # None
        /\ amState.label # Blank => amState'.label # Blank
        /\ amState.edge # Blank => amState'.edge # Blank ]_vars

\* Retirement is final: no handler brings the asset back, and no recheck is
\* sent for it any more.
DecommissionedIsFinal ==
  [][ amState # None /\ amState.lifecycle = LIFECYCLE_DECOMMISSIONED =>
        /\ amState'.lifecycle = LIFECYCLE_DECOMMISSIONED
        /\ timers' \subseteq timers ]_vars

\* docs/topology.md:105: when the baseline of a REGISTERED asset's variant has
\* been added and loaded, the next observe() re-initializes the asset. Stated
\* where every variant is loaded and every event names one.
RegisteredReinitializes ==
  [][ amState # None /\ amState.lifecycle = LIFECYCLE_REGISTERED
      /\ telemetryAt' # telemetryAt
      /\ (\A v \in Variants : registry[v] # None)
      /\ (\A e \in SilverEvents : e.variant # Blank)
      => amState'.lifecycle = LIFECYCLE_ACTIVE ]_vars

-----------------------------------------------------------------------------
(* Rechecks and staleness.                                                  *)

\* An asset reported STALE has really been silent for the whole window,
\* whatever passing inspections say meanwhile.
StaleMeansSilent ==
  amState # None /\ amState.lifecycle = LIFECYCLE_STALE =>
    now >= telemetryAt + Window

\* The debounce suppresses a recheck only on the strength of one that is on
\* its way: while next_recheck_ns lies ahead by a second or more, a delayed
\* call aimed at it is pending, and it comes due at most the minimum delay
\* after its target.
DebounceIsHonest ==
  nextRecheck >= now + Second =>
    \E timer \in timers :
      /\ timer.target = nextRecheck
      /\ timer.fires <= timer.target + RECHECK_MIN_DELAY_S * Second

\* Delayed calls never pile up on one moment: every pending one is aimed at a
\* moment of its own, none earlier than next_recheck_ns.
RechecksAreDistinct ==
  /\ \A timer \in timers : timer.target >= nextRecheck
  /\ \A a, b \in timers : a.target = b.target => a = b

\* A delayed call that is due no sooner than the end of the window does mark
\* the asset STALE, once the feed has stopped.
RecheckMarksStale ==
  (now > InputUntil /\ amState # None /\ amState.lifecycle = LIFECYCLE_ACTIVE
     /\ \E timer \in timers : timer.fires >= amState.observed + Window)
    ~> (amState # None /\ amState.lifecycle # LIFECYCLE_ACTIVE)

\* README.md:41: recheck_compliance transitions to STALE if telemetry stopped.
\* So an active asset is STALE sooner or later, once its inputs have stopped.
SilentAssetGoesStale ==
  (amState # None /\ amState.lifecycle = LIFECYCLE_ACTIVE)
    ~> (amState # None /\ amState.lifecycle # LIFECYCLE_ACTIVE)

\* _schedule_next_recheck, trigger 1: a required mod's due date passes, "we
\* need to fire an overdue alert". So a mod that is overdue in the loaded
\* baseline is sooner or later reported as overdue.
OverdueIsReported ==
  \A m \in Mods :
    (amState # None /\ amState.baseline # None
       /\ BaselineById(amState.baseline) # None
       /\ m \in BaselineById(amState.baseline).required
       /\ amState.mods[m].state = MOD_STATE_PENDING
       /\ BaselineById(amState.baseline).due[m] > 0)
    ~> (amState # None /\
          ( \/ \E d \in amState.discs :
                 d.ref = m /\ d.rule = "required-mod.overdue"
            \/ amState.mods[m].state # MOD_STATE_PENDING
            \/ amState.lifecycle = LIFECYCLE_DECOMMISSIONED))

-----------------------------------------------------------------------------
(* Episodes.                                                                *)

\* One open entry per keyed episode: reports of one fault never split.
OneEntryPerEpisode ==
  amState # None =>
    \A a, b \in amState.manual :
      EpisodeId(a) = EpisodeId(b) /\ ~Unkeyed(a) => a = b

\* One frozen context per episode, and it belongs to the episode that is open
\* now: the configuration of an earlier episode with the same key is never
\* taken for this one's.
ContextIsOfOpenEpisode ==
  amState # None =>
    /\ \A c \in amState.ctx :
         \E d \in amState.manual :
           EpisodeId(d) = EpisodeId(c) /\ d.detected = c.detected
    /\ \A a, b \in amState.ctx : EpisodeId(a) = EpisodeId(b) => a = b

\* Kafka delivers reports more than once and a restored episode may have
\* forgotten some; still no report is counted as two sources of one episode.
NoReportCountsTwice ==
  amState # None =>
    \A d \in amState.manual : \A a, b \in d.sources :
      a.event = b.event /\ a.event # Blank => a = b

\* Frozen means frozen: an episode that opens freezes the configuration it
\* opened under, which never changes afterwards and moves unchanged into the
\* closed episode (persistence_model.py:108-123).
FrozenStaysFrozen ==
  [][ amState # None /\ amState' # None =>
        /\ \A d \in amState'.manual :
             \/ Unkeyed(d)
             \/ \E old \in amState.manual :
                  EpisodeId(old) = EpisodeId(d) /\ old.detected = d.detected
             \/ [component |-> d.component, fault |-> d.fault,
                 detected |-> d.detected, baseline |-> amState.baseline,
                 mods |-> amState.mods] \in amState'.ctx
        /\ \A c \in amState.ctx :
             \/ c \in amState'.ctx
             \/ \E x \in amState'.closed :
                  /\ EpisodeId(x) = EpisodeId(c) /\ x.detected = c.detected
                  /\ x.frozen = [baseline |-> c.baseline, mods |-> c.mods] ]_vars

\* closed_episodes is append-only, and an open fault leaves the record only
\* into it, with all its sources.
ClosedIsHistory ==
  [][ amState # None /\ amState' # None =>
        /\ amState.closed \subseteq amState'.closed
        /\ \A d \in amState.manual :
             \/ \E d2 \in amState'.manual :
                  /\ EpisodeId(d2) = EpisodeId(d) /\ d2.detected = d.detected
                  /\ d.sources \subseteq d2.sources /\ d2.severity >= d.severity
             \/ \E x \in amState'.closed :
                  /\ EpisodeId(x) = EpisodeId(d) /\ x.detected = d.detected
                  /\ x.sources = d.sources ]_vars

\* The identity of an episode, open or closed, is (discrepancy_id, detected):
\* no two of them ever share it.
EpisodeIdentity ==
  amState # None =>
    LET all == amState.closed \cup amState.manual
    IN  \A a, b \in all :
          ~Unkeyed(a) /\ EpisodeId(a) = EpisodeId(b) /\ a.detected = b.detected
          => a = b
=============================================================================
