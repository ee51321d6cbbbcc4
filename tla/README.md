# Verification of openddil-cm-service

TLA+ modules, TLC configurations and TLAPS proofs for the Configuration
Management service: a Restate virtual object per asset that keeps the asset's
as-maintained configuration, compares it with a baseline, and publishes state
and alerts to Kafka. Paths below are relative to the repository; modules are in
this directory.

## 1. The system

| Part | Source | State it keeps | Operations |
|---|---|---|---|
| `AssetCM` object | `src/events/asset_cm.py` | per asset in Restate: `am_state`, `next_recheck_ns`, `cm_state_emit_sig`; delayed self-calls | `observe`, `apply_cm_event`, `recheck_compliance`, `decommission` |
| Discrepancy analyzer | `src/discrepancy/analyzer.py` | none (pure) | `initialize_from_baseline`, `compute_discrepancies`, `overall_status` |
| Episodes | `_apply_event_to_record` in `asset_cm.py` | `manual_discrepancies`, `episode_context`, `closed_episodes` | report, merge, redelivery, resolve |
| Restore | `_load_or_init`, `src/as_maintained/store_read.py` | none of its own; reads the `asset_cm_state` row | three reads on first-seen |
| Baseline registry | `src/baselines/loader.py` | `_by_variant` under `_lock` | `load`, `reload` (SIGHUP), `get`, `all_variants` |
| Records and proto bridge | `src/as_maintained/persistence_model.py`, `store.py` | none | `record_to_proto`, `proto_to_record` |
| Kafka egress | `src/main.py` | producer queue, poll thread | `publish`, delivery and error callbacks, flush |
| Producer health | `src/producer_health.py` | two timestamps | `note_produce`, `note_delivered`, `state`, `die_if_fatal` |
| Decoders and extractors | `asset_cm.py` | none | `_decode_silver_event`, `_decode_cm_event`, `_is_removal`, `_extract_*` |
| Periphery | `metrics.py`, `bootstrap/`, `cli/`, `produces_manifest.py` | none that the program reads back | conversion and I/O |

How they interact. Kafka subscriptions deliver telemetry to `observe` and CM
events to `apply_cm_event`. Every handler but `decommission` ends in the same
tail: `_reanalyze`, `_persist_and_emit_transitions`, `_schedule_next_recheck`.
The tail reads the baseline registry, may publish an alert to
`tactical-events`, may publish the record to `asset-cm-state`, and may send
itself a delayed `recheck_compliance`. A projector outside the repository writes
`asset-cm-state` into the tier store; after Restate state has been lost, the
next first-seen `observe` reads that row back. SIGHUP replaces the registry under
the feet of all assets. Publishing goes through one producer per process: it
queues in memory, a library thread delivers, a poll thread serves the callbacks,
and the kubelet reads from the liveness endpoint whether messages get out.

What makes it hard. Restate runs the handlers of one asset one at a time, so
the difficulty is not in two handlers racing but in *sequences*: delayed calls
that arrive late and find a newer record; values kept from an earlier handler
(`last_alerted_status`, `next_recheck_ns`, the publish signature) that steer a
later one; baselines that change between two handlers; state that is wiped while
the outside world (sent alerts, the stored row, pending calls) stays. Inside the
registry it is the reverse: one thread that interrupts itself. And underneath
both, a handler is not one step at all: it is a list of commands that Restate
journals one by one, executed by attempts that may be lost between any two of
them, on a producer that may fail, fill up or die with its queue.

What makes each part correct:

- *Object*: whoever reads only alerts knows whether an asset is in trouble;
  whoever reads only `asset-cm-state` knows the record; a STALE asset has been
  silent, and a silent asset goes STALE; a due date that passes is reported;
  labels and first-observed times are never lost; retirement is final.
- *Episodes*: one open entry per fault, history append-only, frozen
  configuration frozen.
- *Restore*: what store and record agreed on comes back after a wipe.
- *Registry*: the lock is held by whoever is inside, lookups do not miss, nobody
  waits for himself, and a SIGHUP after the last edit has its effect.
- *Egress*: a handler takes effect at once in spite of crashes and replays, every
  accepted call completes, and what it published reaches the readers.
- *Producer health*: the probe reports a wedge and leaves an idle pod alone.

Every place where the code is exposed to such a thing, with its line and the
properties that watch it, is listed in `PROJECT.json` under "hazards".

## 2. The modules

```
CmTypes              protobuf enumerations (external code)
  Analyzer           the analyzer, as operators
    Analyzer_proofs          its types and its monotonicity
    Persistence      record, message, stored dictionary; the trips between them
      Episodes       report and resolve, as operators on a record
        Episodes_proofs      what each of them does to a record's episodes
        Messages     what the two subscriptions deliver, and what is read of it
  Alerts             when a status is alerted
    AssetCM          (Messages, Alerts) one object: variables, handlers, Spec
      AssetCMProperties      what it promises; implements AssetPromise
        TierStore            AssetCM + tier-store row + loss of Restate state
        AssetCM_proofs               type correctness
          AssetCMSafety_proofs       the safety properties
            AssetPromise_proofs      the refinement
            TierStore_proofs         (TierStore, Episodes_proofs) all of it
                                     across wipes and restores
AssetPromise         abstract: lifecycle, status, alarm, published view
BaselineRegistry     the registry and its one thread
  BaselineRegistry_proofs
Producer             the process as a Kafka producer, its health and its broker
  Egress             (Producer, Alerts) the tail of a handler, command by command
    EgressProperties         what it promises; implements AtomicTail
      Egress_proofs          the health verdict, the copies, the refinement
AtomicTail           abstract: a call takes effect once and as a whole
MCStatus, MCRecheck, MCTier, MCRegistry, MCEgress    instances for TLC
```

`AssetCM` is one virtual object. Its variables are the three Restate keys
(`amState`, `nextRecheck`, `emitSig`), the pending delayed calls (`timers`), the
last message on each topic for this key (`cmState`, `lastAlert`), the clock
(`now`), the loaded baselines (`registry`) and one history variable
(`telemetryAt`). One action is one whole handler:

| Action | Code |
|---|---|
| `Observe` = `RemovalOfUnknown`, `Register`, `FirstSeen`, `Known` | `observe`, `_load_or_init` |
| `ApplyCmEvent` with `ApplyEvent` | `apply_cm_event`, `_apply_event_to_record` |
| `RecheckCompliance` with `Aged` | `recheck_compliance` |
| `Decommission` | `decommission` |
| `Commit` = `Reanalyze`, `Persist` (`SendAlert`, `Emit`), `Schedule` | the common tail |
| `Reload`, `Tick` | SIGHUP seen from the object; the clock |

A handler is one action because Restate serialises the handlers of one key and
makes their effects durable together. Time is counted in ticks, `Second` ticks
to a second, because the code mixes nanoseconds (`now_ns`, `target_ns`) with
floored seconds (`due_date.seconds`, `delay_s`) and the difference matters. The
clock moves while a handler runs, so two handlers never read the same time.

Data are abstracted to what the properties tell apart. A discrepancy id is a
hash of what it identifies and is replaced by that: the slot or mod for a
finding, the pair (component, fault code) for an episode. `inputs` are the
baseline id and the slot or mod. The wording of a recommended action matters
only because `_carry_detection_times` compares it, and the due date it quotes
stands for it. `edge_id` and `region_id` follow the same rule and are one field,
so are `originator_nation` and `releasable_to`. Unknown and "UNKNOWN" variants
are the blank variant. Lists whose entries are told apart by key are functions
or sets.

`Messages` says what a subscription may hand to a handler and what the handler
reads of it: `SilverEvents` and `CmEvents` are the images of the messages under
the decoders. A message that does not decode is `None`; telemetry of that kind
becomes an event with nothing in it, which still counts as an observation, while
a CM message of that kind is an event of no type.

`Persistence` has the three forms of a record (the dataclass that handlers work on,
the protobuf message of the analyzer and the topic, the dictionary stored in
Restate) and the trips between them. What a form cannot carry is lost on the
trip, and `Preserved` and `Loaded` are what the code does about it: every handler
starts with `Loaded(amState)`, every analysis makes the round trip.

`TierStore` adds the row, the messages not yet projected (`backlog`), and the
ways state is lost: `Wipe` (the volume, with pending calls) and `ClearState`
(`restate state clear`, pending calls stay and find no record). The projector
and the wipes are outside `src/` and are modelled from what `store_read.py`
and `llms.txt` say of them. The two restoring reads may see two versions of the
row. `kept` is a history variable: what record and all versions of the row still
readable agreed on when state was lost, less what handlers discharged since.

`BaselineRegistry` makes the call stack of the main thread explicit. CPython
runs a signal handler between two bytecodes of the main thread, so `reload` can
start inside `get`, inside another `reload`, or while waiting for the lock. A
lookup is `_baseline_by_id` with its many small locked sections. A reload lists
one directory after the other, each once, and reads what it listed file by file
while the directories may be edited (`ListFiles`, `ReadFile`), so it may install
a mixture: a file that has gone since the listing makes it raise, one added
since is not read. One file stands for one variant.

`Producer` is the process seen from the topics: a bounded queue, callbacks that
have not been served, the two timestamps of `producer_health.py` as ages in
minutes, the fatal state, death with and without a flush, restart with nothing.
The client library and the broker are outside `src/` and are modelled from what
`main.py` configures and says of them (idempotence keeps order and sends once;
a message is given up after its timeout; a full queue refuses).

`Egress` puts the tail of a handler on that process, one action per command:

| Action | Code |
|---|---|
| `Accept`, `Begin`, `Complete` | a call, an attempt at it (replaying the journal), its end |
| `Publish` then `Acknowledge`, or `PublishRaises` | `ctx.run(_publish_kafka)`: the effect, its journal entry; `BufferError` |
| `SetRecord`, `GetSig`, `SetSig` | `ctx.set("am_state")`, `ctx.get` and `ctx.set` of `cm_state_emit_sig` |
| `LoseAttempt`, `ProcessDies` | an attempt cut off; `Kill`, `DieIfFatal`, `Terminate` |
| `ServeCallbacks`, `Deliver`, `GiveUp`, `TimePasses` | `_poll_loop`, librdkafka, a minute |

`Commands(v)` is the list an attempt will run when the registry is `v`; Restate's
replay check (`Replays`) compares it with the journal. Refusing a replay that
disagrees is why a reload between two attempts can block a call.

Two abstract specifications say what the detail amounts to. `AssetPromise` is
what a reader of the two topics may rely on, with no word about baselines,
timers, memories or signatures; `AssetCM` implements it (`KeepsPromise`, the
mapping is the instance `Promise`). `AtomicTail` is one handler as one step;
`Egress` implements it (`TakesEffectAtOnce`, the mapping `Atomic` shows a call's
effects when it completes). The second is what justifies making handlers atomic
in `AssetCM` and `TierStore`.

Definitions named `*_Mutant`, or with a suffix such as `_Clears`, are plausible
bugs in the definition that follows them. Nothing uses them except the mutation
runs listed in `PROJECT.json`, which put each in place of the original and
expect the named property to fail.

## 3. The runs

### Passing

| Run | Module | States | What it shows |
|---|---|---|---|
| status | `MCStatus` | 2.6 million | alerts, published state, labels, first-observed times and retirement, under all events and reloads; that telemetry of an asset deviating gravely from its baseline always leaves an alarm; that the object implements `AssetPromise` |
| recheck | `MCRecheck` | 155 thousand | delayed calls: debounce, distinctness, no early STALE, and that a call due late enough marks STALE |
| tier | `MCTier` | 944 thousand | episodes, restores and the alarm under wipes and a lagging row |
| registry | `MCRegistry` | 4.3 million | the lock, lookups and the effect of a SIGHUP under nested reloads and directories that change or stop loading while they are read |
| egress | `MCEgress` | 1.1 million | calls over attempts that are lost and a producer that fails: effects, copies, completion, arrival, the liveness verdict; that the tail implements `AtomicTail` |

Bounds, all named in the configurations:

- `status`: one slot, one required mod, two variants. Two registries: in the
  first, only variant 1 has a baseline; in the second, that baseline is a
  revision (mod critical, date moved) and variant 2 has a baseline of its own.
  So reloads add, revise and remove, and all severities occur. Six ticks of
  inputs leave room for detected, resolved and detected again. `MaxTime` is
  past the due dates and the staleness window.
- `recheck`: two mods with two dates, which a reload moves from 4 to 3 seconds
  and from none to 2; `Second = 2`, so that targets fall between whole seconds;
  a window and a minimum delay of their own. `HorizonAssumption` in the module
  makes the clock run past every possible delivery, so liveness is not cut short.
- `tier`: one fault that can be reported, reported again more severely,
  redelivered and resolved repeatedly; one mod; two baselines, chosen by variant
  or by declaration, and a reload that exchanges them; `MaxBacklog = 2` lets the two reads see different rows
  and a further one follow.
- `registry`: three variants in two directories, so that a listing may age while
  another directory is read; two baselines that variants exchange within a
  directory and across, `MaxFrames = 4` calls
  deep (a lookup and three nested reloads, or four reloads), `MaxEdits = 2`.
- `egress`: two calls (`MaxCalls`), so that the second meets what the first
  left; two findings, so that an alarm is raised and one is not, and a second
  registry under which the same finding is less grave; `MaxQueue = 2`, which one
  call alone can fill; two faults (`MaxFaults`: an outage, a fatal error, a
  death or a lost attempt each), so that a crash can follow an outage. One tick
  is a minute: the stall window and the grace period are one, the message
  timeout is two, in the order of the code's 120 and 180 seconds and the
  library's 300. Ages stop counting where they no longer make a difference, so
  time itself has no bound.

`InputUntil` stops events and reloads, `MaxTime` the clock. `CHECK_DEADLOCK
FALSE` is set for the object, where one without input and without pending calls
has nothing to do, and for the registry, whose thread may really wait for
itself, which is what the run `sighup` is about. The egress run does check for
deadlock.

Fairness. `AssetCM!Spec` has weak fairness of `Tick` (the clock runs on) and of
`Recheck` (Restate delivers every delayed call). Telemetry, CM events, reloads
and decommissioning come from outside and are owed by nobody. `TierStore` and
`BaselineRegistry` are checked for safety only and state none. `EgressSpec` has
weak fairness of `Handler \/ TimePasses` (Restate runs an accepted call, and
makes another attempt after a lost one; a minute passes when nothing does) and
of `ProducerSettles \/ DiesOf(DieIfFatal)` (the poll loop and the library's
threads run, `die_if_fatal` exits, a dead container is started again, an outage
ends). Faults, reloads, signals and new calls are owed by nobody. Weak
fairness of the disjunctions is enough because each of their actions consumes
something: a journal entry to write, a message, a callback, an outage.

What some of the properties leave open, on purpose, because the code does:

- `CallsReachReaders` excepts a message handed over and lost (the run
  `egress_lost` is about that) and a call that met a reload. The replay of such
  a call may come to other commands than its journal holds and is then refused
  at every attempt, until the earlier registry comes back.
- `CopiesAreAccountedFor` allows one more alert per attempt cut off between
  publish and journal entry. That is what the journal achieves, and less than
  the documents promise (the run `duplicates`): a retry emits nothing again if
  it finds the entry.
- `HangupTakesEffect` excepts a SIGHUP handled inside a reload that began before
  the last edit: the outer reload swaps last and brings the older files back.
- `StalledOwesDelivery` counts a message just handed over as a delivery owed. The
  first publish after a long idle time therefore reads as stalled until its
  callback arrives; what saves the pod is that probes must fail in a row
  (`failing`).
- `TroubleIsAlarmed` is one half of `AlarmFollowsStatus`. The other half fails
  across a wipe: an alarm that stood stays when the asset comes back in
  compliance, because `last_alerted_status` went with the state.

### Disagreements between the code and what is said of it

Each of these runs checks one property that states a sentence of the
documentation or of a comment, and TLC finds it violated.

| Run | Sentence | What happens |
|---|---|---|
| stale_never | README: recheck transitions to STALE if telemetry stopped | Telemetry inside the window is debounced against the pending call; once that call is delivered, `next_recheck_ns` still blocks later targets, and the asset stays ACTIVE for ever. |
| overdue_never | `_schedule_next_recheck`: at a due date "we need to fire an overdue alert" | The call comes due in the due second, the comparison is strict on seconds, and no further call is sent. |
| registered | topology.md: after SIGHUP the next `observe()` re-initializes | A stored REGISTERED record is returned before any lookup. |
| sighup | loader: thread-safe for reads, reloads on SIGHUP | The handler waits for a lock its own thread holds. |
| egress_lost | topology.md: with the broker down `ctx.run()` returns an exception and Restate retries | `publish` only queues, so the call completes and the signature is stored; a message given up later is a line in the log, and equal states are never published again. |
| duplicates | topology.md: re-execution under retry emits no duplicate CloudEvents | `ctx.run` journals the publish after it happened. An attempt lost in between leaves no entry, the next one publishes the alert again, and to the producer's idempotence these are two messages. |
| thin | comment: a REGISTERED asset has no episodes to keep | A fault is reported and projected, the state is wiped, and telemetry without a variant registers the asset with an empty record: its faults are lost and its row overwritten. Before the wipe the asset may have been ACTIVE, or REGISTERED by earlier such telemetry. |

In ordinary traffic `stale_never` and `overdue_never` are often hidden, because
the next telemetry or event analyses the asset again; they bite when the feed
really stops, which is what rechecks are for. They are therefore checked with the
inputs bounded and the clock running on.

Smaller things met on the way, without a run of their own:

- `observe`'s docstring (`asset_cm.py:150-152`) says that JSON falls back to the
  dictionary form. `_decode_silver_event` (1378-1397) turns bytes that are not a
  protobuf message into an empty event. So a removal sent as JSON is not seen as
  one: it refreshes the asset's observation clock, or registers an unknown asset.
  Undecodable bytes do the same (`MCSilverMessages` has such a message).
- `README.md:4-5` and the comment at `asset_cm.py:866` speak of alerts on
  worsening transitions. The comparison (870-873) alerts only on crossing MAJOR
  from below, so compliance to MINOR, and MAJOR to NOT_MISSION_CAPABLE, are silent.
  `AlarmFollowsStatus` and `AlertsAlternate` state the alarm as the code has it.
- `_reanalyze` looks the baseline up at every attempt, outside the journal, so
  after a reload the alert of a call may speak of another registry than the
  record it stores (`AtomicTail`, the two registries `v` and `w`).

## 4. The proofs

They hold for every value of the constants: any number of slots, mods, variants,
baselines, events, labels, nested calls, any number of calls, faults and
reloads, any queue length, any timing parameters. They rest on the
named assumptions only: the shape of the inputs (`SilverAssumption`,
`CmAssumption`, `RegistriesAssumption`, `DeclarationsAssumption`; for the registry
`SnapshotsAssumption`, while which file is in which directory does not matter; for the egress `EgressAssumption`), numbers where numbers are meant (`TimingAssumption`,
`VariantsAssumption`, `SecondAssumption`, and `ProducerAssumption`, which also
holds the one relation between time limits: the library gives a message up later
than the stall window), slots and mods being told apart
(`RefsAssumption`), inputs ending before the clock does (`ClockAssumption`, a
matter of the two bounds: without it the clock could stand
still between two handlers, and two episodes would share their time), and `None` being
none of the values it stands beside (`NoneAssumption`, `NoneIsNoId`,
`NoneIsApart`).

| Theorem | Property |
|---|---|
| `TypeCorrect` | `TypeOK` |
| `AlarmIsRight`, `AlertMemoryIsRight`, `AlertsDoAlternate` | `AlarmFollowsStatus`, `AlertedMatchesSent`, `AlertsAlternate` |
| `ReadersSeeTheRecord` | `CmStateMirrorsRecord` |
| `StaleIsSilent` | `StaleMeansSilent` |
| `DebounceIsSafe`, `RechecksStayDistinct` | `DebounceIsHonest`, `RechecksAreDistinct` |
| `LabelsDoSurvive`, `RetirementIsFinal` | `LabelsSurvive`, `DecommissionedIsFinal` |
| `DetectionTimesAreKept`, `StatusCountsEverything` | `DetectionTimesKept`, `StatusFollowsFindings` |
| `GraveDeviationsAreAlarmed` | `GraveDeviationIsAlarmed` |
| `PromiseIsKept` | `KeepsPromise` |
| `EpisodesNeverSplit`, `ReportsCountOnce` | `OneEntryPerEpisode`, `NoReportCountsTwice` |
| `ContextIsCurrent`, `WhatIsFrozenStays` | `ContextIsOfOpenEpisode`, `FrozenStaysFrozen` |
| `EpisodesAreIdentified`, `HistoryIsKept` | `EpisodeIdentity`, `ClosedIsHistory` |
| `FaultsSurvive`, `ModsSurvive` | `OpenFaultsSurviveWipe`, `AppliedModsSurviveWipe` |
| `InServiceIsRestored` | the part of both that needs no condition |
| `TheRowCatchesUp`, `TroubleIsAnnounced` | `RowCatchesUp`, `TroubleIsAlarmed` |
| `StaleIsSilentAfterRestore`, `DebounceIsSafeAfterRestore` | `StaleMeansSilent`, `DebounceIsHonest`, under `TierSpec` |
| `DetectionTimesAreKeptAfterRestore`, `StatusCountsEverythingAfterRestore` | `DetectionTimesKept`, `StatusFollowsFindings`, under `TierSpec` |
| `ReadersSeeTheRestoredRecord`, `GraveDeviationsAreAlarmedAfterRestore` | `CmStateMirrorsRecord`, `GraveDeviationIsAlarmed`, under `TierSpec` |
| `RestoredStatusCounts` | restored faults count in the first status |
| `MoreFindingsNeverHelp`, `StatusSaysExactly`, `TimeNeverHelps`, `RepairsNeverHurt` | operators of the analyzer, for all arguments |
| `LockIsDisciplined` | `LockDiscipline` |
| `LookupsDoNotMiss`, `HangupsTakeEffect` | `NoLookupMisses`, `HangupTakesEffect` |
| `CallsTakeEffectAtOnce` | `TakesEffectAtOnce` |
| `CopiesAreFew` | `CopiesAreAccountedFor` |
| `WedgesAreSeen`, `StallsAreOwed` | `WedgeIsSeen`, `StalledOwesDelivery` |

### The object

`AssetCM_proofs` proves types. Its lemmas about what a handler reads and about the
trips between the forms of a record (`SilverEventsType`, `CmEventsType`,
`LoadedIs`, `RoundTrip`, `PutBack`, `ReanalyzeIs`) say once what the detour through
message and dictionary amounts to, and the later modules cite them.

`StepCases` classifies every step: it commits some record that came from the
stored one through `Refreshed`, `ApplyEvent`, `Aged` or a first sight; or
registers; or decommissions; or leaves the store alone. What the common tail does
is then proved once (`CommitType`, `CommitAlerts`, `EmitMirrors`,
`ScheduleKeepsRechecks`) and used for all handlers. Five invariants are inductive
beside `TypeOK`:

- `AlertInv`. `AlarmFollowsStatus` alone is not inductive: whether the next
  alert is sent depends on `last_alerted_status`, not on the alert. The
  strengthening says that the memory is the last alert sent and never MINOR,
  and how the stored status bounds it from both sides.
- `MirrorInv`. The suppression compares with the *signature*, so the signature
  must be that of the last message and of the record.
- `SilenceInv`. The record's `last_observed_at` runs ahead of the telemetry
  (inspections) but never behind it, and neither ahead of the clock.
- `RecheckInv`. A pending call may come due before its target, but by less than
  a second, and after it by no more than the minimum delay (`OnTime`,
  `DelayReaches`): with this a delivered call is no longer needed by the
  debounce. Targets of pending calls are distinct because the debounce only ever
  lets earlier ones through. `timers` is a set, in which two equal calls would be
  one; the proof (`ScheduleKeepsRechecks`) shows that a call is sent only when its
  target lies before that of every pending one, so none is ever swallowed.
  (After `ClearState` that no longer holds: a call sent again for the moment of
  one that survived may be equal to it, and `TierStore` then delivers one.)
- `FindingsInv`, for `DetectionTimesKept`: the analyzer never reports one
  finding twice, so carrying a time over is unambiguous.

`GraveDeviationIsAlarmed` is the service end to end, from a deviation the
analyzer should see to the alert. Its proof goes the same way: the analyzer finds
every grave deviation and grades it MAJOR or worse (`GraveIsFound`; an overdue
mod is escalated), so the status is at least MAJOR whatever else was found
(`CommitGrave`), and `AlertInv` turns the status into an alarm. It is stated for
steps that handle telemetry. `decommission` analyses nothing, and between two
analyses a mod may pass its due date.

`AssetPromise_proofs` shows that `AssetCM` implements `AssetPromise`. `MirrorInv`
gives that the published view is the record's lifecycle and status (`ViewIsCurrent`),
`SilentInv` that nothing has been published of an unknown asset, and `AlertInv`
that the remembered alert is as good as the alarm itself, so each commit is a move of the
abstract status with its hysteresis (`CommitStatus`, `CommitAlarm`): raised at MAJOR,
kept at MINOR, dropped in compliance. `StepOfPromise` joins them per class of step.

### The analyzer

`Analyzer_proofs` compares the answers of the pure functions for two arguments.
One set of findings outweighs another when it is at least as grave finding by
finding; then the status is at least as bad (`OutweighedStatus`). From this
follow the three monotonicity theorems: more findings never improve the status;
with the configuration unchanged, neither does the passing of time (a due date
turns pending into overdue, one level up, and never back); and parts filled or
mods settled, in any number, never worsen it. `StatusSaysExactly` goes through
slots, escalation and reduction at once: which deviations, and no others, put an
asset at MINOR, MAJOR or out of service. A missing part alone never takes it out
of service, an overdue mod counts one level up, an untracked one as it is.

### Episodes

`Episodes_proofs` is about a record before and after one report or resolution.
`ReportCases` and `ResolveCases` name the paths through `ManualReport` and
`ManualResolve` (legacy entry, opened, recognised as known, merged; closed,
ignored). `EpisodesInv(r, t)` has three parts that only hold together:

- `OpenInv`: one open entry per key, no event id twice among the sources of
  an entry, and every entry observed before `t`. The last part carries the
  others into the future: a new entry is observed at `t`, later than all.
- `ContextInv`: at most one frozen context per key, and it belongs to the open
  entry. `FrozenStaysFrozen` needs it, because a context left over from an
  earlier episode would be taken for that of the next.
- `ClosedInv`: a closed episode was observed before the open one with its key,
  and no two closed ones share key and time.

`FrozenStep` and `HistoryStep` say what one report or resolution keeps.

### The tier store

`TierStore_proofs` carries all this across losses of state. `TierStepCases` sorts
the steps: the state is lost; a handler runs that is one of the object's own; or
an unknown asset is restored from two versions of the row; and beside any of
these the projector may move. `FutureRows`, the row as it is and as each message
in the backlog will leave it, stands for every version a restore may read. The
inductive invariants are

- `RowInv`, for `RowCatchesUp`: the last of the future rows is what was last
  published, and that mirrors the record when there is one.
- `TroubleInv`, for `TroubleIsAlarmed`. `AlertInv` does not survive a wipe, which
  forgets which alert stands. What is left of it goes one way only: a remembered
  alert at MAJOR or worse stands, and a status as bad as that is remembered.
- `EpisodeStoreInv`: the record's episodes are in order, and so are the open
  entries of every future row, for the next restore may take any of them.
- `SurvivalInv`, for what a loss of state leaves owed (`kept`): while the record
  is lost, every future row holds it; once the asset is back, the record does.
  Restores read faults and mods from two rows, so each row must hold both.

`FaultsSurvive` and `ModsSurvive` assume `AlwaysRestores`: all telemetry but
removals names a variant, and every registry has a baseline for it. The
assumption is about inputs, and it is needed: the violated run `thin` is the
same property without it. It is what the instance of run `tier` satisfies.
`InServiceIsRestored` shows that nothing else can go wrong: with no assumption
at all, an asset that is ACTIVE or STALE has everything it was owed, so the only
ones that may lack it are REGISTERED (never restored) or retired.

Because a restore ends in the common tail like any other handler, the lemmas of
`AssetCMSafety_proofs` about single steps (`StepsSilence`, `StepsDeliver`,
`StepsFindings`, `StepsCounted`, `StepsGrave`) are stated for the object's own
steps and reused here; what is new is the restored record that is handed to the tail
(`RestoredHandsOver`) and the step that forgets. In this way most of what the object
promises is proved for an object whose state may be lost at any point.
The exceptions are the promises that losing the state really breaks. On the
instance of run `tier`, TLC finds counterexamples to the first five:
`last_alerted_status` is not restored, so an asset in compliance may keep an alarm
(`AlarmFollowsStatus`, `AlertedMatchesSent`, and with them `KeepsPromise`) and
a "detected" may follow a "detected" (`AlertsAlternate`); `next_recheck_ns` is
cleared while delayed calls stay, so two of them may be aimed at one moment
(`RechecksAreDistinct`). Labels and retirement are not read back, so
`LabelsSurvive` and `DecommissionedIsFinal` are about an object that keeps its
state.

### The registry

`BaselineRegistry_proofs` has three inductive invariants. `RegTypeOK` gives the
stack its shape. `LockDiscipline` is inductive with it: a call takes the lock only
when it is free, and whoever leaves a locked section is the call on top.
`CallsInv` says per frame what the call knows: a lookup still has before it every
variant that has kept its baseline; while the directory is settled, what a reload
has read is what is there, and what is in a directory it has listed is read or
still on its list; and when no reload is in progress, the dictionary is
that too.

### The egress

`Egress_proofs` first takes the producer by itself: for it, every step of the
egress is one of `ProducerNext` (`ProducerSteps`). Neither verdict of the probe is
inductive. `WedgeInv` adds that the last delivery noted is at least as old as the
outage, which holds because callbacks are served before a minute passes.
`OwedInv` says that a produce inside the window is followed by a delivery, or by a
refusal, or still has a message in the queue no older than itself. That message
cannot have been given up, because the library tries for longer than the window;
here the assumption on the time limits is needed.

`CallInv` is about the call in progress: some registry `v` loaded since it began
accounts for everything. The journal agrees with the commands for `v`
(`Agreeing`), and from its length follow the record, the signature and both topics,
up to a publish that is done and not yet journaled (`Reached`). An attempt reads
the signature the call began with, from the journal or from the key
(`ReadsTheOld`), so the commands depend on `v` alone. A new attempt may look up a
later registry; because its replay is not refused, it stores the same record,
so the later registry can take the place of `v` (`BeginKeeps`). The alert alone is
not compared, which is why `Explained` lets it speak of an earlier registry, as
`AtomicTail` does. `NextCall` joins the steps and shows each to be `Handle`, `Reload`
or nothing of `AtomicTail`.

### Only model-checked

Liveness under fairness is out of TLAPS's reach: `RecheckMarksStale` and
`CallsReachReaders` are checked by TLC on the instances above. So are the
properties of the violated runs, which are not theorems. Every invariant and
every other action property of the passing runs is proved.

## 5. Not modelled, and why

- The analyzer's part-number and revision rules (`analyzer.py:237-280`): no handler
  passes the CI records they need.
- The dictionary forms of events that only tests pass to a handler; field-by-field
  parsing of YAML, ISO times and units: conversions without state. What a
  conversion loses that matters (labels, closed episodes, detection times) is
  part of `Persistence`.
- In `Egress`: the schedule and `object_send` at the end of the tail (they touch
  neither the producer nor the two topics); run threads that outlive their
  attempt; two assets sharing the producer. An attempt takes no minute, a dead
  container is back within one, and the kubelet's repeated failures are one
  (`failing`).
- Events whose fields are missing (`asset_cm.py:474`): such a message fails at every
  attempt, and the code says nothing of what is to happen then.
- A clock that runs backwards.
- `bootstrap/` polls two endpoints and posts a registration and the subscriptions,
  in sequence and without state; `cli/`, `produces_manifest.py`, `metrics.py`,
  containers and logging keep no state that the program reads back.

## 6. Plan

Done: the object, its analyzer, decoders, persistence and episodes, the tier
store, the registry, the egress with its health probe; both abstract
specifications; theorems about the analyzer, the episodes, the object, the object
across wipes, the registry and the egress, and both refinements.

What is left, in this order:

1. The promise across wipes: a weaker `AssetPromise` with a step that loses the
   state, and `TierSpec` shown to implement it.
2. The debounce from the other side, as safety: under which condition on the
   pending calls and `next_recheck_ns` a silent asset still has a call that will
   find it silent.
